-------------------------------- MODULE OpcUa --------------------------------
(***************************************************************************)
(* One device of the OPC UA module (connector-opcua/src/lib.rs): its       *)
(* session with the task that drives the event loop of the client library, *)
(* the translation of node ids through namespace tables, the push          *)
(* subscription with its forwarder and its retry task, and the calls of    *)
(* the runtime, each of which operation_timeout may cancel.                *)
(*                                                                         *)
(* The client library (async-opcua) and the server are external.  The      *)
(* library re-establishes a dropped session a few times by itself and      *)
(* re-creates its subscription, perhaps not all of it, without a word.     *)
(***************************************************************************)
EXTENDS Naturals, FiniteSets

CONSTANTS
    Point,      \* the points of the device, all with a namespace table
    MaxFaults,  \* bound: outages, silences, restarts, refusals and cancelled calls
    Renumbers   \* whether a server that restarts may number its namespaces anew

VARIABLES
    call,       \* the call the runtime is making: "none", "connect", "setup", "close", "items"
    then,       \* whether a connect follows the close (reconnect, not disconnect)
    handle,     \* whether `sessions' has the device
    health,     \* [connected, reason, security, silent] as drive_session recorded it
    trans,      \* the translation of each point: NotYet, Failed, or a numbering of the server
    push,       \* the subscription: [armed, expected, points, waiting]
    forwarders, \* forwarder tasks that still feed the runtime
    loop,       \* library: "none", "dial", "active", "lost", "ended"
    event,      \* library: the event drive_session has not recorded yet, or "none"
    live,       \* library: the points with a live monitored item
    server,     \* server: [net, listed, numbering, held], held sessions of this device
    faults

vars == <<call, then, handle, health, trans, push, forwarders, loop, event, live, server, faults>>

Fresh == [connected |-> FALSE, reason |-> FALSE, security |-> FALSE, silent |-> FALSE]
NotYet == 2
Failed == 3
NoPush == [armed |-> FALSE, expected |-> 0, points |-> {}, waiting |-> {}]
Answers == server.net = "up"

Init ==
    /\ call = "none" /\ then = FALSE /\ handle = FALSE /\ health = Fresh
    /\ trans = [p \in Point |-> NotYet]
    /\ push = NoPush /\ forwarders = 0
    /\ loop = "none" /\ event = "none" /\ live = {}
    /\ server = [net |-> "up", listed |-> {}, numbering |-> 0, held |-> 0]
    /\ faults = 0

-----------------------------------------------------------------------------
(* Connecting and closing.                                                 *)

\* Attempt::try_connect up to the spawn of drive_session; an attempt refused before (a
\* certificate, no matching endpoint, a plaintext password) leaves nothing.
BeginConnect ==
    /\ call = "none" /\ ~handle
    /\ call' = "connect" /\ then' = FALSE
    /\ loop' = "dial" /\ event' = "none" /\ live' = {} /\ health' = Fresh
    /\ UNCHANGED <<handle, trans, push, forwarders, server, faults>>

\* Mutant: the recorded loss is overwritten.
Activated_Overwrites ==
    /\ call = "connect" /\ loop # "dial" /\ ~health.security
    /\ health' = [health EXCEPT !.connected = TRUE]
    /\ call' = "setup"
    /\ UNCHANGED <<then, handle, trans, push, forwarders, loop, event, live, server, faults>>

\* wait_for_connection returned: connected, unless a loss was recorded since.
Activated ==
    /\ call = "connect" /\ loop # "dial" /\ ~health.security
    /\ health' = [health EXCEPT !.connected = @ \/ ~health.reason]
    /\ call' = "setup"
    /\ UNCHANGED <<then, handle, trans, push, forwarders, loop, event, live, server, faults>>

\* A security failure was recorded, or connect_timeout passed: the event loop is aborted.
ConnectFails ==
    /\ call = "connect" /\ (health.security \/ loop = "dial")
    /\ call' = "none"
    /\ loop' = "none" /\ event' = "none"
    /\ UNCHANGED <<then, handle, health, trans, push, forwarders, live, server, faults>>

\* translation_keys and namespaces::translate: the points with `retry' only those that failed.
Translate(points) ==
    [p \in Point |-> IF p \notin points THEN trans[p]
                     ELSE IF Answers /\ loop = "active" /\ p \in server.listed
                     THEN server.numbering ELSE Failed]
Untranslated == {p \in Point : trans[p] = Failed}

\* The rest of connect_one: read_limit, translate, resolve_types, and the handle is kept.
\* drive_session records events meanwhile: it polls the loop that answers these requests.
Install ==
    /\ call = "setup" /\ event = "none"
    /\ trans' = Translate(Point)
    /\ handle' = TRUE
    /\ call' = "none"
    /\ UNCHANGED <<then, health, push, forwarders, loop, event, live, server, faults>>

\* Mutant: the forwarder goes on.
BeginClose_Forwards ==
    /\ call = "none" /\ handle
    /\ push' = NoPush
    /\ handle' = FALSE /\ trans' = [p \in Point |-> NotYet]
    /\ call' = "close" /\ then' \in BOOLEAN
    /\ UNCHANGED <<forwarders, health, loop, event, live, server, faults>>

\* reconnect and disconnect first drop the subscription, its forwarder and its retry task.
BeginClose ==
    /\ call = "none" /\ handle
    /\ push' = NoPush
    /\ forwarders' = IF push.armed THEN forwarders - 1 ELSE forwarders
    /\ handle' = FALSE /\ trans' = [p \in Point |-> NotYet]
    /\ call' = "close" /\ then' \in BOOLEAN
    /\ UNCHANGED <<health, loop, event, live, server, faults>>

Hold(n) == server' = [server EXCEPT !.held = n]

\* Mutant: the session is dropped without CloseSession.
CloseSession_Drops ==
    /\ call = "close"
    /\ UNCHANGED server
    /\ loop' = IF then THEN "dial" ELSE "none"
    /\ call' = IF then THEN "connect" ELSE "none"
    /\ event' = "none" /\ live' = {} /\ health' = Fresh
    /\ UNCHANGED <<then, handle, trans, push, forwarders, faults>>

\* close_session: closed on the server while connected, unless the server has lost it, and the
\* event loop aborted; then reconnect goes on with connect_one.
CloseSession ==
    /\ call = "close"
    /\ IF health.connected /\ loop = "active" /\ Answers /\ server.held > 0
       THEN Hold(server.held - 1)
       ELSE UNCHANGED server
    /\ loop' = IF then THEN "dial" ELSE "none"
    /\ call' = IF then THEN "connect" ELSE "none"
    /\ event' = "none" /\ live' = {} /\ health' = Fresh
    /\ UNCHANGED <<then, handle, trans, push, forwarders, faults>>

\* The runtime cancels a call: what it held is dropped, and AbortOnDrop ends the event loop of a
\* session that is not in `sessions'.  (A subscription that a cancelled or failed call leaves on the
\* session is not told apart: the runtime reconnects before it subscribes again.)
Cancel ==
    /\ call \in {"connect", "setup", "close", "items"} /\ faults < MaxFaults
    /\ call' = "none"
    /\ faults' = faults + 1
    /\ IF handle THEN UNCHANGED <<loop, event, live>> ELSE loop' = "none" /\ event' = "none" /\ live' = {}
    /\ UNCHANGED <<then, handle, health, trans, push, forwarders, server>>

-----------------------------------------------------------------------------
(* Push delivery.                                                          *)

\* subscribe: the subscription is created ...
BeginSubscribe ==
    /\ call = "none" /\ handle /\ Answers /\ loop = "active"
    /\ call' = "items"
    /\ UNCHANGED <<then, handle, health, trans, push, forwarders, loop, event, live, server, faults>>

\* ... then the monitored items of the translated points; the others wait for the retry task.
\* The forwarder of a subscription it replaces is aborted.
CreateItems ==
    /\ call = "items" /\ Answers /\ loop = "active"
    /\ call' = "none"
    /\ live' = Point \ Untranslated
    /\ push' = [armed |-> TRUE, expected |-> Cardinality(live'), points |-> Point,
                waiting |-> Untranslated]
    /\ forwarders' = forwarders + 1 - IF push.armed THEN 1 ELSE 0
    /\ health' = [health EXCEPT !.silent = FALSE]
    /\ UNCHANGED <<then, handle, trans, loop, event, server, faults>>

\* Or a request fails, or an item is rejected: all or nothing.
CreateFails ==
    /\ call = "items"
    /\ call' = "none" /\ live' = {}
    /\ UNCHANGED <<then, handle, health, trans, push, forwarders, loop, event, server, faults>>

\* Retry::run every RETRY_INTERVAL: points that translate by now get their items, unless the request
\* (one batch) fails or the item is rejected; those go on waiting.
RetryRun ==
    /\ push.armed /\ push.waiting # {}
    /\ trans' = Translate(Untranslated)
    /\ \E added \in SUBSET {p \in push.waiting : trans'[p] # Failed} :
          /\ added # {} => Answers /\ loop = "active"
          /\ live' = live \union added
          /\ push' = [push EXCEPT !.waiting = @ \ added]
    /\ UNCHANGED <<call, then, handle, health, forwarders, loop, event, server, faults>>

\* read_points tries the untranslated points again first.
ReadPoints ==
    /\ call = "none" /\ handle /\ Untranslated # {}
    /\ trans' = Translate(Untranslated)
    /\ UNCHANGED <<call, then, handle, health, push, forwarders, loop, event, live, server, faults>>

\* Mutant: monitored items are not counted.
CheckOk_NoItems == handle /\ push.armed /\ health.connected /\ ~health.silent

\* What check_subscription answers.
CheckOk ==
    /\ handle /\ push.armed
    /\ health.connected
    /\ Cardinality(live) >= push.expected
    /\ ~health.silent

-----------------------------------------------------------------------------
(* The library, the task that records its events, and the server.          *)

\* The session activates.
LibraryConnects ==
    /\ loop = "dial" /\ event = "none" /\ Answers
    /\ loop' = "active" /\ event' = "connected"
    /\ Hold(server.held + 1)
    /\ UNCHANGED <<call, then, handle, health, trans, push, forwarders, live, faults>>

\* The transport drops, or the connect is not answered ...
LibraryLoses ==
    /\ event = "none"
    /\ \/ loop = "active" /\ (server.net = "down" \/ server.held = 0) /\ loop' = "lost"
       \/ loop = "dial" /\ ~Answers /\ loop' = "dial"
    /\ event' = "lost"
    /\ UNCHANGED <<call, then, handle, health, trans, push, forwarders, live, server, faults>>

\* ... or the server refuses it for a security reason.
LibraryRefused ==
    /\ event = "none" /\ loop = "dial" /\ Answers /\ faults < MaxFaults
    /\ faults' = faults + 1
    /\ event' = "refused"
    /\ UNCHANGED <<call, then, handle, health, trans, push, forwarders, loop, live, server>>

\* Within its retry limit the library reconnects and re-creates what it can.
LibraryReconnects ==
    /\ loop = "lost" /\ event = "none" /\ Answers
    /\ loop' = "active" /\ event' = "connected"
    /\ live' \in SUBSET live
    /\ Hold(IF server.held = 0 THEN 1 ELSE server.held)
    /\ UNCHANGED <<call, then, handle, health, trans, push, forwarders, faults>>

LibraryGivesUp ==
    /\ loop = "lost" /\ event = "none"
    /\ loop' = "ended" /\ event' = "ended"
    /\ UNCHANGED <<call, then, handle, health, trans, push, forwarders, live, server, faults>>

\* drive_session records an event; wait_for_security_failure looks at the status.
Record ==
    /\ event # "none"
    /\ health' = CASE event = "connected" -> [health EXCEPT !.connected = TRUE, !.reason = FALSE,
                                                           !.silent = FALSE]
                   [] OTHER -> [health EXCEPT !.connected = FALSE, !.reason = TRUE,
                                              !.security = @ \/ event = "refused"]
    /\ event' = "none"
    /\ UNCHANGED <<call, then, handle, trans, push, forwarders, loop, live, server, faults>>

\* The server answers a publish request within the keep-alive window, or it does not.
Publishes ==
    /\ loop = "active" /\ push.armed
    /\ health' = [health EXCEPT !.silent = ~Answers]
    /\ health' # health
    /\ UNCHANGED <<call, then, handle, trans, push, forwarders, loop, event, live, server, faults>>

\* The server goes away, falls silent, comes back, or restarts without its sessions; a
\* namespace is added.
ServerFault ==
    /\ faults < MaxFaults /\ Answers
    /\ faults' = faults + 1
    /\ \/ \E n \in {"down", "silent"} : server' = [server EXCEPT !.net = n]
       \/ \E k \in IF Renumbers THEN {0, 1} ELSE {server.numbering} :
             server' = [server EXCEPT !.net = "down", !.held = 0, !.numbering = k]
    /\ UNCHANGED <<call, then, handle, health, trans, push, forwarders, loop, event, live>>

ServerBack ==
    /\ ~Answers
    /\ server' = [server EXCEPT !.net = "up"]
    /\ UNCHANGED <<call, then, handle, health, trans, push, forwarders, loop, event, live, faults>>

AddNamespace(p) ==
    /\ p \notin server.listed
    /\ server' = [server EXCEPT !.listed = @ \union {p}]
    /\ UNCHANGED <<call, then, handle, health, trans, push, forwarders, loop, event, live, faults>>

-----------------------------------------------------------------------------
Calls == BeginConnect \/ Activated \/ ConnectFails \/ Install \/ CloseSession \/ BeginSubscribe
         \/ CreateItems \/ CreateFails \/ ReadPoints

Library == LibraryConnects \/ LibraryLoses \/ LibraryRefused \/ LibraryReconnects \/ LibraryGivesUp

Next == Calls \/ BeginClose \/ Cancel \/ RetryRun \/ Library \/ Record \/ Publishes
        \/ ServerFault \/ ServerBack \/ \E p \in Point : AddNamespace(p)

Spec == Init /\ [][Next]_vars

-----------------------------------------------------------------------------
(* Properties.                                                             *)

\* The recorded health of a session never claims a connection that the event loop has lost and
\* reported, although the connect call and the event loop both write it.
HealthCurrent == handle /\ health.connected /\ event = "none" => loop = "active"

\* A session is closed on the server when it can be: only outages, silences, refusals and
\* cancelled calls leave one behind, so reconnecting does not use up the sessions of the server.
NoSessionsLeft == server.held <= faults + IF loop = "active" THEN 1 ELSE 0

\* One forwarder feeds the runtime, and only while its subscription is armed.
OneForwarder == forwarders = IF push.armed THEN 1 ELSE 0

\* A check that passes means that every subscribed point is watched or tried again, although
\* the library says nothing of items it could not re-create.  (Items the retry task added are
\* not counted by the check.)
PushNoticed ==
    push.armed /\ CheckOk /\ push.expected = Cardinality(push.points \ push.waiting) =>
        push.points \subseteq live \union push.waiting

\* The node ids in use were translated for the session that uses them.
TranslationCurrent ==
    handle /\ loop = "active" /\ event = "none" /\ server.held > 0 =>
        \A p \in Point : trans[p] \in {server.numbering, NotYet, Failed}
=============================================================================
