--------------------------------- MODULE Pi ---------------------------------
(***************************************************************************)
(* The AVEVA PI connector of one device (lib.rs, resolve.rs, client.rs):   *)
(* connecting and resolving its points, the bulk read whose requests are   *)
(* split when the server finds them too long, writes, and the credentials  *)
(* of a request. Push delivery is PiPush.                                  *)
(*                                                                         *)
(* A point's WebId is the point itself; its length in a URL is Size.       *)
(***************************************************************************)
EXTENDS Naturals, FiniteSets, Sequences, SequencesExt

CONSTANTS
    Points,       \* the configured points, in order
    Digital,      \* those whose values are states of a digital set
    Size,         \* the bytes of a point's WebId in a URL
    MaxWebIds,    \* max_web_ids_per_request
    MaxUrl,       \* max_url_bytes, without the fixed part
    ServerLimit,  \* the WebIds the server takes in one request
    MaxFaults     \* bound: failures of the server and changes to it

VARIABLES
    exists,      \* the points the server has
    credential,  \* the token the client holds, the one in its file, and the one the server takes
    state,       \* the device's connection
    due,         \* resolve_retry has passed
    pending,     \* the requests of the read in progress
    values,      \* what it has, by point: none yet, good, an error, or not in the answer
    failure,     \* it met a failure of the link
    too_long,    \* the shortest request of several WebIds the connection found too long
    outcome,     \* how the last operation ended
    written,     \* the writes that were sent: the point, the value and the form
    trouble      \* faults so far

vars == <<exists, credential, state, due, pending, values, failure, too_long, outcome, written, trouble>>
Point == ToSet(Points)

Closed == [open |-> FALSE, streams |-> {}, sets |-> {}, chunk |-> 0]
NoAnswers == [p \in Point |-> "none"]
Idle == outcome # "reading"
Fault == trouble < MaxFaults /\ trouble' = trouble + 1

-----------------------------------------------------------------------------
(* Requests.                                                               *)

\* A 401 is answered by one more try when the token file holds another token.
Authorized(c) == c.held = c.taken \/ c.file = c.taken
Refreshed(c) == IF c.held # c.taken THEN [c EXCEPT !.held = c.file] ELSE c

\* What says that the device cannot be reached, not that one request was refused.
IsLinkFailure(e) == e \in {"timeout", "transport", "unauthorized", "server error"}

\* WebIds split into requests by their number and by the bytes of the URL.
Chunks(ids, size) ==
    LET Take(acc, id) ==
            IF acc.now # <<>> /\ (Len(acc.now) >= size \/ acc.len + Size[id] > MaxUrl)
            THEN [out |-> Append(acc.out, acc.now), now |-> <<id>>, len |-> Size[id]]
            ELSE [out |-> acc.out, now |-> Append(acc.now, id), len |-> acc.len + Size[id]]
        end == FoldLeft(Take, [out |-> <<>>, now |-> <<>>, len |-> 0], ids)
    IN IF end.now = <<>> THEN end.out ELSE Append(end.out, end.now)

\* A request of several WebIds that is too long makes all later ones at most half as long.
Halve_Shared(size, tried) == size \div 2 + 1
Halve(size, tried) ==
    LET half == tried \div 2 IN IF size < half THEN size ELSE half

\* Both halves after the middle: the one in the middle is left out of an odd number.
Halves_Floor(c) ==
    LET half == Len(c) \div 2 IN <<SubSeq(c, 1, half), SubSeq(c, Len(c) - half + 1, Len(c))>>
Halves(c) ==
    LET half == (Len(c) + 1) \div 2 IN <<SubSeq(c, 1, half), SubSeq(c, half + 1, Len(c))>>

-----------------------------------------------------------------------------
(* Connecting and resolving.                                               *)

\* The root answers, every point is looked up, and the digital sets of those that are found.
Connect ==
    /\ Idle /\ Authorized(credential)
    /\ state' = [open |-> TRUE, streams |-> exists, sets |-> exists \cap Digital, chunk |-> MaxWebIds]
    /\ credential' = Refreshed(credential) /\ due' = FALSE /\ outcome' = "connected"
    /\ too_long' = Len(Points) + 1
    /\ UNCHANGED <<exists, pending, values, failure, written, trouble>>

\* A request for the root, a point or a digital set fails: the device has no connection.
ConnectFails ==
    /\ Idle /\ (Authorized(credential) => trouble < MaxFaults)
    /\ trouble' = IF Authorized(credential) THEN trouble + 1 ELSE trouble
    /\ state' = Closed /\ credential' = Refreshed(credential) /\ outcome' = "disconnected"
    /\ UNCHANGED <<exists, due, pending, values, failure, too_long, written>>

\* What was not found is looked up again from time to time; a digital set is not.
Retried(s) == IF due /\ Authorized(credential) THEN [s EXCEPT !.streams = @ \cup exists] ELSE s
RetryDue == ~due /\ state.open /\ ~(Point \subseteq state.streams) /\ due' = TRUE
            /\ UNCHANGED <<exists, credential, state, pending, values, failure, too_long, outcome, written, trouble>>

\* A check of the subscription asks for a new one when a point was found.
CheckSubscription ==
    /\ Idle /\ state.open
    /\ outcome' = IF Retried(state) # state THEN "subscribe again" ELSE "subscribed"
    /\ state' = Retried(state) /\ due' = FALSE
    /\ credential' = IF due THEN Refreshed(credential) ELSE credential
    /\ UNCHANGED <<exists, pending, values, failure, too_long, written, trouble>>

Disconnect ==
    /\ Idle /\ state.open
    /\ state' = Closed /\ outcome' = "disconnected"
    /\ UNCHANGED <<exists, credential, due, pending, values, failure, too_long, written, trouble>>

-----------------------------------------------------------------------------
(* The bulk read.                                                          *)

ReadBegins ==
    /\ Idle /\ state.open
    /\ LET s == Retried(state)
       IN /\ state' = s
          /\ pending' = ToSet(Chunks(SelectSeq(Points, LAMBDA p : p \in s.streams), s.chunk))
    /\ values' = NoAnswers /\ failure' = "none" /\ outcome' = "reading" /\ due' = FALSE
    /\ credential' = IF due THEN Refreshed(credential) ELSE credential
    /\ UNCHANGED <<exists, too_long, written, trouble>>

Errors(c, e) == [p \in Point |-> IF p \in ToSet(c) THEN e ELSE values[p]]

\* An answer gives each point its value or its error, or leaves it out.
Answered(c) ==
    /\ Len(c) <= ServerLimit /\ Authorized(credential)
    /\ \E bad \in SUBSET (ToSet(c) \ exists), out \in SUBSET {c[1]} :
        /\ (bad \cup out) = {} \/ trouble < MaxFaults
        /\ trouble' = IF bad \cup out = {} THEN trouble ELSE trouble + 1
        /\ values' = [p \in Point |-> CASE p \notin ToSet(c) -> values[p]
                                        [] p \in out -> "left out"
                                        [] p \in bad \ out -> "error"
                                        [] OTHER -> "good"]
    /\ pending' = pending \ {c}
    /\ UNCHANGED <<state, failure, too_long>>

\* A request that is too long is split, and one WebId alone is an error of its point.
TooLong(c) ==
    /\ Len(c) > ServerLimit
    /\ IF Len(c) > 1
       THEN /\ pending' = (pending \ {c}) \cup ToSet(Halves(c))
            /\ state' = [state EXCEPT !.chunk = Halve(@, Len(c))]
            /\ too_long' = IF Len(c) < too_long THEN Len(c) ELSE too_long
            /\ UNCHANGED values
       ELSE pending' = pending \ {c} /\ values' = Errors(c, "error") /\ UNCHANGED <<state, too_long>>
    /\ UNCHANGED <<failure, trouble>>

\* Another failure is the error of every point asked for, and may be one of the link.
Failed(c) ==
    /\ \/ ~Authorized(credential) /\ Len(c) <= ServerLimit
          /\ failure' = (IF failure = "none" THEN "unauthorized" ELSE failure) /\ UNCHANGED trouble
       \/ /\ Fault
          /\ \E e \in {"timeout", "server error", "refused"} :
                failure' = IF IsLinkFailure(e) /\ failure = "none" THEN e ELSE failure
    /\ values' = Errors(c, "error") /\ pending' = pending \ {c}
    /\ UNCHANGED <<state, too_long>>

ReadAnswer ==
    /\ outcome = "reading"
    /\ \E c \in pending : Answered(c) \/ TooLong(c) \/ Failed(c)
    /\ credential' = Refreshed(credential)
    /\ UNCHANGED <<exists, due, outcome, written>>

\* Every point gets a sample; a lost link is told with them when some have a value.
ReadEnds ==
    /\ outcome = "reading" /\ pending = {}
    /\ outcome' = CASE failure = "none" -> "read"
                    [] failure # "none" /\ (\E p \in Point : values[p] = "good") -> "link lost"
                    [] OTHER -> "failed"
    /\ UNCHANGED <<exists, credential, state, due, pending, values, failure, too_long, written, trouble>>

-----------------------------------------------------------------------------
(* Writes.                                                                 *)

\* A state of a digital set is sent as its name and code, and another value is refused; without
\* the set PI itself has to check the value.
Form(p, v) ==
    CASE p \in state.sets -> IF v = "state" THEN "name and code" ELSE "refused"
      [] p \in Digital -> "as given"
      [] OTHER -> IF v = "number" THEN "number" ELSE "refused"

Write(p) ==
    /\ Idle /\ written = {} /\ Authorized(credential)
    /\ \E v \in {"state", "number"} :
        LET sent == state.open /\ p \in state.streams /\ Form(p, v) # "refused"
        IN /\ outcome' = IF sent THEN "written" ELSE "not written"
           /\ written' = IF sent THEN {[point |-> p, value |-> v, form |-> Form(p, v)]} ELSE written
    /\ credential' = Refreshed(credential)
    /\ UNCHANGED <<exists, state, due, pending, values, failure, too_long, trouble>>

-----------------------------------------------------------------------------
(* The server and the administrator.                                       *)

PointAppears(p) ==
    /\ p \notin exists /\ Fault /\ exists' = exists \cup {p}
    /\ UNCHANGED <<credential, state, due, pending, values, failure, too_long, outcome, written>>

TokenChanges ==
    /\ Fault
    /\ \/ credential' = [credential EXCEPT !.taken = 1 - @]
       \/ credential' = [credential EXCEPT !.file = 1 - @]
    /\ UNCHANGED <<exists, state, due, pending, values, failure, too_long, outcome, written>>

Init ==
    /\ exists = Point \ {Points[1]} /\ credential = [held |-> 0, file |-> 0, taken |-> 0]
    /\ state = Closed /\ due = FALSE
    /\ pending = {} /\ values = NoAnswers /\ failure = "none" /\ too_long = Len(Points) + 1
    /\ outcome = "none" /\ written = {} /\ trouble = 0

Next ==
    \/ Connect \/ ConnectFails \/ RetryDue \/ CheckSubscription \/ Disconnect
    \/ ReadBegins \/ ReadAnswer \/ ReadEnds
    \/ \E p \in Point : Write(p) \/ PointAppears(p)
    \/ TokenChanges

-----------------------------------------------------------------------------
(* Properties.                                                             *)

\* However the requests of a read were split, a point the connection knows is in exactly one of
\* those that are left until it has its answer, and in none of them after it.
EachAsked ==
    outcome = "reading" =>
        \A p \in Point :
            LET asking == {c \in pending : p \in ToSet(c)}
            IN Cardinality(asking) = IF p \in state.streams /\ values[p] = "none" THEN 1 ELSE 0

\* What the server found too long once is not asked for again by a later read of the connection.
ChunkLearned ==
    state.open /\ Idle =>
        \A c \in ToSet(Chunks(SelectSeq(Points, LAMBDA p : p \in state.streams), state.chunk)) :
            Len(c) < too_long

PiSound == EachAsked /\ ChunkLearned
=============================================================================
