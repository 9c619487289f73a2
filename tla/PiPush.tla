------------------------------- MODULE PiPush -------------------------------
(***************************************************************************)
(* Push delivery of the AVEVA PI connector (push.rs, cursor.rs): the task  *)
(* of one device delivers its points from the Channels WebSocket or by     *)
(* polling the archive, and catches up from the delivery cursors after an  *)
(* outage, an overflow of its live buffer or a restart.                    *)
(*                                                                         *)
(* An event is a pair <<time, value>>; the archive keeps every event, and  *)
(* what it keeps at one time differs in the value.                         *)
(***************************************************************************)
EXTENDS Integers, FiniteSets, Sequences, SequencesExt

CONSTANTS
    Points,      \* the subscribed points in order, each with a channel of its own
    Values,      \* the values archived at one time
    MaxTime,     \* bound: the times at which the archive gets events
    MaxArchived, \* bound: the events of a point
    PageSize,    \* backfill.page_size
    MaxCount,    \* MAX_COUNT: the most events one request may ask for
    MaxEvents,   \* backfill.max_events
    MaxAge,      \* backfill.max_age
    LiveBuffer,  \* backfill.live_buffer
    MaxFaults    \* bound: crashes, failed requests and saves, refused and closed channels

VARIABLES
    now, archive,      \* the server: its time and the events of each point
    wire,              \* by point: the messages on its channel, or <<>> when it is not open
    readers,           \* the points whose channel has a reader
    buffer, overflow,  \* the live buffer, and whether a message did not fit
    pc,                \* where the device's task is
    todo,              \* the points its loop still has to visit
    work,              \* the events it is delivering, with their point
    paging,            \* the archive read in progress
    answers,           \* the answer to a poll, by point
    cursor, saved,     \* the delivery cursors, in memory and in the file
    got,               \* by point: what the runtime was handed since the cursors were loaded
    delivered,         \* by point: what it was ever handed
    announced,         \* by point: what the log says is not replayed, or precedes the start
    mishaps            \* faults so far

serverVars == <<now, archive>>
channelVars == <<wire, readers, buffer, overflow>>
taskVars == <<pc, todo, work, paging, answers>>
cursorVars == <<cursor, saved, got, delivered, announced>>
vars == <<serverVars, channelVars, taskVars, cursorVars, mishaps>>

-----------------------------------------------------------------------------
(* Events and cursors.                                                     *)

Point == ToSet(Points)
NoCursor == [ts |-> -1, values |-> {}]
Unset(c) == c.ts = -1
Closed == {}    \* the message a closed channel ends with
NoPage == [point |-> "none", from |-> 0, max |-> 0, count |-> 0, size |-> 0, limit |-> FALSE]

Ordered(evs) == SetToSortSeq(evs, LAMBDA a, b : a[1] < b[1] \/ (a[1] = b[1] /\ a[2] < b[2]))
Of(p, evs) == [i \in DOMAIN evs |-> <<p, evs[i]>>]

\* The answer to a recorded request: the first events from a time on.
Recorded(p, from, max) ==
    LET all == Ordered({e \in archive[p] : e[1] >= from})
    IN SubSeq(all, 1, IF Len(all) < max THEN Len(all) ELSE max)

Admits_Later(c, e) == Unset(c) \/ e[1] > c.ts
Admits(c, e) == Unset(c) \/ e[1] > c.ts \/ (e[1] = c.ts /\ e[2] \notin c.values)

Advance(c, e) ==
    CASE ~Unset(c) /\ c.ts = e[1] -> [c EXCEPT !.values = @ \cup {e[2]}]
      [] ~Unset(c) /\ c.ts > e[1] -> c
      [] OTHER -> [ts |-> e[1], values |-> {e[2]}]

\* What of a point is not yet delivered from a time on: the log says that it will not be.
Left(p, from) == {e \in archive[p] : e[1] >= from} \ delivered[p]

-----------------------------------------------------------------------------
(* The server, and the channel readers.                                    *)

\* One or several events are archived at the current time or a later one, and sent in one
\* message over the channel of the point.
Archive(p) ==
    /\ \E t \in {now, now + 1} \cap 1..MaxTime, vs \in SUBSET Values :
        LET new == {<<t, v>> : v \in vs} \ archive[p]
        IN /\ new # {} /\ Cardinality(archive[p] \cup new) <= MaxArchived
           /\ archive' = [archive EXCEPT ![p] = @ \cup new]
           /\ now' = t
           /\ wire' = IF p \in readers THEN [wire EXCEPT ![p] = Append(@, new)] ELSE wire
    /\ UNCHANGED <<readers, buffer, overflow, taskVars, cursorVars, mishaps>>

ChannelCloses(p) ==
    /\ p \in readers /\ mishaps < MaxFaults
    /\ Closed \notin ToSet(wire[p])
    /\ wire' = [wire EXCEPT ![p] = Append(@, Closed)]
    /\ mishaps' = mishaps + 1
    /\ UNCHANGED <<serverVars, readers, buffer, overflow, taskVars, cursorVars>>

\* A reader puts a message into the buffer; a message that does not fit ends the reader, and so
\* does the end of its channel, which waits for room.
Read(p) ==
    /\ p \in readers /\ wire[p] # <<>>
    /\ LET msg == Head(wire[p])
           room == Len(buffer) < LiveBuffer
       IN /\ msg = Closed => room
          /\ buffer' = IF room THEN Append(buffer, <<p, msg>>) ELSE buffer
          /\ overflow' = (overflow \/ ~room)
          /\ IF room /\ msg # Closed
             THEN wire' = [wire EXCEPT ![p] = Tail(@)] /\ UNCHANGED readers
             ELSE wire' = [wire EXCEPT ![p] = <<>>] /\ readers' = readers \ {p}
    /\ UNCHANGED <<serverVars, taskVars, cursorVars, mishaps>>

NoChannels == wire' = [p \in Point |-> <<>>] /\ readers' = {} /\ buffer' = <<>> /\ overflow' = FALSE

\* The channels are open from here on, and start with the current values when asked for them.
OpenChannels(initial) ==
    /\ readers' = Point /\ buffer' = <<>> /\ overflow' = FALSE
    /\ wire' = [p \in Point |-> IF initial /\ archive[p] # {}
                                THEN << {Last(Ordered(archive[p]))} >> ELSE <<>>]

-----------------------------------------------------------------------------
(* Delivering.                                                             *)

Idle == work = <<>> /\ paging = NoPage

\* The task ends; check_subscription tells the runtime.
Fail == pc' = "failed" /\ work' = <<>> /\ paging' = NoPage /\ todo' = <<>> /\ NoChannels

\* The cursors are written when they are due and the file can be written.
MaybeFlush(cs) == saved' \in {saved, cs}

\* One event is handed to the runtime unless the cursor has it; a catch-up ends after max_events.
Deliver ==
    /\ work # <<>>
    /\ LET p == Head(work)[1]
           e == Head(work)[2]
           old == cursor[p]
           takes == Admits(old, e)
           next == IF takes THEN [cursor EXCEPT ![p] = Advance(old, e)] ELSE cursor
           count == IF takes THEN paging.count + 1 ELSE paging.count
           stops == takes /\ paging.limit /\ count >= MaxEvents
       IN /\ cursor' = next
          /\ got' = IF takes THEN [got EXCEPT ![p] = Append(@, e)] ELSE got
          /\ delivered' = IF takes THEN [delivered EXCEPT ![p] = @ \cup {e}] ELSE delivered
          /\ announced' = [announced EXCEPT ![p] = @ \cup
                            (IF stops THEN Left(p, next[p].ts) \ {e} ELSE {}) \cup
                            (IF takes /\ Unset(old) THEN {a \in archive[p] : a[1] <= e[1]} ELSE {})]
          /\ IF takes THEN MaybeFlush(next) ELSE UNCHANGED saved
          /\ work' = IF stops THEN <<>> ELSE Tail(work)
          /\ paging' = IF stops THEN NoPage
                       ELSE IF paging = NoPage THEN NoPage ELSE [paging EXCEPT !.count = count]
    /\ UNCHANGED <<serverVars, channelVars, pc, todo, answers, mishaps>>

\* The periodic flush of the live loop and after a poll.
Tick ==
    /\ pc \in {"live", "poll"} /\ Idle
    /\ MaybeFlush(cursor)
    /\ UNCHANGED <<serverVars, channelVars, taskVars, cursor, got, delivered, announced, mishaps>>

-----------------------------------------------------------------------------
(* Reading the archive in pages.                                           *)

StartPaging(p, from, limit) ==
    paging' = [point |-> p, from |-> from, max |-> PageSize, count |-> 0, size |-> -1, limit |-> limit]

PageAnswered ==
    /\ paging # NoPage /\ paging.size = -1
    /\ LET page == Recorded(paging.point, paging.from, paging.max)
       IN /\ work' = Of(paging.point, page)
          /\ paging' = [paging EXCEPT !.size = Len(page)]
    /\ UNCHANGED <<serverVars, channelVars, pc, todo, answers, cursorVars, mishaps>>

\* The archive of the point cannot be read: its warning names the point and the task goes on.
PageRefused ==
    /\ paging # NoPage /\ paging.size = -1 /\ mishaps < MaxFaults
    /\ announced' = [announced EXCEPT ![paging.point] = @ \cup Left(paging.point, paging.from)]
    /\ paging' = NoPage /\ mishaps' = mishaps + 1
    /\ UNCHANGED <<serverVars, channelVars, pc, todo, work, answers, cursor, saved, got, delivered>>

\* A page of one time is asked for again as it is.
PageEnds_NextPage ==
    /\ paging # NoPage /\ paging.size >= 0 /\ work = <<>>
    /\ LET page == Recorded(paging.point, paging.from, paging.size)
       IN paging' = IF paging.size < paging.max THEN NoPage
                    ELSE [paging EXCEPT !.size = -1, !.from = page[Len(page)][1] + 1]
    /\ UNCHANGED <<serverVars, channelVars, pc, todo, work, answers, cursorVars, mishaps>>

\* A full page is followed by one from its last time on, or by a larger one when it has one time.
PageEnds ==
    /\ paging # NoPage /\ paging.size >= 0 /\ work = <<>>
    /\ LET p == paging.point
           page == Recorded(p, paging.from, paging.size)
           one_time == page[1][1] = page[Len(page)][1]
       IN CASE paging.size < paging.max -> paging' = NoPage /\ UNCHANGED announced
            [] paging.size >= paging.max /\ one_time /\ paging.max >= MaxCount ->
                  /\ paging' = NoPage
                  /\ announced' = [announced EXCEPT ![p] = @ \cup Left(p, paging.from)]
            [] paging.size >= paging.max /\ one_time /\ paging.max < MaxCount ->
                  /\ paging' = [paging EXCEPT !.size = -1,
                                    !.max = IF 2 * @ < MaxCount THEN 2 * @ ELSE MaxCount]
                  /\ UNCHANGED announced
            [] OTHER ->
                  /\ paging' = [paging EXCEPT !.size = -1, !.max = PageSize,
                                    !.from = page[Len(page)][1]]
                  /\ UNCHANGED announced
    /\ UNCHANGED <<serverVars, channelVars, pc, todo, work, answers, cursor, saved, got, delivered, mishaps>>

\* Any request of the task fails: it ends.
RequestFails ==
    /\ \/ paging # NoPage /\ paging.size = -1
       \/ pc \in {"fresh", "poll"} /\ Idle
       \/ pc = "detour" /\ Idle /\ todo = <<>>
    /\ mishaps < MaxFaults /\ mishaps' = mishaps + 1
    /\ Fail
    /\ UNCHANGED <<serverVars, answers, cursorVars>>

-----------------------------------------------------------------------------
(* The task.                                                               *)

\* The next point to catch up: from its cursor, or from max_age ago, which is announced.
CatchUp ==
    /\ pc \in {"catch_up", "detour", "recorded"} /\ Idle /\ todo # <<>>
    /\ LET p == Head(todo)
           floor == now - MaxAge
           c == cursor[p]
       IN IF Unset(c) THEN UNCHANGED <<paging, announced>>
          ELSE /\ StartPaging(p, IF c.ts < floor THEN floor ELSE c.ts, TRUE)
               /\ announced' = [announced EXCEPT ![p] = @ \cup
                                    {e \in Left(p, c.ts) : c.ts < floor /\ e[1] < floor}]
    /\ todo' = Tail(todo)
    /\ UNCHANGED <<serverVars, channelVars, pc, work, answers, cursor, saved, got, delivered, mishaps>>

CaughtUp_NotAgain ==
    /\ pc \in {"catch_up", "detour", "recorded"} /\ Idle /\ todo = <<>>
    /\ CASE pc = "catch_up" -> pc' = "live" /\ UNCHANGED <<todo, channelVars>>
         [] pc = "detour" -> pc' = "live" /\ UNCHANGED todo /\ OpenChannels(FALSE)
         [] OTHER -> pc' = "fresh" /\ UNCHANGED <<todo, channelVars>>
    /\ UNCHANGED <<serverVars, work, paging, answers, cursorVars, mishaps>>

\* Caught up: the live loop, the channels opened again after the detour, or the recorded loop.
CaughtUp ==
    /\ pc \in {"catch_up", "detour", "recorded"} /\ Idle /\ todo = <<>>
    /\ CASE pc = "catch_up" -> pc' = "live" /\ UNCHANGED <<todo, channelVars>>
         [] pc = "detour" -> pc' = "catch_up" /\ todo' = Points /\ OpenChannels(FALSE)
         [] OTHER -> pc' = "fresh" /\ UNCHANGED <<todo, channelVars>>
    /\ UNCHANGED <<serverVars, work, paging, answers, cursorVars, mishaps>>

\* The live loop takes a message; the end of a channel ends the task.
Live ==
    /\ pc = "live" /\ Idle /\ ~overflow /\ buffer # <<>>
    /\ LET p == Head(buffer)[1]
           msg == Head(buffer)[2]
       IN IF msg = Closed THEN Fail
          ELSE /\ work' = Of(p, Ordered(msg)) /\ buffer' = Tail(buffer)
               /\ UNCHANGED <<pc, todo, paging, wire, readers, overflow>>
    /\ UNCHANGED <<serverVars, answers, cursorVars, mishaps>>

Overflow_GoesOn ==
    /\ pc = "live" /\ Idle /\ overflow
    /\ work' = FlattenSeq([i \in DOMAIN buffer |-> Of(buffer[i][1], Ordered(buffer[i][2]))])
    /\ OpenChannels(FALSE)
    /\ UNCHANGED <<serverVars, pc, todo, paging, answers, cursorVars, mishaps>>

\* The buffer was full: the readers stop, what it holds is delivered, and the rest is read from
\* the archive before the channels are opened again.
Overflow ==
    /\ pc = "live" /\ Idle /\ overflow
    /\ work' = FlattenSeq([i \in DOMAIN buffer |-> Of(buffer[i][1], Ordered(buffer[i][2]))])
    /\ pc' = "detour" /\ todo' = Points
    /\ NoChannels
    /\ UNCHANGED <<serverVars, paging, answers, cursorVars, mishaps>>

\* A point without a cursor starts at its current value.
Fresh ==
    /\ pc = "fresh" /\ Idle
    /\ LET start == SelectSeq(Points, LAMBDA p : Unset(cursor[p]) /\ archive[p] # {})
       IN work' = [i \in DOMAIN start |-> <<start[i], Last(Ordered(archive[start[i]]))>>]
    /\ pc' = "poll"
    /\ UNCHANGED <<serverVars, channelVars, todo, paging, answers, cursorVars, mishaps>>

\* A poll asks for all points from the oldest cursor on.
Poll ==
    /\ pc = "poll" /\ Idle
    /\ LET known == {cursor[p].ts : p \in {q \in Point : ~Unset(cursor[q])}}
           start == IF known = {} THEN now - 1 ELSE CHOOSE t \in known : \A u \in known : t <= u
       IN answers' = [p \in Point |-> Recorded(p, start, PageSize)]
    /\ pc' = "polled" /\ todo' = Points
    /\ UNCHANGED <<serverVars, channelVars, work, paging, cursorVars, mishaps>>

\* The request of a poll was too long: smaller ones are made from the next poll on.
PollTooLong ==
    /\ pc = "poll" /\ Idle /\ mishaps < MaxFaults
    /\ mishaps' = mishaps + 1
    /\ UNCHANGED <<serverVars, channelVars, taskVars, cursorVars>>

\* The events of one point are delivered, and a full answer is paged on from its cursor.
PollItem ==
    /\ pc = "polled" /\ Idle /\ todo # <<>>
    /\ work' = Of(Head(todo), answers[Head(todo)])
    /\ pc' = "item"
    /\ UNCHANGED <<serverVars, channelVars, todo, paging, answers, cursorVars, mishaps>>

PollItemEnds ==
    /\ pc = "item" /\ work = <<>> /\ paging = NoPage
    /\ LET p == Head(todo)
       IN IF Len(answers[p]) >= PageSize /\ ~Unset(cursor[p])
          THEN StartPaging(p, cursor[p].ts, FALSE)
          ELSE UNCHANGED paging
    /\ todo' = Tail(todo) /\ pc' = IF Len(todo) = 1 THEN "last" ELSE "polled"
    /\ UNCHANGED <<serverVars, channelVars, work, answers, cursorVars, mishaps>>

PollEnds ==
    /\ pc = "last" /\ Idle
    /\ pc' = "poll" /\ answers' = [p \in Point |-> <<>>]
    /\ UNCHANGED <<serverVars, channelVars, todo, work, paging, cursorVars, mishaps>>

-----------------------------------------------------------------------------
(* The connector.                                                          *)

\* The cursors are read from the file. Where they are not what was delivered last, events of
\* the past may come a second time.
Load(file) ==
    /\ cursor' = file
    /\ got' = [p \in Point |-> IF file[p] = cursor[p] THEN got[p] ELSE <<>>]
    /\ UNCHANGED <<delivered, announced>>

Begin(recorded) ==
    /\ todo' = Points /\ work' = <<>> /\ paging' = NoPage
    /\ answers' = [p \in Point |-> <<>>]
    /\ IF recorded THEN pc' = "recorded" /\ NoChannels
       ELSE pc' = "catch_up" /\ \E initial \in BOOLEAN : OpenChannels(initial)

\* Subscribing stops the task there is, wherever it is, which writes its cursors, and starts
\* another one. A refused channel falls back to recorded polling.
Subscribe ==
    /\ saved' = IF pc = "off" THEN saved ELSE cursor
    /\ Load(saved')
    /\ \/ Begin(FALSE) /\ UNCHANGED mishaps
       \/ mishaps < MaxFaults /\ mishaps' = mishaps + 1 /\ Begin(TRUE)
    /\ UNCHANGED serverVars

\* The same while the cursors cannot be written, or when the task delivers once more after they were,
\* before it notices that it is stopped.
SubscribeUnsaved ==
    /\ pc # "off" /\ mishaps < MaxFaults /\ mishaps' = mishaps + 1
    /\ UNCHANGED saved
    /\ Load(saved)
    /\ Begin(FALSE)
    /\ UNCHANGED serverVars

\* The process ends at any moment; what the file has is left.
Crash ==
    /\ pc # "off" /\ mishaps < MaxFaults /\ mishaps' = mishaps + 1
    /\ pc' = "off" /\ todo' = <<>> /\ work' = <<>> /\ paging' = NoPage
    /\ answers' = [p \in Point |-> <<>>]
    /\ NoChannels
    /\ UNCHANGED <<serverVars, cursorVars>>

Init ==
    /\ now = 1 /\ archive = [p \in Point |-> {}]
    /\ wire = [p \in Point |-> <<>>] /\ readers = {} /\ buffer = <<>> /\ overflow = FALSE
    /\ pc = "off" /\ todo = <<>> /\ work = <<>> /\ paging = NoPage
    /\ answers = [p \in Point |-> <<>>]
    /\ cursor = [p \in Point |-> NoCursor] /\ saved = cursor
    /\ got = [p \in Point |-> <<>>] /\ delivered = archive /\ announced = archive
    /\ mishaps = 0

Next ==
    \/ \E p \in Point : Archive(p) \/ ChannelCloses(p) \/ Read(p)
    \/ Deliver \/ Tick \/ PageAnswered \/ PageRefused \/ PageEnds \/ RequestFails
    \/ CatchUp \/ CaughtUp \/ Live \/ Overflow
    \/ Fresh \/ Poll \/ PollTooLong \/ PollItem \/ PollItemEnds \/ PollEnds
    \/ Subscribe \/ SubscribeUnsaved \/ Crash

Spec == Init /\ [][Next]_vars

-----------------------------------------------------------------------------
(* Properties.                                                             *)

\* A cursor, in memory or in the file, never passes an event of the archive that was neither
\* handed to the runtime nor announced as skipped.
CursorHonest ==
    \A p \in Point : \A c \in {cursor[p], saved[p]} :
        ~Unset(c) =>
            /\ \A e \in archive[p] : e[1] < c.ts => e \in delivered[p] \cup announced[p]
            /\ \A v \in c.values : <<c.ts, v>> \in delivered[p]

\* While the task delivers live events, every event of a point that has a cursor was delivered,
\* was announced as skipped, or is on its way through the channel.
NoGap ==
    pc = "live" /\ Idle /\ ~overflow =>
        \A p \in Point : ~Unset(cursor[p]) =>
            LET coming == UNION (ToSet(wire[p]) \cup {buffer[i][2] : i \in {j \in DOMAIN buffer : buffer[j][1] = p}})
            IN archive[p] \subseteq delivered[p] \cup announced[p] \cup coming
               \/ <<p, Closed>> \in ToSet(buffer)

\* The runtime gets a point's events in order of time, and none twice while the cursors last.
OnceInOrder ==
    \A p \in Point :
        /\ Cardinality(ToSet(got[p])) = Len(got[p])
        /\ \A i \in 1 .. Len(got[p]) - 1 : got[p][i][1] <= got[p][i + 1][1]

PushSound == CursorHonest /\ NoGap /\ OnceInOrder
=============================================================================
