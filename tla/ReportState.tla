---------------------------- MODULE ReportState ----------------------------
(***************************************************************************)
(* The reporting policy of one point (report by exception), the state      *)
(* machine of sdk/src/report.rs: which of a point's readings are           *)
(* published, which are held back and which are dropped.                   *)
(*                                                                         *)
(* A reading is a serial number: the n-th reading offered to the point.    *)
(* What it is compared by is an observation, its quality is one of         *)
(* Qualities.  Time is counted in loop passes.  The operators up to Due    *)
(* are the methods of ReportState<T>; a method that may publish returns    *)
(* the new state and the readings to publish, in order.                    *)
(***************************************************************************)
EXTENDS Integers, Sequences

CONSTANTS
    Policies,     \* the effective policies a point may be configured with
    Observations, \* the observations a reading may carry
    Qualities,    \* the qualities a reading may carry
    Pushed,       \* whether a subscription delivers the point
    Replays,      \* whether the module replays history for the point
    Resets,       \* whether the point is reset (reconnect, write, restore)
    Epoch,        \* source times are this far from the runtime clock's origin
    ReplayIdle,   \* REPLAY_IDLE
    MaxItems,     \* bound: readings offered
    LastOffer,    \* bound: no reading is offered after this time
    MaxNow,       \* bound: the clock stops here
    MaxSource     \* bound: source times run from Epoch to Epoch + MaxSource

\* from_table: a deadband of 0 is a setting that is switched off ...
Deadbands == [kind : {"off"}, amount : {0}]
             \union [kind : {"absolute", "percent"}, amount : Nat \ {0}]

\* ... and so is a duration of 0.
Policy == [on_change : BOOLEAN, deadband : Deadbands, min_interval : Nat,
           max_interval : Nat, debounce : Nat]

\* Numbers compare numerically; booleans, text and raw bytes exactly.
Obs == [kind : {"number", "nan", "other"}, value : Int]

ASSUME PoliciesAssumption == Policies \subseteq Policy
ASSUME ObservationsAssumption == Observations \subseteq Obs
ASSUME QualitiesAssumption == "none" \notin Qualities
ASSUME FlagsAssumption ==
    /\ Pushed \in BOOLEAN
    /\ Replays \in BOOLEAN
    /\ Resets \in BOOLEAN
ASSUME BoundsAssumption ==
    /\ Epoch \in Nat
    /\ ReplayIdle \in Nat
    /\ MaxItems \in Nat
    /\ LastOffer \in Nat
    /\ MaxNow \in Nat
    /\ MaxSource \in Nat

VARIABLES
    policy,     \* the point's policy, fixed by the configuration
    rs,         \* the fields of ReportState<T>
    now,        \* the runtime's monotonic clock
    out,        \* the readings the last call returned to be published
    read,       \* whether the last due() asked for a heartbeat read
    newest,     \* history: the newest reading offered
    steady,     \* history: the readings all later ones agree with, and when
    published,  \* history: the newest reading published, and when
    heardAt     \* history: the last publish, heartbeat read or reset

history == <<newest, steady, published, heardAt>>
vars == <<policy, rs, now, out, read, newest, steady, published, heardAt>>

-----------------------------------------------------------------------------
(* The policy.                                                             *)

NoTime == -1

Abs(n) == IF n < 0 THEN -n ELSE n

\* saturating_sub of two durations.
Since(t, u) == IF t > u THEN t - u ELSE 0

\* A heartbeat at or under the rate limit, which only inheritance can give,
\* is raised to twice the rate limit.
Effective(p) ==
    IF p.min_interval > 0 /\ p.max_interval > 0
          /\ p.max_interval <= p.min_interval
    THEN [p EXCEPT !.max_interval = 2 * p.min_interval]
    ELSE p

FiltersChanges(p) ==
    p.on_change \/ p.deadband.kind # "off" \/ p.debounce > 0

\* Whether a number `a' is a change from the number `b'.
NumberChanged(p, a, b) ==
    LET delta == Abs(a - b) IN
    CASE p.deadband.kind = "absolute" -> delta >= p.deadband.amount
      [] p.deadband.kind = "percent" /\ b = 0 -> delta > 0
      [] p.deadband.kind = "percent" /\ b # 0 ->
             100 * delta >= p.deadband.amount * Abs(b)
      [] OTHER -> delta > 0

Changed(p, obs, base) ==
    IF obs.kind = "number" /\ base.kind = "number"
    THEN NumberChanged(p, obs.value, base.value)
    ELSE IF obs.kind = "other" /\ base.kind = "other"
         THEN obs.value # base.value
         ELSE obs.kind # base.kind

-----------------------------------------------------------------------------
(* The state of a point.  An absent time is NoTime; an absent reading has  *)
(* serial number 0, an absent last reading has quality "none".             *)

NoObs == [kind |-> "other", value |-> 0]
NoLast == [obs |-> NoObs, quality |-> "none"]
NoPending == [item |-> 0, obs |-> NoObs]
NoCandidate == [first |-> NoObs, since |-> 0, latest |-> 0, latest_obs |-> NoObs]

Times == Nat \union {NoTime}

State ==
    [origin : Nat,
     last : [obs : Obs, quality : Qualities \union {"none"}],
     last_published : Times,
     last_read : Times,
     unreadable : BOOLEAN,
     pending : [item : Nat, obs : Obs],
     candidate : [first : Obs, since : Nat, latest : Nat, latest_obs : Obs],
     clock : {"runtime", "replay"},
     last_offer : Nat,
     last_published_src : Times]

\* ReportState::new at time t; reset() is the same with the policy kept.
New(t) ==
    [origin |-> t, last |-> NoLast, last_published |-> NoTime,
     last_read |-> NoTime, unreadable |-> FALSE, pending |-> NoPending,
     candidate |-> NoCandidate, clock |-> "runtime", last_offer |-> 0,
     last_published_src |-> NoTime]

HasPending(s) == s.pending.item > 0
HasCandidate(s) == s.candidate.latest > 0
HasLast(s) == s.last.quality # "none"

OrOrigin(s, t) == IF t = NoTime THEN s.origin ELSE t

SincePublished(s, t) == Since(t, OrOrigin(s, s.last_published))

\* Mutant: the interval ends one pass early.
TooSoon_OffByOne(p, s, t) ==
    p.min_interval > 0 /\ SincePublished(s, t) + 1 < p.min_interval

\* The rate limit has not run out yet at time t.
TooSoon(p, s, t) == p.min_interval > 0 /\ SincePublished(s, t) < p.min_interval

Quiet(s) == [s |-> s, out |-> << >>]

\* Mutant: what is held survives a newer publish.
Publish_KeepsHeld(s, item, obs, quality, t) ==
    [s |-> [s EXCEPT !.last = [obs |-> obs, quality |-> quality],
                     !.last_published = t,
                     !.candidate = NoCandidate],
     out |-> <<item>>]

Publish(s, item, obs, quality, t) ==
    [s |-> [s EXCEPT !.last = [obs |-> obs, quality |-> quality],
                     !.last_published = t,
                     !.pending = NoPending,
                     !.candidate = NoCandidate],
     out |-> <<item>>]

PublishIfChanged(p, s, item, obs, t) ==
    IF HasLast(s) /\ (FiltersChanges(p) => Changed(p, obs, s.last.obs))
    THEN Publish(s, item, obs, s.last.quality, t)
    ELSE Quiet(s)

-----------------------------------------------------------------------------
(* offer_at.                                                               *)

\* Mutant: a change within the interval is dropped.
OfferSettled_Drops(p, s, item, obs, quality, t) ==
    LET none == [s EXCEPT !.pending = NoPending] IN
    IF TooSoon(p, s, t) \/ (FiltersChanges(p) /\ ~Changed(p, obs, s.last.obs))
    THEN Quiet(none)
    ELSE Publish(none, item, obs, quality, t)

\* The reading passed the debounce: hold it back under the rate limit, drop
\* it when it is no change, publish it otherwise.
OfferSettled(p, s, item, obs, quality, t) ==
    LET none == [s EXCEPT !.pending = NoPending] IN
    IF TooSoon(p, s, t)
    THEN Quiet([s EXCEPT !.pending = [item |-> item, obs |-> obs]])
    ELSE IF FiltersChanges(p) /\ ~Changed(p, obs, s.last.obs)
         THEN Quiet(none)
         ELSE Publish(none, item, obs, quality, t)

\* Mutant: a reading that differs from the candidate does not restart its time.
OfferDebounced_KeepsSince(p, s, item, obs, quality, t) ==
    LET since == IF HasCandidate(s) THEN s.candidate.since ELSE t
        started == [s EXCEPT !.candidate = [first |-> obs, since |-> since,
                                            latest |-> item,
                                            latest_obs |-> obs]]
        settled == [s EXCEPT !.candidate = NoCandidate]
    IN  IF ~Changed(p, obs, s.last.obs)
        THEN Quiet([s EXCEPT !.candidate = NoCandidate, !.pending = NoPending])
        ELSE IF Since(t, since) < p.debounce THEN Quiet(started)
        ELSE OfferSettled(p, settled, item, obs, quality, t)

\* A changed reading joins the candidate it agrees with, or starts a new one.
OfferDebounced(p, s, item, obs, quality, t) ==
    LET same == HasCandidate(s) /\ ~Changed(p, obs, s.candidate.first)
        joined == [s EXCEPT !.candidate.latest = item,
                            !.candidate.latest_obs = obs]
        started == [s EXCEPT !.candidate = [first |-> obs, since |-> t,
                                            latest |-> item,
                                            latest_obs |-> obs]]
        settled == [s EXCEPT !.candidate = NoCandidate]
    IN  IF ~Changed(p, obs, s.last.obs)
        THEN Quiet([s EXCEPT !.candidate = NoCandidate, !.pending = NoPending])
        ELSE IF ~same THEN Quiet(started)
        ELSE IF Since(t, s.candidate.since) < p.debounce THEN Quiet(joined)
        ELSE OfferSettled(p, settled, item, obs, quality, t)

OfferAt(p, s, item, obs, quality, t) ==
    LET heartbeat == p.max_interval > 0 /\ SincePublished(s, t) >= p.max_interval
    IN  IF ~HasLast(s) \/ s.last.quality # quality \/ heartbeat
        THEN Publish(s, item, obs, quality, t)
        ELSE IF p.debounce > 0 THEN OfferDebounced(p, s, item, obs, quality, t)
        ELSE OfferSettled(p, s, item, obs, quality, t)

-----------------------------------------------------------------------------
(* release, hand_over and the public calls.                                *)

\* Mutant: a settled reading waits for the next offer.
ReleaseCandidate_Never(p, s, t) == Quiet(s)

ReleaseCandidate(p, s, t) ==
    LET taken == [s EXCEPT !.candidate = NoCandidate]
        c == s.candidate
    IN  IF ~(p.debounce > 0 /\ HasCandidate(s) /\ Since(t, c.since) >= p.debounce)
        THEN Quiet(s)
        ELSE IF TooSoon(p, s, t)
        THEN Quiet([taken EXCEPT !.pending = [item |-> c.latest,
                                              obs |-> c.latest_obs]])
        ELSE PublishIfChanged(p, taken, c.latest, c.latest_obs, t)

\* Mutant: the held reading is taken whether or not its interval ended.
Release_TakesEarly(p, s, t) ==
    LET taken == [s EXCEPT !.pending = NoPending]
        held == IF p.min_interval > 0 /\ HasPending(s)
                THEN IF TooSoon(p, s, t) THEN Quiet(taken)
                     ELSE PublishIfChanged(p, taken, s.pending.item,
                                           s.pending.obs, t)
                ELSE Quiet(s)
    IN  IF held.out # << >> THEN held ELSE ReleaseCandidate(p, held.s, t)

\* A held reading whose interval ended, or else a settled one, by time t.
Release(p, s, t) ==
    LET taken == [s EXCEPT !.pending = NoPending]
        held == IF p.min_interval > 0 /\ HasPending(s) /\ ~TooSoon(p, s, t)
                THEN PublishIfChanged(p, taken, s.pending.item, s.pending.obs, t)
                ELSE Quiet(s)
    IN  IF held.out # << >> THEN held ELSE ReleaseCandidate(p, held.s, t)

\* The replay ends: what is held or settling restarts on the runtime clock.
HandOver(s, t) ==
    [s EXCEPT !.clock = "runtime",
              !.last_published_src = IF s.last_published = NoTime THEN @
                                     ELSE s.last_published,
              !.last_published = IF @ = NoTime THEN NoTime ELSE t,
              !.candidate.since = IF HasCandidate(s) THEN t ELSE @]

\* A live reading.
Offer(p, s, item, obs, quality, t) ==
    OfferAt(p, IF s.clock = "replay" THEN HandOver(s, t) ELSE s,
            item, obs, quality, t)

\* Mutant: every replay starts afresh.
OnSourceTime_Forgets(s, src, t) ==
    LET resumed == [s EXCEPT !.last_published = NoTime,
                             !.candidate.since = IF HasCandidate(s) THEN src ELSE @]
    IN  [(IF s.clock = "runtime" THEN resumed ELSE s)
            EXCEPT !.clock = "replay", !.last_offer = t]

\* The state in which a replayed reading with source time src is handled.
OnSourceTime(s, src, t) ==
    LET resumed == [s EXCEPT !.last_published = s.last_published_src,
                             !.candidate.since = IF HasCandidate(s) THEN src ELSE @]
    IN  [(IF s.clock = "runtime" THEN resumed ELSE s)
            EXCEPT !.clock = "replay", !.last_offer = t]

\* A reading replayed from the source's history.
OfferReplayed(p, s, item, obs, quality, src, t) ==
    LET held == Release(p, OnSourceTime(s, src, t), src)
        new == OfferAt(p, held.s, item, obs, quality, src)
    IN  [s |-> [new.s EXCEPT !.last_published_src =
                    IF new.s.last_published = NoTime THEN @
                    ELSE new.s.last_published],
         out |-> held.out \o new.out]

\* Mutant: a heartbeat read already asked for does not count.
Due_ForgetsRead(p, s, pushed, t) ==
    LET replaying == s.clock = "replay" /\ Since(t, s.last_offer) < ReplayIdle
        live == IF s.clock = "replay" THEN HandOver(s, t) ELSE s
        released == Release(p, live, t)
        r == released.s
        heartbeat == /\ p.max_interval > 0
                     /\ pushed
                     /\ ~r.unreadable
                     /\ SincePublished(r, t) >= p.max_interval
    IN  IF replaying
        THEN [s |-> s, out |-> << >>, read |-> FALSE]
        ELSE [s |-> IF heartbeat THEN [r EXCEPT !.last_read = t] ELSE r,
              out |-> released.out, read |-> heartbeat]

\* A pass of the runtime loop over the point.
Due(p, s, pushed, t) ==
    LET replaying == s.clock = "replay" /\ Since(t, s.last_offer) < ReplayIdle
        live == IF s.clock = "replay" THEN HandOver(s, t) ELSE s
        released == Release(p, live, t)
        r == released.s
        shown == OrOrigin(r, r.last_published)
        asked == OrOrigin(r, r.last_read)
        reference == IF shown > asked THEN shown ELSE asked
        heartbeat == /\ p.max_interval > 0
                     /\ pushed
                     /\ ~r.unreadable
                     /\ Since(t, reference) >= p.max_interval
    IN  IF replaying
        THEN [s |-> s, out |-> << >>, read |-> FALSE]
        ELSE [s |-> IF heartbeat THEN [r EXCEPT !.last_read = t] ELSE r,
              out |-> released.out, read |-> heartbeat]

-----------------------------------------------------------------------------
(* The point in the runtime.  Reporter::offer, due, no_data and reset.     *)

NoReading == [item |-> 0, obs |-> NoObs, quality |-> "none"]

Init ==
    /\ policy \in {Effective(p) : p \in Policies}
    /\ now = 0
    /\ rs = New(0)
    /\ out = << >>
    /\ read = FALSE
    /\ newest = NoReading
    /\ steady = {}
    /\ published = [item |-> 0, at |-> NoTime, src |-> NoTime]
    /\ heardAt = 0

\* The bookkeeping of a call that returned `result'; src is the source time of
\* a replayed reading, NoTime otherwise.
Apply(result, src) ==
    /\ rs' = result.s
    /\ out' = result.out
    /\ published' = IF result.out = << >> THEN published
                    ELSE [item |-> result.out[Len(result.out)], at |-> now,
                          src |-> IF src = NoTime THEN published.src ELSE src]

\* A reading stays in steady while every later one agrees with it and is a change
\* from what was last published.
Observe(item, obs, quality) ==
    /\ newest' = [item |-> item, obs |-> obs, quality |-> quality]
    /\ steady' = {r \in steady \union {[first |-> obs, since |-> now]} :
                     /\ Changed(policy, obs, rs.last.obs)
                     /\ ~Changed(policy, obs, r.first)}

CanOffer == newest.item < MaxItems /\ now <= LastOffer

\* A poll result, a heartbeat read or a pushed sample.
OfferReading(obs, quality) ==
    LET item == newest.item + 1
        result == Offer(policy, rs, item, obs, quality, now)
    IN  /\ CanOffer
        /\ Observe(item, obs, quality)
        /\ Apply(result, NoTime)
        /\ heardAt' = IF result.out = << >> THEN heardAt ELSE now
        /\ read' = FALSE
        /\ UNCHANGED <<policy, now>>

OfferReplayedReading(obs, quality, src) ==
    LET item == newest.item + 1
        result == OfferReplayed(policy, rs, item, obs, quality, src, now)
    IN  /\ Replays
        /\ CanOffer
        /\ Observe(item, obs, quality)
        /\ Apply(result, src)
        /\ heardAt' = IF result.out = << >> THEN heardAt ELSE now
        /\ read' = FALSE
        /\ UNCHANGED <<policy, now>>

DuePass ==
    LET result == Due(policy, rs, Pushed, now) IN
    /\ Apply(result, NoTime)
    /\ read' = result.read
    /\ heardAt' = IF result.out # << >> \/ result.read THEN now ELSE heardAt
    /\ UNCHANGED <<policy, now, newest, steady>>

\* A heartbeat read returned nothing for the point.
NoData ==
    /\ read
    /\ rs' = [rs EXCEPT !.unreadable = TRUE]
    /\ read' = FALSE
    /\ out' = << >>
    /\ UNCHANGED <<policy, now, history>>

\* The device reconnected or was written to, or the broker session was restored.
Reset ==
    /\ Resets
    /\ rs' = New(now)
    /\ out' = << >>
    /\ read' = FALSE
    /\ heardAt' = now
    /\ published' = [published EXCEPT !.src = NoTime]
    /\ UNCHANGED <<policy, now, newest, steady>>

Tick ==
    /\ now < MaxNow
    /\ now' = now + 1
    /\ out' = << >>
    /\ read' = FALSE
    /\ UNCHANGED <<policy, rs, history>>

Step ==
    \/ \E obs \in Observations, quality \in Qualities : OfferReading(obs, quality)
    \/ \E obs \in Observations, quality \in Qualities,
          src \in Epoch .. Epoch + MaxSource : OfferReplayedReading(obs, quality, src)
    \/ DuePass
    \/ NoData
    \/ Reset

Next == Step \/ Tick

Spec == Init /\ [][Next]_vars

\* The runtime loop passes over every point again and again.  To see that what
\* is held is published before the bounded clock runs out, time does not move on
\* while a pass has something to do.
TimelyTick == Due(policy, rs, Pushed, now).s = rs /\ Tick

FairSpec ==
    /\ Init /\ [][Step \/ TimelyTick]_vars
    /\ WF_vars(DuePass)
    /\ WF_vars(TimelyTick)

-----------------------------------------------------------------------------
(* Properties.                                                             *)

\* The fields of the state, the clock and the history have their types.
TypeOK ==
    /\ policy \in Policy
    /\ rs \in State
    /\ now \in Nat
    /\ out \in Seq(Nat)
    /\ read \in BOOLEAN
    /\ newest \in [item : Nat, obs : Obs, quality : Qualities \union {"none"}]
    /\ steady \subseteq [first : Obs, since : Nat]
    /\ published \in [item : Nat, at : Times, src : Times]
    /\ heardAt \in Nat

\* "Never dropped": the newest reading offered, when it is news against the
\* last published one, is held under the rate limit or settling under the
\* debounce, so a later pass can still publish it.
NewsKept ==
    newest.item > 0 =>
        /\ HasLast(rs)
        /\ rs.last.quality = newest.quality
        /\ Changed(policy, newest.obs, rs.last.obs) =>
               newest.item \in {rs.pending.item, rs.candidate.latest}

\* "A change arriving sooner is held and published when the interval ends,
\* never dropped": a step that brings no newer reading does not make a held
\* change disappear unpublished.
HeldKept ==
    [][ (newest' = newest /\ HasPending(rs)
           /\ Changed(policy, rs.pending.obs, rs.last.obs))
        => HasPending(rs') \/ out' # << >> ]_vars

\* The readings a step publishes are newer than those published before it, and
\* in ascending order.
Ascending ==
    \A i \in 1 .. Len(out') :
        out'[i] > (IF i = 1 THEN published.item ELSE out'[i - 1])

\* Readings are published in the order they were offered and at most once:
\* whatever was held, a pass or a replay never publishes an older reading after
\* a newer one ("an older good value never follows a newer bad one").
InOrder == [][Ascending]_vars

\* The rate limit on the runtime clock: a live publish that is neither a
\* point's first nor a change of quality comes min_interval or more after the
\* point's previous publish, the heartbeat included.
RateLimited ==
    [][ (out' # << >> /\ rs'.clock = "runtime" /\ HasLast(rs)
           /\ rs'.last.quality = rs.last.quality /\ published.at # NoTime)
        => now - published.at >= policy.min_interval ]_vars

\* The rate limit on source time: two replayed readings of one quality are
\* published min_interval or more apart in the history they come from (as far as
\* it is replayed in order), across the live readings between replays as well.
ReplayRateLimited ==
    [][ (out' # << >> /\ policy.min_interval > 0 /\ rs'.clock = "replay"
           /\ HasLast(rs) /\ rs'.last.quality = rs.last.quality
           /\ published.src # NoTime /\ published'.src >= published.src)
        => published'.src - published.src >= policy.min_interval ]_vars

\* Debounce without a rate limit: a reading published as a change is the newest
\* one, and for the whole debounce time the readings have been changes from what
\* was published before and have agreed with the first of them.
OnlySettled ==
    [][ (out' # << >> /\ policy.debounce > 0 /\ policy.min_interval = 0
           /\ HasLast(rs) /\ rs'.last.quality = rs.last.quality
           /\ (policy.max_interval > 0 => now - published.at < policy.max_interval))
        => /\ out' = <<newest'.item>>
           /\ \E r \in steady' : now - r.since >= policy.debounce ]_vars

\* The heartbeat of a pushed point: a pass asks for a read exactly when
\* max_interval passed with neither a publish nor a read nor a reset.
HeartbeatOnTime ==
    [][ DuePass /\ policy.max_interval > 0 /\ Pushed /\ ~rs.unreadable
        => (read' <=> (out' = << >> /\ now - heardAt >= policy.max_interval)) ]_vars

\* The live policy of a point: news is held or settling until it is published, a
\* held change is never dropped, publishes keep min_interval and come from readings
\* that have settled, and a pushed point that goes quiet is read on time (offer,
\* due, release_candidate, since_published).
PolicyKept == []NewsKept /\ HeldKept /\ RateLimited /\ OnlySettled /\ HeartbeatOnTime

\* Once readings stop, the point ends up reporting the newest one, up to what
\* the policy calls no change.
NewestReported ==
    <>[](newest.item > 0 =>
            /\ HasLast(rs)
            /\ newest.quality = rs.last.quality
            /\ FiltersChanges(policy) => ~Changed(policy, newest.obs, rs.last.obs)
            /\ ~FiltersChanges(policy) => published.item = newest.item)
=============================================================================
