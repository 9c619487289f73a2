------------------------- MODULE ReportStateProofs -------------------------
(***************************************************************************)
(* Proofs about ReportState, for every set of policies, observations and   *)
(* qualities and every bound: the types; that readings are published in    *)
(* the order they were offered and at most once; that replayed readings    *)
(* keep the rate limit on their own clock; and that a live point keeps its *)
(* policy.                                                                 *)
(***************************************************************************)
EXTENDS ReportState, TLAPS

Quality == Qualities \union {"none"}
Results == [s : State, out : Seq(Nat)]

-----------------------------------------------------------------------------
(* Types: every method maps a well-formed state to well-formed results.    *)

\* An absent observation is an observation.
LEMMA NoObsType == NoObs \in Obs
BY DEF NoObs, Obs

\* A new state is well-formed.
LEMMA NewType == ASSUME NEW t \in Nat PROVE New(t) \in State
BY NoObsType DEF New, State, NoLast, NoPending, NoCandidate, NoTime, Times

\* A call that publishes nothing returns the state it left.
LEMMA QuietType == ASSUME NEW s \in State PROVE Quiet(s) \in Results
BY DEF Quiet, Results

\* publish() keeps the types.
LEMMA PublishType ==
    ASSUME NEW s \in State, NEW item \in Nat, NEW obs \in Obs,
           NEW quality \in Quality, NEW t \in Nat
    PROVE  Publish(s, item, obs, quality, t) \in Results
<1>1. NoPending \in [item : Nat, obs : Obs]
  BY NoObsType DEF NoPending
<1>2. NoCandidate \in [first : Obs, since : Nat, latest : Nat, latest_obs : Obs]
  BY NoObsType DEF NoCandidate
<1>3. Publish(s, item, obs, quality, t).s \in State
  BY <1>1, <1>2 DEF Publish, State, Quality, Times
<1>4. <<item>> \in Seq(Nat)
  OBVIOUS
<1> QED
  BY <1>3, <1>4 DEF Publish, Results

\* publish_if_changed() keeps the types.
LEMMA PublishIfChangedType ==
    ASSUME NEW p, NEW s \in State, NEW item \in Nat, NEW obs \in Obs, NEW t \in Nat
    PROVE  PublishIfChanged(p, s, item, obs, t) \in Results
<1>1. s.last.quality \in Quality
  BY DEF State, Quality
<1> QED
  BY <1>1, PublishType, QuietType DEF PublishIfChanged

\* The part of offer_at behind the debounce keeps the types.
LEMMA OfferSettledType ==
    ASSUME NEW p, NEW s \in State, NEW item \in Nat, NEW obs \in Obs,
           NEW quality \in Quality, NEW t \in Nat
    PROVE  OfferSettled(p, s, item, obs, quality, t) \in Results
<1> DEFINE none == [s EXCEPT !.pending = NoPending]
           held == [s EXCEPT !.pending = [item |-> item, obs |-> obs]]
<1>1. none \in State /\ held \in State
  BY NoObsType DEF State, NoPending
<1>2. Quiet(none) \in Results /\ Quiet(held) \in Results
  BY <1>1, QuietType
<1>3. Publish(none, item, obs, quality, t) \in Results
  BY <1>1, PublishType
<1> QED
  BY <1>2, <1>3 DEF OfferSettled

\* The debounce of offer_at keeps the types.
LEMMA OfferDebouncedType ==
    ASSUME NEW p, NEW s \in State, NEW item \in Nat, NEW obs \in Obs,
           NEW quality \in Quality, NEW t \in Nat
    PROVE  OfferDebounced(p, s, item, obs, quality, t) \in Results
<1> DEFINE joined == [s EXCEPT !.candidate.latest = item,
                               !.candidate.latest_obs = obs]
           started == [s EXCEPT !.candidate = [first |-> obs, since |-> t,
                                               latest |-> item,
                                               latest_obs |-> obs]]
           settled == [s EXCEPT !.candidate = NoCandidate]
           none == [s EXCEPT !.candidate = NoCandidate, !.pending = NoPending]
<1>1. joined \in State /\ started \in State
  BY DEF State
<1>2. settled \in State /\ none \in State
  BY NoObsType DEF State, NoCandidate, NoPending
<1>3. Quiet(joined) \in Results /\ Quiet(started) \in Results /\ Quiet(none) \in Results
  BY <1>1, <1>2, QuietType
<1>4. OfferSettled(p, settled, item, obs, quality, t) \in Results
  BY <1>2, OfferSettledType
<1> QED
  BY <1>3, <1>4 DEF OfferDebounced

\* offer_at() keeps the types.
LEMMA OfferAtType ==
    ASSUME NEW p, NEW s \in State, NEW item \in Nat, NEW obs \in Obs,
           NEW quality \in Quality, NEW t \in Nat
    PROVE  OfferAt(p, s, item, obs, quality, t) \in Results
BY PublishType, OfferDebouncedType, OfferSettledType DEF OfferAt

\* release() of a settled reading keeps the types.
LEMMA ReleaseCandidateType ==
    ASSUME NEW p, NEW s \in State, NEW t \in Nat
    PROVE  ReleaseCandidate(p, s, t) \in Results
<1> DEFINE c == s.candidate
           taken == [s EXCEPT !.candidate = NoCandidate]
           held == [taken EXCEPT !.pending = [item |-> c.latest, obs |-> c.latest_obs]]
<1>1. c.latest \in Nat /\ c.latest_obs \in Obs
  BY DEF State
<1>2. taken \in State
  BY NoObsType DEF State, NoCandidate
<1>3. held \in State
  BY <1>1, <1>2 DEF State
<1>4. Quiet(s) \in Results /\ Quiet(held) \in Results
  BY <1>3, QuietType
<1>5. PublishIfChanged(p, taken, c.latest, c.latest_obs, t) \in Results
  BY <1>1, <1>2, PublishIfChangedType
<1> QED
  BY <1>4, <1>5 DEF ReleaseCandidate

\* release() keeps the types.
LEMMA ReleaseType ==
    ASSUME NEW p, NEW s \in State, NEW t \in Nat
    PROVE  Release(p, s, t) \in Results
<1> DEFINE taken == [s EXCEPT !.pending = NoPending]
           held == IF p.min_interval > 0 /\ HasPending(s) /\ ~TooSoon(p, s, t)
                   THEN PublishIfChanged(p, taken, s.pending.item, s.pending.obs, t)
                   ELSE Quiet(s)
<1>1. s.pending.item \in Nat /\ s.pending.obs \in Obs
  BY DEF State
<1>2. taken \in State
  BY NoObsType DEF State, NoPending
<1>3. held \in Results
  BY <1>1, <1>2, PublishIfChangedType, QuietType
<1>4. held.s \in State
  BY <1>3 DEF Results
<1>5. ReleaseCandidate(p, held.s, t) \in Results
  BY <1>4, ReleaseCandidateType
<1> QED
  BY <1>3, <1>5 DEF Release

\* hand_over() keeps the types.
LEMMA HandOverType ==
    ASSUME NEW s \in State, NEW t \in Nat
    PROVE  HandOver(s, t) \in State
BY DEF HandOver, State, Times, NoTime

\* The switch to source time keeps the types.
LEMMA OnSourceTimeType ==
    ASSUME NEW s \in State, NEW src \in Nat, NEW t \in Nat
    PROVE  OnSourceTime(s, src, t) \in State
<1> DEFINE resumed == [s EXCEPT !.last_published = s.last_published_src,
                                !.candidate.since = IF HasCandidate(s) THEN src ELSE @]
           chosen == IF s.clock = "runtime" THEN resumed ELSE s
<1>1. resumed \in State
  BY DEF State, Times
<1>2. chosen \in State
  BY <1>1
<1>3. [chosen EXCEPT !.clock = "replay", !.last_offer = t] \in State
  BY <1>2 DEF State
<1> QED
  BY <1>3 DEF OnSourceTime

\* offer() keeps the types.
LEMMA OfferType ==
    ASSUME NEW p, NEW s \in State, NEW item \in Nat, NEW obs \in Obs,
           NEW quality \in Quality, NEW t \in Nat
    PROVE  Offer(p, s, item, obs, quality, t) \in Results
BY HandOverType, OfferAtType DEF Offer

\* offer_replayed() keeps the types.
LEMMA OfferReplayedType ==
    ASSUME NEW p, NEW s \in State, NEW item \in Nat, NEW obs \in Obs,
           NEW quality \in Quality, NEW src \in Nat, NEW t \in Nat
    PROVE  OfferReplayed(p, s, item, obs, quality, src, t) \in Results
<1> DEFINE held == Release(p, OnSourceTime(s, src, t), src)
           new == OfferAt(p, held.s, item, obs, quality, src)
           final == [new.s EXCEPT !.last_published_src =
                        IF new.s.last_published = NoTime THEN @
                        ELSE new.s.last_published]
<1>1. held \in Results
  BY OnSourceTimeType, ReleaseType
<1>2. held.s \in State /\ held.out \in Seq(Nat)
  BY <1>1 DEF Results
<1>3. new \in Results
  BY <1>2, OfferAtType
<1>4. new.s \in State /\ new.out \in Seq(Nat)
  BY <1>3 DEF Results
<1>5. final \in State
  BY <1>4 DEF State, Times
<1>6. held.out \o new.out \in Seq(Nat)
  BY <1>2, <1>4
<1> QED
  BY <1>5, <1>6 DEF OfferReplayed, Results

\* due() keeps the types.
LEMMA DueType ==
    ASSUME NEW p, NEW s \in State, NEW pushed \in BOOLEAN, NEW t \in Nat
    PROVE  /\ Due(p, s, pushed, t).s \in State
           /\ Due(p, s, pushed, t).out \in Seq(Nat)
           /\ Due(p, s, pushed, t).read \in BOOLEAN
<1> DEFINE live == IF s.clock = "replay" THEN HandOver(s, t) ELSE s
           released == Release(p, live, t)
           asked == [released.s EXCEPT !.last_read = t]
<1>1. live \in State
  BY HandOverType
<1>2. released \in Results
  BY <1>1, ReleaseType
<1>3. released.s \in State /\ released.out \in Seq(Nat)
  BY <1>2 DEF Results
<1>4. asked \in State
  BY <1>3 DEF State, Times
<1> QED
  BY <1>3, <1>4 DEF Due

\* The fields of a point's state keep their types whatever is offered, replayed,
\* passed over or reset, in whatever order.
THEOREM Types == Spec => []TypeOK
<1> USE DEF Quality, Times, NoTime
<1>0. << >> \in Seq(Nat)
  OBVIOUS
<1>1. Init => TypeOK
  <2>1. ASSUME NEW p \in Policy PROVE Effective(p) \in Policy
    BY DEF Effective, Policy
  <2>2. New(0) \in State
    BY NewType
  <2>3. Init => policy \in Policy
    BY <2>1, PoliciesAssumption DEF Init
  <2>4. Init => rs \in State /\ out \in Seq(Nat) /\ read \in BOOLEAN
    BY <1>0, <2>2 DEF Init
  <2>5. Init => now \in Nat /\ heardAt \in Nat
    BY DEF Init
  <2>6. Init => newest \in [item : Nat, obs : Obs, quality : Quality]
    BY NoObsType DEF Init, NoReading
  <2>7. Init => /\ steady \subseteq [first : Obs, since : Nat]
                /\ published \in [item : Nat, at : Times, src : Times]
    BY NoObsType DEF Init
  <2> QED
    BY <2>3, <2>4, <2>5, <2>6, <2>7 DEF TypeOK
<1>2. TypeOK /\ [Next]_vars => TypeOK'
  <2> SUFFICES ASSUME TypeOK, [Next]_vars PROVE TypeOK'
    OBVIOUS
  <2> USE DEF TypeOK
  <2>1. ASSUME NEW r, r.s \in State, r.out \in Seq(Nat),
               NEW src \in Times, Apply(r, src)
        PROVE  /\ rs' \in State
               /\ out' \in Seq(Nat)
               /\ published' \in [item : Nat, at : Times, src : Times]
    <3>1. ASSUME r.out # << >> PROVE r.out[Len(r.out)] \in Nat
      BY <2>1, <3>1
    <3> QED
      BY <2>1, <3>1 DEF Apply
  <2>2. ASSUME NEW item \in Nat, NEW obs \in Obs, NEW quality \in Qualities,
               Observe(item, obs, quality)
        PROVE  /\ newest' \in [item : Nat, obs : Obs, quality : Quality]
               /\ steady' \subseteq [first : Obs, since : Nat]
    BY <2>2 DEF Observe
  <2>3. ASSUME NEW obs \in Observations, NEW quality \in Qualities,
               OfferReading(obs, quality)
        PROVE  TypeOK'
    <3> DEFINE item == newest.item + 1
               result == Offer(policy, rs, item, obs, quality, now)
    <3>1. item \in Nat /\ obs \in Obs
      BY ObservationsAssumption
    <3>2. result \in Results
      BY <3>1, OfferType
    <3>3. result.s \in State /\ result.out \in Seq(Nat)
      BY <3>2 DEF Results
    <3> HIDE DEF item, result
    <3>4. Apply(result, NoTime) /\ Observe(item, obs, quality)
      BY <2>3 DEF OfferReading, item, result
    <3>5. heardAt' \in Nat /\ read' \in BOOLEAN /\ policy' = policy /\ now' = now
      BY <2>3 DEF OfferReading
    <3> QED
      BY <3>1, <3>3, <3>4, <3>5, <2>1, <2>2
  <2>4. ASSUME NEW obs \in Observations, NEW quality \in Qualities,
               NEW src \in Epoch .. Epoch + MaxSource,
               OfferReplayedReading(obs, quality, src)
        PROVE  TypeOK'
    <3> DEFINE item == newest.item + 1
               result == OfferReplayed(policy, rs, item, obs, quality, src, now)
    <3>1. item \in Nat /\ obs \in Obs /\ src \in Nat
      BY ObservationsAssumption, BoundsAssumption
    <3>2. result \in Results
      BY <3>1, OfferReplayedType
    <3>3. result.s \in State /\ result.out \in Seq(Nat)
      BY <3>2 DEF Results
    <3> HIDE DEF item, result
    <3>4. Apply(result, src) /\ Observe(item, obs, quality)
      BY <2>4 DEF OfferReplayedReading, item, result
    <3>5. heardAt' \in Nat /\ read' \in BOOLEAN /\ policy' = policy /\ now' = now
      BY <2>4 DEF OfferReplayedReading
    <3> QED
      BY <3>1, <3>3, <3>4, <3>5, <2>1, <2>2
  <2>5. CASE DuePass
    <3> DEFINE result == Due(policy, rs, Pushed, now)
    <3>1. result.s \in State /\ result.out \in Seq(Nat) /\ result.read \in BOOLEAN
      BY DueType, FlagsAssumption
    <3> HIDE DEF result
    <3>2. Apply(result, NoTime) /\ read' = result.read
      BY <2>5 DEF DuePass, result
    <3>3. heardAt' \in Nat /\ UNCHANGED <<policy, now, newest, steady>>
      BY <2>5 DEF DuePass
    <3> QED
      BY <3>1, <3>2, <3>3, <2>1
  <2>6. CASE NoData
    <3>1. rs' \in State
      BY <2>6 DEF NoData, State
    <3> QED
      BY <1>0, <2>6, <3>1 DEF NoData, history
  <2>7. CASE Reset
    <3>1. New(now) \in State
      BY NewType
    <3>2. published' \in [item : Nat, at : Times, src : Times]
      BY <2>7 DEF Reset
    <3>3. rs' \in State
      BY <2>7, <3>1 DEF Reset
    <3>4. heardAt' \in Nat /\ read' \in BOOLEAN /\ out' \in Seq(Nat)
      BY <1>0, <2>7 DEF Reset
    <3>5. UNCHANGED <<policy, now, newest, steady>>
      BY <2>7 DEF Reset
    <3> QED
      BY <3>2, <3>3, <3>4, <3>5
  <2>8. CASE Tick
    <3>1. UNCHANGED <<policy, rs, newest, steady, published, heardAt>>
      BY <2>8 DEF Tick, history
    <3>2. now' \in Nat
      BY <2>8 DEF Tick
    <3>3. read' \in BOOLEAN /\ out' \in Seq(Nat)
      BY <1>0, <2>8 DEF Tick
    <3> QED
      BY <3>1, <3>2, <3>3
  <2>9. CASE UNCHANGED vars
    BY <2>9 DEF vars
  <2> QED
    BY <2>3, <2>4, <2>5, <2>6, <2>7, <2>8, <2>9 DEF Next, Step
<1> QED
  BY <1>1, <1>2, PTL DEF Spec

-----------------------------------------------------------------------------
(* The order of publishing.  What a point holds is newer than what it      *)
(* published and no newer than what it was offered; each method keeps      *)
(* that, and publishes only from there.                                    *)

\* A reading that is absent, or newer than lo and no newer than hi.
Between(n, lo, hi) == n = 0 \/ (lo < n /\ n <= hi)

HeldWithin(s, lo, hi) ==
    Between(s.pending.item, lo, hi) /\ Between(s.candidate.latest, lo, hi)

\* The result publishes nothing, or one reading; what is still held is newer.
Keeps(r, lo, hi) ==
    \/ r.out = << >> /\ HeldWithin(r.s, lo, hi)
    \/ \E i \in Nat : lo < i /\ i <= hi /\ r.out = <<i>> /\ HeldWithin(r.s, i, hi)

\* Publishing a reading of the window leaves nothing held.
LEMMA PublishKeeps ==
    ASSUME NEW s \in State, NEW item \in Nat, NEW obs, NEW quality, NEW t,
           NEW lo \in Nat, NEW hi \in Nat, lo < item, item <= hi
    PROVE  Keeps(Publish(s, item, obs, quality, t), lo, hi)
<1> DEFINE r == Publish(s, item, obs, quality, t)
<1>1. r.s.pending.item = 0 /\ r.s.candidate.latest = 0 /\ r.out = <<item>>
  BY DEF Publish, NoPending, NoCandidate, State
<1> HIDE DEF r
<1>2. Keeps(r, lo, hi)
  BY <1>1 DEF Keeps, HeldWithin, Between
<1> QED
  BY <1>2 DEF r

\* A call that publishes nothing keeps what the state holds.
LEMMA QuietKeeps ==
    ASSUME NEW s, NEW lo, NEW hi, HeldWithin(s, lo, hi)
    PROVE  Keeps(Quiet(s), lo, hi)
BY DEF Keeps, Quiet

\* publish_if_changed() publishes only a reading of the window.
LEMMA PublishIfChangedKeeps ==
    ASSUME NEW p, NEW s \in State, NEW item \in Nat, NEW obs, NEW t,
           NEW lo \in Nat, NEW hi \in Nat, lo < item, item <= hi,
           HeldWithin(s, lo, hi)
    PROVE  Keeps(PublishIfChanged(p, s, item, obs, t), lo, hi)
BY PublishKeeps, QuietKeeps DEF PublishIfChanged

\* The part of offer_at behind the debounce publishes or holds the offered
\* reading, the newest there is.
LEMMA OfferSettledKeeps ==
    ASSUME NEW p, NEW s \in State, NEW item \in Nat, NEW obs \in Obs, NEW quality,
           NEW t, NEW lo \in Nat, lo < item, HeldWithin(s, lo, item)
    PROVE  Keeps(OfferSettled(p, s, item, obs, quality, t), lo, item)
<1> DEFINE none == [s EXCEPT !.pending = NoPending]
           held == [s EXCEPT !.pending = [item |-> item, obs |-> obs]]
<1>1. none \in State
  BY NoObsType DEF State, NoPending
<1>2. HeldWithin(none, lo, item) /\ HeldWithin(held, lo, item)
  BY DEF HeldWithin, Between, State, NoPending
<1>3. Keeps(Quiet(none), lo, item) /\ Keeps(Quiet(held), lo, item)
  BY <1>2, QuietKeeps
<1>4. Keeps(Publish(none, item, obs, quality, t), lo, item)
  BY <1>1, PublishKeeps
<1> QED
  BY <1>3, <1>4 DEF OfferSettled

\* The debounce holds the offered reading or drops what it held.
LEMMA OfferDebouncedKeeps ==
    ASSUME NEW p, NEW s \in State, NEW item \in Nat, NEW obs \in Obs, NEW quality,
           NEW t \in Nat, NEW lo \in Nat, lo < item, HeldWithin(s, lo, item)
    PROVE  Keeps(OfferDebounced(p, s, item, obs, quality, t), lo, item)
<1> DEFINE joined == [s EXCEPT !.candidate.latest = item,
                               !.candidate.latest_obs = obs]
           started == [s EXCEPT !.candidate = [first |-> obs, since |-> t,
                                               latest |-> item,
                                               latest_obs |-> obs]]
           settled == [s EXCEPT !.candidate = NoCandidate]
           none == [s EXCEPT !.candidate = NoCandidate, !.pending = NoPending]
<1>1. settled \in State
  BY NoObsType DEF State, NoCandidate
<1>2. HeldWithin(joined, lo, item) /\ HeldWithin(started, lo, item)
  <2>1. joined.pending = s.pending /\ joined.candidate.latest = item
    BY DEF State
  <2>2. started.pending = s.pending /\ started.candidate.latest = item
    BY DEF State
  <2> HIDE DEF joined, started
  <2> QED
    BY <2>1, <2>2 DEF HeldWithin, Between
<1>3. HeldWithin(settled, lo, item) /\ HeldWithin(none, lo, item)
  BY DEF HeldWithin, Between, State, NoPending, NoCandidate
<1>4. /\ Keeps(Quiet(joined), lo, item)
      /\ Keeps(Quiet(started), lo, item)
      /\ Keeps(Quiet(none), lo, item)
  BY <1>2, <1>3, QuietKeeps
<1>5. Keeps(OfferSettled(p, settled, item, obs, quality, t), lo, item)
  BY <1>1, <1>3, OfferSettledKeeps
<1> QED
  BY <1>4, <1>5 DEF OfferDebounced

\* offer_at() publishes nothing but the offered reading.
LEMMA OfferAtKeeps ==
    ASSUME NEW p, NEW s \in State, NEW item \in Nat, NEW obs \in Obs, NEW quality,
           NEW t \in Nat, NEW lo \in Nat, lo < item, HeldWithin(s, lo, item)
    PROVE  Keeps(OfferAt(p, s, item, obs, quality, t), lo, item)
<1>1. Keeps(Publish(s, item, obs, quality, t), lo, item)
  BY PublishKeeps
<1> QED
  BY <1>1, OfferDebouncedKeeps, OfferSettledKeeps DEF OfferAt

\* A settled reading that is released comes from the window.
LEMMA ReleaseCandidateKeeps ==
    ASSUME NEW p, NEW s \in State, NEW t, NEW lo \in Nat, NEW hi \in Nat,
           HeldWithin(s, lo, hi)
    PROVE  Keeps(ReleaseCandidate(p, s, t), lo, hi)
<1> DEFINE c == s.candidate
           taken == [s EXCEPT !.candidate = NoCandidate]
           held == [taken EXCEPT !.pending = [item |-> c.latest, obs |-> c.latest_obs]]
<1>1. taken \in State /\ c.latest \in Nat
  BY NoObsType DEF State, NoCandidate
<1>2. HeldWithin(taken, lo, hi) /\ HeldWithin(held, lo, hi)
  BY DEF HeldWithin, Between, State, NoCandidate
<1>3. Keeps(Quiet(s), lo, hi) /\ Keeps(Quiet(held), lo, hi)
  BY <1>2, QuietKeeps
<1>4. HasCandidate(s) => Keeps(PublishIfChanged(p, taken, c.latest, c.latest_obs, t), lo, hi)
  <2> SUFFICES ASSUME HasCandidate(s)
               PROVE Keeps(PublishIfChanged(p, taken, c.latest, c.latest_obs, t), lo, hi)
    OBVIOUS
  <2>1. lo < c.latest /\ c.latest <= hi
    BY <1>1 DEF HasCandidate, HeldWithin, Between
  <2> HIDE DEF c, taken
  <2> QED
    BY <1>1, <1>2, <2>1, PublishIfChangedKeeps
<1> QED
  BY <1>3, <1>4 DEF ReleaseCandidate

\* release() publishes at most one reading, from the window.
LEMMA ReleaseKeeps ==
    ASSUME NEW p, NEW s \in State, NEW t \in Nat, NEW lo \in Nat, NEW hi \in Nat,
           HeldWithin(s, lo, hi)
    PROVE  Keeps(Release(p, s, t), lo, hi)
<1> DEFINE taken == [s EXCEPT !.pending = NoPending]
           ended == p.min_interval > 0 /\ HasPending(s) /\ ~TooSoon(p, s, t)
           first == PublishIfChanged(p, taken, s.pending.item, s.pending.obs, t)
           held == IF ended THEN first ELSE Quiet(s)
<1>1. taken \in State /\ s.pending.item \in Nat /\ s.pending.obs \in Obs
  BY NoObsType DEF State, NoPending
<1>2. HeldWithin(taken, lo, hi)
  BY DEF HeldWithin, Between, State, NoPending
<1>3. HasPending(s) => Keeps(first, lo, hi)
  <2> SUFFICES ASSUME HasPending(s) PROVE Keeps(first, lo, hi)
    OBVIOUS
  <2>1. lo < s.pending.item /\ s.pending.item <= hi
    BY <1>1 DEF HasPending, HeldWithin, Between
  <2> HIDE DEF taken
  <2> QED
    BY <1>1, <1>2, <2>1, PublishIfChangedKeeps
<1>4. Keeps(held, lo, hi)
  BY <1>3, QuietKeeps
<1>5. held.s \in State
  BY <1>1, PublishIfChangedType, QuietType DEF Results
<1>6. CASE held.out # << >>
  BY <1>4, <1>6 DEF Release
<1>7. CASE held.out = << >>
  <2>1. HeldWithin(held.s, lo, hi)
    <3> HIDE DEF held
    <3> QED BY <1>4, <1>7 DEF Keeps
  <2>2. Keeps(ReleaseCandidate(p, held.s, t), lo, hi)
    BY <1>5, <2>1, ReleaseCandidateKeeps
  <2> QED
    BY <1>7, <2>2 DEF Release
<1> QED
  BY <1>6, <1>7

\* A clock switch holds what was held.
LEMMA SwitchKeeps ==
    ASSUME NEW s \in State, NEW t \in Nat, NEW src \in Nat, NEW lo \in Nat,
           NEW hi \in Nat, HeldWithin(s, lo, hi)
    PROVE  HeldWithin(HandOver(s, t), lo, hi) /\ HeldWithin(OnSourceTime(s, src, t), lo, hi)
<1>1. /\ HandOver(s, t).pending = s.pending
      /\ HandOver(s, t).candidate.latest = s.candidate.latest
  BY DEF HandOver, State
<1>2. /\ OnSourceTime(s, src, t).pending = s.pending
      /\ OnSourceTime(s, src, t).candidate.latest = s.candidate.latest
  BY DEF OnSourceTime, State
<1> QED
  BY <1>1, <1>2 DEF HeldWithin

-----------------------------------------------------------------------------
(* The inductive invariant: what is held is newer than what was published. *)

HeldIsNewer ==
    /\ published.item <= newest.item
    /\ HeldWithin(rs, published.item, newest.item)

\* A result that keeps the window publishes in ascending order and moves the
\* window up to what it published.
LEMMA KeepsAscends ==
    ASSUME TypeOK, NEW r, NEW src, NEW hi \in Nat,
           Keeps(r, published.item, hi), published.item <= hi, Apply(r, src)
    PROVE  /\ Ascending
           /\ published'.item <= hi
           /\ HeldWithin(rs', published'.item, hi)
<1>1. CASE r.out = << >> /\ HeldWithin(r.s, published.item, hi)
  BY <1>1 DEF Apply, Ascending, TypeOK
<1>2. ASSUME NEW i \in Nat, published.item < i, i <= hi, r.out = <<i>>,
             HeldWithin(r.s, i, hi)
      PROVE  Ascending /\ published'.item <= hi /\ HeldWithin(rs', published'.item, hi)
  <2>1. out' = <<i>> /\ published'.item = i /\ rs' = r.s
    BY <1>2 DEF Apply
  <2>2. Ascending
    BY <1>2, <2>1 DEF Ascending, TypeOK
  <2> QED
    BY <1>2, <2>1, <2>2
<1> QED
  BY <1>1, <1>2 DEF Keeps

\* A wider window holds what a narrower one holds.
LEMMA Widen ==
    ASSUME NEW s, NEW lo \in Nat, NEW hi \in Nat, NEW top \in Nat, hi <= top,
           s.pending.item \in Nat, s.candidate.latest \in Nat,
           HeldWithin(s, lo, hi)
    PROVE  HeldWithin(s, lo, top)
BY DEF HeldWithin, Between

\* The step of every action: the invariant is kept and publishing ascends.
LEMMA OrderStep ==
    ASSUME TypeOK, HeldIsNewer, [Next]_vars
    PROVE  HeldIsNewer' /\ (Ascending \/ UNCHANGED vars)
<1> DEFINE lo == published.item
           hi == newest.item
           item == newest.item + 1
<1>0. /\ lo \in Nat /\ hi \in Nat /\ item \in Nat /\ lo < item /\ now \in Nat
      /\ rs \in State /\ HeldWithin(rs, lo, hi) /\ lo <= hi
  BY DEF TypeOK, HeldIsNewer
<1>t. ASSUME NEW s \in State PROVE s.pending.item \in Nat /\ s.candidate.latest \in Nat
  BY DEF State
<1>n. HeldWithin(rs, lo, item)
  BY <1>0, <1>t, Widen
<1>o. ASSUME NEW obs, NEW quality, Observe(item, obs, quality) PROVE newest'.item = item
  BY <1>o DEF Observe
<1>1. ASSUME NEW obs \in Observations, NEW quality \in Qualities,
             OfferReading(obs, quality)
      PROVE  HeldIsNewer' /\ Ascending
  <2> DEFINE s == IF rs.clock = "replay" THEN HandOver(rs, now) ELSE rs
             result == Offer(policy, rs, item, obs, quality, now)
  <2>1. s \in State /\ HeldWithin(s, lo, item) /\ obs \in Obs
    BY <1>0, <1>n, HandOverType, SwitchKeeps, ObservationsAssumption
  <2>2. Keeps(OfferAt(policy, s, item, obs, quality, now), lo, item)
    <3> HIDE DEF s, item, lo
    <3> QED BY <1>0, <2>1, OfferAtKeeps
  <2>3. Keeps(result, lo, item)
    BY <2>2 DEF Offer
  <2>4. Apply(result, NoTime) /\ newest'.item = item
    BY <1>1, <1>o DEF OfferReading
  <2> HIDE DEF result
  <2> QED
    BY <1>0, <2>3, <2>4, KeepsAscends DEF HeldIsNewer
<1>2. ASSUME NEW obs \in Observations, NEW quality \in Qualities,
             NEW src \in Epoch .. Epoch + MaxSource,
             OfferReplayedReading(obs, quality, src)
      PROVE  HeldIsNewer' /\ Ascending
  <2> DEFINE s == OnSourceTime(rs, src, now)
             held == Release(policy, s, src)
             new == OfferAt(policy, held.s, item, obs, quality, src)
             result == OfferReplayed(policy, rs, item, obs, quality, src, now)
  <2>1. src \in Nat /\ obs \in Obs
    BY BoundsAssumption, ObservationsAssumption
  <2>2. s \in State /\ HeldWithin(s, lo, hi)
    BY <1>0, <2>1, OnSourceTimeType, SwitchKeeps
  <2>3. held \in Results /\ held.s \in State
    BY <2>1, <2>2, ReleaseType DEF Results
  <2>4. Keeps(held, lo, hi)
    BY <1>0, <2>1, <2>2, ReleaseKeeps
  <2>5. new \in Results /\ new.s \in State
    BY <1>0, <2>1, <2>3, OfferAtType DEF Results, Quality
  <2>6. /\ result.out = held.out \o new.out
        /\ result.s.pending = new.s.pending
        /\ result.s.candidate = new.s.candidate
    BY <2>5 DEF OfferReplayed, State
  <2>7. Apply(result, src) /\ newest'.item = item
    BY <1>2, <1>o DEF OfferReplayedReading
  <2>8. ASSUME NEW low \in Nat, low <= hi, HeldWithin(held.s, low, hi)
        PROVE  Keeps(new, low, item)
    <3>1. HeldWithin(held.s, low, item) /\ low < item
      BY <1>0, <1>t, <2>3, <2>8, Widen
    <3> HIDE DEF held, item
    <3> QED BY <1>0, <2>1, <2>3, <3>1, OfferAtKeeps
  <2> HIDE DEF s, held, new, result, item, hi, lo
  <2>9. CASE held.out = << >> /\ HeldWithin(held.s, lo, hi)
    <3>1. Keeps(new, lo, item)
      BY <1>0, <2>8, <2>9
    <3>2. result.out = new.out
      BY <2>5, <2>6, <2>9 DEF Results
    <3>3. Keeps(result, lo, item)
      BY <2>6, <3>1, <3>2 DEF Keeps, HeldWithin
    <3> QED
      BY <1>0, <2>7, <3>3, KeepsAscends DEF HeldIsNewer, lo
  <2>10. ASSUME NEW i \in Nat, lo < i, i <= hi, held.out = <<i>>,
                HeldWithin(held.s, i, hi)
         PROVE  HeldIsNewer' /\ Ascending
    <3>1. Keeps(new, i, item)
      BY <2>8, <2>10
    <3>2. CASE new.out = << >> /\ HeldWithin(new.s, i, item)
      <4>1. result.out = <<i>> /\ HeldWithin(result.s, i, item) /\ i <= item
        BY <1>0, <2>6, <2>10, <3>2 DEF HeldWithin, item, hi
      <4>2. Keeps(result, lo, item)
        BY <2>10, <4>1 DEF Keeps
      <4> QED
        BY <1>0, <2>7, <4>2, KeepsAscends DEF HeldIsNewer, lo
    <3>3. ASSUME NEW j \in Nat, i < j, j <= item, new.out = <<j>>,
                 HeldWithin(new.s, j, item)
          PROVE  HeldIsNewer' /\ Ascending
      <4>0. <<i>> \in Seq(Nat) /\ <<j>> \in Seq(Nat)
        OBVIOUS
      <4>1. /\ Len(<<i>> \o <<j>>) = 2
            /\ (<<i>> \o <<j>>)[1] = i
            /\ (<<i>> \o <<j>>)[2] = j
        BY <4>0
      <4>2. HeldWithin(result.s, j, item)
        BY <2>6, <3>3 DEF HeldWithin
      <4>3. Len(result.out) = 2 /\ result.out[1] = i /\ result.out[2] = j
        BY <2>6, <2>10, <3>3, <4>1
      <4>4. result.out # << >>
        BY <4>3
      <4>5. out' = result.out /\ published'.item = j /\ rs' = result.s
        BY <2>7, <4>3, <4>4 DEF Apply
      <4>6. Ascending
        BY <1>0, <2>10, <3>3, <4>3, <4>5 DEF Ascending, lo
      <4> QED
        BY <2>7, <3>3, <4>2, <4>5, <4>6 DEF HeldIsNewer
    <3> QED
      BY <3>1, <3>2, <3>3 DEF Keeps
  <2> QED
    BY <2>4, <2>9, <2>10 DEF Keeps
<1>3. CASE DuePass
  <2> DEFINE live == IF rs.clock = "replay" THEN HandOver(rs, now) ELSE rs
             released == Release(policy, live, now)
             result == Due(policy, rs, Pushed, now)
  <2>1. live \in State /\ HeldWithin(live, lo, hi)
    BY <1>0, HandOverType, SwitchKeeps
  <2>2. Keeps(released, lo, hi) /\ released.s \in State
    BY <1>0, <2>1, ReleaseKeeps, ReleaseType DEF Results
  <2>3. \/ result.out = << >> /\ result.s = rs
        \/ /\ result.out = released.out
           /\ result.s.pending = released.s.pending
           /\ result.s.candidate = released.s.candidate
    BY <2>2 DEF Due, State
  <2> HIDE DEF released, result
  <2>4. Keeps(result, lo, hi)
    BY <1>0, <2>2, <2>3 DEF Keeps, HeldWithin
  <2>5. Apply(result, NoTime) /\ newest' = newest
    BY <1>3 DEF DuePass, result
  <2> QED
    BY <1>0, <2>4, <2>5, KeepsAscends DEF HeldIsNewer
<1>4. CASE NoData
  <2>1. rs'.pending = rs.pending /\ rs'.candidate = rs.candidate /\ out' = << >>
    BY <1>4, <1>0 DEF NoData, State
  <2>2. published' = published /\ newest' = newest
    BY <1>4 DEF NoData, history
  <2> QED
    BY <1>0, <2>1, <2>2 DEF HeldIsNewer, HeldWithin, Ascending
<1>5. CASE Reset
  <2>1. rs'.pending.item = 0 /\ rs'.candidate.latest = 0 /\ out' = << >>
    BY <1>5 DEF Reset, New, NoPending, NoCandidate
  <2>2. published'.item = published.item /\ newest' = newest
    BY <1>5 DEF Reset, TypeOK
  <2> QED
    BY <1>0, <2>1, <2>2 DEF HeldIsNewer, HeldWithin, Between, Ascending
<1>6. CASE Tick
  <2>1. rs' = rs /\ out' = << >> /\ published' = published /\ newest' = newest
    BY <1>6 DEF Tick, history
  <2> QED
    BY <1>0, <2>1 DEF HeldIsNewer, HeldWithin, Ascending
<1>7. CASE UNCHANGED vars
  BY <1>7 DEF vars, HeldIsNewer, HeldWithin
<1> QED
  BY <1>1, <1>2, <1>3, <1>4, <1>5, <1>6, <1>7 DEF Next, Step

\* Publishing follows the order of the readings: for every policy and every mix
\* of live readings, replays, passes and resets, a reading is published at most
\* once and never after a newer one.
THEOREM PublishesInOrder == Spec => InOrder
<1>1. Init => HeldIsNewer
  BY DEF Init, New, NoReading, NoPending, NoCandidate, HeldIsNewer, HeldWithin, Between
<1>2. TypeOK /\ HeldIsNewer /\ [Next]_vars => HeldIsNewer' /\ [Ascending]_vars
  BY OrderStep
<1> QED
  BY <1>1, <1>2, Types, PTL DEF Spec, InOrder

-----------------------------------------------------------------------------
(* What the methods do: a call shows one reading, which becomes the last   *)
(* published one and leaves nothing held, or it is silent.                 *)

\* The fields that only resets, reads, clock switches and replays change.
SameRest(a, b) ==
    /\ a.origin = b.origin /\ a.last_read = b.last_read /\ a.unreadable = b.unreadable
    /\ a.clock = b.clock /\ a.last_offer = b.last_offer
    /\ a.last_published_src = b.last_published_src

Shown(r, s, item, obs, quality, t) ==
    /\ r.out = <<item>>
    /\ r.s.last = [obs |-> obs, quality |-> quality]
    /\ r.s.last_published = t
    /\ r.s.pending = NoPending /\ r.s.candidate = NoCandidate
    /\ SameRest(r.s, s)

Silent(r, s) ==
    /\ r.out = << >>
    /\ r.s.last = s.last /\ r.s.last_published = s.last_published
    /\ SameRest(r.s, s)

\* publish() shows its reading, whatever was held.
LEMMA PublishShows ==
    ASSUME NEW s \in State, NEW item, NEW obs, NEW quality, NEW t
    PROVE  Shown(Publish(s, item, obs, quality, t), s, item, obs, quality, t)
BY DEF Publish, Shown, SameRest, State

\* What is held does not count for what a call shows or for the rate limit.
LEMMA HeldAside ==
    ASSUME NEW s \in State, NEW p, NEW t,
           NEW b, b \in State, SameRest(b, s), b.last = s.last,
           b.last_published = s.last_published
    PROVE  /\ TooSoon(p, b, t) = TooSoon(p, s, t)
           /\ HasLast(b) = HasLast(s)
           /\ \A r, item, obs, quality :
                 Shown(r, b, item, obs, quality, t) => Shown(r, s, item, obs, quality, t)
           /\ \A r : Silent(r, b) => Silent(r, s)
BY DEF TooSoon, SincePublished, OrOrigin, HasLast, Shown, Silent, SameRest

\* offer_at() behind the debounce: the reading is held, dropped as no change, or
\* published.
SettledResult(p, s, item, obs, quality, t, r) ==
    \/ /\ TooSoon(p, s, t) /\ Silent(r, s)
       /\ r.s.pending = [item |-> item, obs |-> obs] /\ r.s.candidate = s.candidate
    \/ /\ ~TooSoon(p, s, t) /\ Silent(r, s)
       /\ FiltersChanges(p) /\ ~Changed(p, obs, s.last.obs)
       /\ r.s.pending = NoPending /\ r.s.candidate = s.candidate
    \/ /\ ~TooSoon(p, s, t)
       /\ FiltersChanges(p) => Changed(p, obs, s.last.obs)
       /\ Shown(r, s, item, obs, quality, t)

\* That is what it does.
LEMMA OfferSettledDoes ==
    ASSUME NEW p, NEW s \in State, NEW item \in Nat, NEW obs \in Obs,
           NEW quality \in Quality, NEW t \in Nat, NEW r,
           r = OfferSettled(p, s, item, obs, quality, t)
    PROVE  SettledResult(p, s, item, obs, quality, t, r)
<1> USE DEF SettledResult
<1> DEFINE none == [s EXCEPT !.pending = NoPending]
           held == [s EXCEPT !.pending = [item |-> item, obs |-> obs]]
<1>1. CASE TooSoon(p, s, t)
  <2>1. r = Quiet(held)
    BY <1>1 DEF OfferSettled
  <2>2. Silent(r, s) /\ r.s.pending = [item |-> item, obs |-> obs] /\ r.s.candidate = s.candidate
    BY <2>1 DEF Quiet, Silent, SameRest, State
  <2> QED
    BY <1>1, <2>2
<1>2. CASE ~TooSoon(p, s, t) /\ FiltersChanges(p) /\ ~Changed(p, obs, s.last.obs)
  <2>1. r = Quiet(none)
    BY <1>2 DEF OfferSettled
  <2>2. Silent(r, s) /\ r.s.pending = NoPending /\ r.s.candidate = s.candidate
    BY <2>1 DEF Quiet, Silent, SameRest, State
  <2> QED
    BY <1>2, <2>2
<1>3. CASE ~TooSoon(p, s, t) /\ (FiltersChanges(p) => Changed(p, obs, s.last.obs))
  <2>1. r = Publish(none, item, obs, quality, t)
    BY <1>3 DEF OfferSettled
  <2>2. none \in State
    BY NoObsType DEF State, NoPending
  <2>3. SameRest(none, s)
    BY DEF SameRest, State
  <2>4. Shown(r, none, item, obs, quality, t)
    BY <2>1, <2>2, PublishShows
  <2>5. Shown(r, s, item, obs, quality, t)
    BY <2>3, <2>4 DEF Shown, SameRest
  <2> QED
    BY <1>3, <2>5
<1> QED
  BY <1>1, <1>2, <1>3

\* A reading agrees with the candidate that is settling.
Joins(p, s, obs) == HasCandidate(s) /\ ~Changed(p, obs, s.candidate.first)

\* The debounce of offer_at(): no change ends what was held, a change starts a
\* candidate or joins it, and one that has settled goes on to the rate limit.
DebouncedResult(p, s, item, obs, quality, t, r) ==
    \/ /\ ~Changed(p, obs, s.last.obs) /\ Silent(r, s)
       /\ r.s.pending = NoPending /\ r.s.candidate = NoCandidate
    \/ /\ Changed(p, obs, s.last.obs) /\ Silent(r, s) /\ r.s.pending = s.pending
       /\ r.s.candidate = [first |-> obs, since |-> t, latest |-> item, latest_obs |-> obs]
    \/ /\ Changed(p, obs, s.last.obs) /\ Joins(p, s, obs) /\ Silent(r, s)
       /\ r.s.pending = s.pending
       /\ r.s.candidate = [s.candidate EXCEPT !.latest = item, !.latest_obs = obs]
    \/ /\ Changed(p, obs, s.last.obs) /\ Joins(p, s, obs) /\ TooSoon(p, s, t)
       /\ Silent(r, s)
       /\ r.s.pending = [item |-> item, obs |-> obs] /\ r.s.candidate = NoCandidate
    \/ /\ Changed(p, obs, s.last.obs) /\ Joins(p, s, obs) /\ ~TooSoon(p, s, t)
       /\ ~(Since(t, s.candidate.since) < p.debounce)
       /\ Shown(r, s, item, obs, quality, t)

\* That is what it does.
LEMMA OfferDebouncedDoes ==
    ASSUME NEW p, NEW s \in State, NEW item \in Nat, NEW obs \in Obs,
           NEW quality \in Quality, NEW t \in Nat, NEW r, p.debounce > 0,
           r = OfferDebounced(p, s, item, obs, quality, t)
    PROVE  DebouncedResult(p, s, item, obs, quality, t, r)
<1> USE DEF DebouncedResult
<1> DEFINE joined == [s EXCEPT !.candidate.latest = item, !.candidate.latest_obs = obs]
           started == [s EXCEPT !.candidate = [first |-> obs, since |-> t,
                                               latest |-> item, latest_obs |-> obs]]
           settled == [s EXCEPT !.candidate = NoCandidate]
           none == [s EXCEPT !.candidate = NoCandidate, !.pending = NoPending]
<1>1. CASE ~Changed(p, obs, s.last.obs)
  <2>1. r = Quiet(none)
    BY <1>1 DEF OfferDebounced
  <2>2. none.pending = NoPending /\ none.candidate = NoCandidate
    BY DEF State
  <2>3. none.last = s.last /\ none.last_published = s.last_published /\ SameRest(none, s)
    BY DEF SameRest, State
  <2> HIDE DEF none
  <2>4. Silent(r, s) /\ r.s = none
    BY <2>1, <2>3 DEF Quiet, Silent
  <2> QED
    BY <1>1, <2>2, <2>4
<1>2. CASE Changed(p, obs, s.last.obs) /\ ~Joins(p, s, obs)
  <2>1. r = Quiet(started)
    BY <1>2 DEF OfferDebounced, Joins
  <2>2. /\ Silent(r, s) /\ r.s.pending = s.pending
        /\ r.s.candidate = [first |-> obs, since |-> t, latest |-> item, latest_obs |-> obs]
    BY <2>1 DEF Quiet, Silent, SameRest, State
  <2> QED
    BY <1>2, <2>2
<1>3. CASE Changed(p, obs, s.last.obs) /\ Joins(p, s, obs) /\ Since(t, s.candidate.since) < p.debounce
  <2>1. r = Quiet(joined)
    BY <1>3 DEF OfferDebounced, Joins
  <2>2. joined.pending = s.pending
    BY DEF State
  <2>3. joined.candidate = [s.candidate EXCEPT !.latest = item, !.latest_obs = obs]
    BY DEF State
  <2>4. joined.last = s.last /\ joined.last_published = s.last_published /\ SameRest(joined, s)
    BY DEF SameRest, State
  <2> HIDE DEF joined
  <2>5. Silent(r, s) /\ r.s = joined
    BY <2>1, <2>4 DEF Quiet, Silent
  <2> QED
    BY <1>3, <2>2, <2>3, <2>5
<1>4. CASE Changed(p, obs, s.last.obs) /\ Joins(p, s, obs) /\ ~(Since(t, s.candidate.since) < p.debounce)
  <2>1. r = OfferSettled(p, settled, item, obs, quality, t)
    BY <1>4 DEF OfferDebounced, Joins
  <2>2. settled \in State /\ settled.last = s.last /\ settled.candidate = NoCandidate
    BY NoObsType DEF State, NoCandidate
  <2>3. SameRest(settled, s) /\ settled.last_published = s.last_published
    BY DEF SameRest, State
  <2> HIDE DEF settled
  <2>4. \/ /\ TooSoon(p, settled, t) /\ Silent(r, settled)
           /\ r.s.pending = [item |-> item, obs |-> obs] /\ r.s.candidate = settled.candidate
        \/ ~TooSoon(p, settled, t) /\ Shown(r, settled, item, obs, quality, t)
    <3>1. Changed(p, obs, settled.last.obs)
      BY <1>4, <2>2
    <3>2. SettledResult(p, settled, item, obs, quality, t, r)
      BY <2>1, <2>2, OfferSettledDoes
    <3> QED
      BY <3>1, <3>2 DEF SettledResult
  <2>5. /\ TooSoon(p, settled, t) = TooSoon(p, s, t)
        /\ Shown(r, settled, item, obs, quality, t) => Shown(r, s, item, obs, quality, t)
        /\ Silent(r, settled) => Silent(r, s)
    BY <2>2, <2>3, HeldAside
  <2> QED
    BY <1>4, <2>2, <2>4, <2>5
<1> QED
  BY <1>1, <1>2, <1>3, <1>4

\* The heartbeat of offer_at() is due.
Heartbeat(p, s, t) == p.max_interval > 0 /\ SincePublished(s, t) >= p.max_interval

\* offer_at() is silent or shows the reading offered; one that is neither the first nor
\* of a new quality nor a heartbeat keeps the rate limit.
LEMMA OfferAtLimited ==
    ASSUME NEW p, NEW s \in State, NEW item \in Nat, NEW obs \in Obs,
           NEW quality \in Quality, NEW t \in Nat, NEW r,
           r = OfferAt(p, s, item, obs, quality, t)
    PROVE  \/ Silent(r, s)
           \/ /\ Shown(r, s, item, obs, quality, t)
              /\ \/ ~HasLast(s) \/ s.last.quality # quality
                 \/ Heartbeat(p, s, t) \/ ~TooSoon(p, s, t)
<1>1. CASE ~HasLast(s) \/ s.last.quality # quality \/ Heartbeat(p, s, t)
  <2>1. r = Publish(s, item, obs, quality, t)
    BY <1>1 DEF OfferAt, Heartbeat
  <2> QED
    BY <1>1, <2>1, PublishShows
<1>2. CASE ~(~HasLast(s) \/ s.last.quality # quality \/ Heartbeat(p, s, t)) /\ p.debounce > 0
  <2>1. r = OfferDebounced(p, s, item, obs, quality, t)
    BY <1>2 DEF OfferAt, Heartbeat
  <2>2. p.debounce > 0
    BY <1>2
  <2>3. DebouncedResult(p, s, item, obs, quality, t, r)
    BY <2>1, <2>2, OfferDebouncedDoes
  <2> QED
    BY <2>3 DEF DebouncedResult
<1>3. CASE ~(~HasLast(s) \/ s.last.quality # quality \/ Heartbeat(p, s, t)) /\ ~(p.debounce > 0)
  <2>1. r = OfferSettled(p, s, item, obs, quality, t)
    BY <1>3 DEF OfferAt, Heartbeat
  <2>2. SettledResult(p, s, item, obs, quality, t, r)
    BY <2>1, OfferSettledDoes
  <2> QED
    BY <2>2 DEF SettledResult
<1> QED
  BY <1>1, <1>2, <1>3

\* A candidate has settled by time t.
Ripe(p, s, t) ==
    p.debounce > 0 /\ HasCandidate(s) /\ Since(t, s.candidate.since) >= p.debounce

\* publish_if_changed() would publish an observation.
IsNews(p, s, obs) == HasLast(s) /\ (FiltersChanges(p) => Changed(p, obs, s.last.obs))

\* The release of a settled reading: it stays, it is held for the rate limit, it is
\* published, or it turns out to be no change.
CandidateResult(p, s, t, r) ==
    \/ /\ ~Ripe(p, s, t) /\ Silent(r, s)
       /\ r.s.pending = s.pending /\ r.s.candidate = s.candidate
    \/ /\ Ripe(p, s, t) /\ TooSoon(p, s, t) /\ Silent(r, s)
       /\ r.s.pending = [item |-> s.candidate.latest, obs |-> s.candidate.latest_obs]
       /\ r.s.candidate = NoCandidate
    \/ /\ Ripe(p, s, t) /\ ~TooSoon(p, s, t) /\ IsNews(p, s, s.candidate.latest_obs)
       /\ Shown(r, s, s.candidate.latest, s.candidate.latest_obs, s.last.quality, t)
    \/ /\ Ripe(p, s, t) /\ ~TooSoon(p, s, t) /\ ~IsNews(p, s, s.candidate.latest_obs)
       /\ Silent(r, s) /\ r.s.pending = s.pending /\ r.s.candidate = NoCandidate

\* That is what it does.
LEMMA ReleaseCandidateDoes ==
    ASSUME NEW p, NEW s \in State, NEW t \in Nat, NEW r, r = ReleaseCandidate(p, s, t)
    PROVE  CandidateResult(p, s, t, r)
<1> USE DEF CandidateResult
<1> DEFINE c == s.candidate
           taken == [s EXCEPT !.candidate = NoCandidate]
           held == [taken EXCEPT !.pending = [item |-> c.latest, obs |-> c.latest_obs]]
<1>1. CASE ~Ripe(p, s, t)
  <2>1. r = Quiet(s)
    BY <1>1 DEF ReleaseCandidate, Ripe
  <2> QED
    BY <1>1, <2>1 DEF Quiet, Silent, SameRest
<1>2. CASE Ripe(p, s, t) /\ TooSoon(p, s, t)
  <2>1. r = Quiet(held)
    BY <1>2 DEF ReleaseCandidate, Ripe
  <2>2. held.pending = [item |-> c.latest, obs |-> c.latest_obs] /\ held.candidate = NoCandidate
    BY DEF State
  <2>3. held.last = s.last /\ held.last_published = s.last_published /\ SameRest(held, s)
    BY DEF SameRest, State
  <2> HIDE DEF held
  <2>4. Silent(r, s) /\ r.s = held
    BY <2>1, <2>3 DEF Quiet, Silent
  <2> QED
    BY <1>2, <2>2, <2>4
<1>3. taken \in State
  BY NoObsType DEF State, NoCandidate
<1>4. taken.last = s.last /\ taken.last_published = s.last_published /\ SameRest(taken, s)
  BY DEF SameRest, State
<1>5. taken.pending = s.pending /\ taken.candidate = NoCandidate
  BY DEF State
<1> HIDE DEF taken
<1>6. HasLast(taken) = HasLast(s)
  BY <1>4 DEF HasLast
<1>7. CASE Ripe(p, s, t) /\ ~TooSoon(p, s, t) /\ IsNews(p, s, c.latest_obs)
  <2>1. r = PublishIfChanged(p, taken, c.latest, c.latest_obs, t)
    BY <1>7 DEF ReleaseCandidate, Ripe, taken
  <2>2. r = Publish(taken, c.latest, c.latest_obs, s.last.quality, t)
    BY <1>7, <2>1, <1>4, <1>6 DEF PublishIfChanged, IsNews
  <2>3. Shown(r, taken, c.latest, c.latest_obs, s.last.quality, t)
    BY <2>2, <1>3, PublishShows
  <2>4. Shown(r, s, c.latest, c.latest_obs, s.last.quality, t)
    BY <2>3, <1>4 DEF Shown, SameRest
  <2> QED
    BY <1>7, <2>4
<1>8. CASE Ripe(p, s, t) /\ ~TooSoon(p, s, t) /\ ~IsNews(p, s, c.latest_obs)
  <2>1. r = PublishIfChanged(p, taken, c.latest, c.latest_obs, t)
    BY <1>8 DEF ReleaseCandidate, Ripe, taken
  <2>2. r = Quiet(taken)
    BY <1>8, <2>1, <1>4, <1>6 DEF PublishIfChanged, IsNews
  <2>3. Silent(r, s) /\ r.s = taken
    BY <2>2, <1>4 DEF Quiet, Silent
  <2> QED
    BY <1>8, <2>3, <1>5
<1> QED
  BY <1>1, <1>2, <1>7, <1>8

\* The interval of a held reading has ended.
Freed(p, s, t) == p.min_interval > 0 /\ HasPending(s) /\ ~TooSoon(p, s, t)

\* release(): the held reading is published, or, dropped as no change or not there,
\* leaves the turn to the settled one.
ReleaseResult(p, s, t, r) ==
    \/ /\ Freed(p, s, t) /\ IsNews(p, s, s.pending.obs)
       /\ Shown(r, s, s.pending.item, s.pending.obs, s.last.quality, t)
    \/ /\ Freed(p, s, t) /\ ~IsNews(p, s, s.pending.obs)
       /\ CandidateResult(p, [s EXCEPT !.pending = NoPending], t, r)
    \/ ~Freed(p, s, t) /\ CandidateResult(p, s, t, r)

\* That is what it does.
LEMMA ReleaseDoes ==
    ASSUME NEW p, NEW s \in State, NEW t \in Nat, NEW r, r = Release(p, s, t)
    PROVE  ReleaseResult(p, s, t, r)
<1> USE DEF ReleaseResult
<1> DEFINE taken == [s EXCEPT !.pending = NoPending]
           held == IF p.min_interval > 0 /\ HasPending(s) /\ ~TooSoon(p, s, t)
                   THEN PublishIfChanged(p, taken, s.pending.item, s.pending.obs, t)
                   ELSE Quiet(s)
<1>0. r = IF held.out # << >> THEN held ELSE ReleaseCandidate(p, held.s, t)
  BY DEF Release
<1>1. taken \in State
  BY NoObsType DEF State, NoPending
<1>2. taken.last = s.last /\ SameRest(taken, s)
  BY DEF SameRest, State
<1>3. HasLast(taken) = HasLast(s)
  BY <1>2 DEF HasLast
<1>4. CASE ~Freed(p, s, t)
  <2>1. held = Quiet(s)
    BY <1>4 DEF Freed
  <2> HIDE DEF held
  <2>2. r = ReleaseCandidate(p, s, t)
    BY <1>0, <2>1 DEF Quiet
  <2> QED
    BY <1>4, <2>2, ReleaseCandidateDoes
<1>5. CASE Freed(p, s, t) /\ IsNews(p, s, s.pending.obs)
  <2>0. held = PublishIfChanged(p, taken, s.pending.item, s.pending.obs, t)
    BY <1>5 DEF Freed
  <2> HIDE DEF held, taken
  <2>1. held = Publish(taken, s.pending.item, s.pending.obs, s.last.quality, t)
    BY <1>5, <2>0, <1>2, <1>3 DEF IsNews, PublishIfChanged
  <2>2. Shown(held, taken, s.pending.item, s.pending.obs, s.last.quality, t)
    BY <2>1, <1>1, PublishShows
  <2>3. Shown(held, s, s.pending.item, s.pending.obs, s.last.quality, t)
    BY <2>2, <1>2 DEF Shown, SameRest
  <2>4. held.out # << >>
    BY <2>3 DEF Shown
  <2> QED
    BY <1>0, <1>5, <2>3, <2>4
<1>6. CASE Freed(p, s, t) /\ ~IsNews(p, s, s.pending.obs)
  <2>0. held = PublishIfChanged(p, taken, s.pending.item, s.pending.obs, t)
    BY <1>6 DEF Freed
  <2> HIDE DEF held, taken
  <2>1. held = Quiet(taken)
    BY <1>6, <2>0, <1>2, <1>3 DEF IsNews, PublishIfChanged
  <2>2. r = ReleaseCandidate(p, taken, t)
    BY <1>0, <2>1 DEF Quiet
  <2>3. CandidateResult(p, taken, t, r)
    BY <2>2, <1>1, ReleaseCandidateDoes
  <2> QED
    BY <1>6, <2>3 DEF taken
<1> QED
  BY <1>4, <1>5, <1>6

\* release() is silent or shows a reading of the last quality within the rate limit.
LEMMA ReleaseLimited ==
    ASSUME NEW p, NEW s \in State, NEW t \in Nat, NEW r, r = Release(p, s, t)
    PROVE  \/ Silent(r, s)
           \/ /\ HasLast(s) /\ ~TooSoon(p, s, t)
              /\ \E i, o : Shown(r, s, i, o, s.last.quality, t)
<1> DEFINE taken == [s EXCEPT !.pending = NoPending]
<1>1. ReleaseResult(p, s, t, r)
  BY ReleaseDoes
<1>2. CASE Freed(p, s, t) /\ IsNews(p, s, s.pending.obs)
  BY <1>1, <1>2 DEF ReleaseResult, Freed, IsNews
<1>3. CASE ~Freed(p, s, t)
  BY <1>1, <1>3 DEF ReleaseResult, CandidateResult, IsNews
<1>4. CASE Freed(p, s, t) /\ ~IsNews(p, s, s.pending.obs)
  <2>1. CandidateResult(p, taken, t, r)
    BY <1>1, <1>4 DEF ReleaseResult
  <2>2. taken \in State
    BY NoObsType DEF State, NoPending
  <2>3. taken.last = s.last /\ taken.last_published = s.last_published /\ SameRest(taken, s)
    BY DEF SameRest, State
  <2> HIDE DEF taken
  <2>4. /\ TooSoon(p, taken, t) = TooSoon(p, s, t)
        /\ HasLast(taken) = HasLast(s)
        /\ \A i, o, q : Shown(r, taken, i, o, q, t) => Shown(r, s, i, o, q, t)
        /\ Silent(r, taken) => Silent(r, s)
    BY <2>2, <2>3, HeldAside
  <2> QED
    BY <2>1, <2>3, <2>4 DEF CandidateResult, IsNews
<1> QED
  BY <1>2, <1>3, <1>4

-----------------------------------------------------------------------------
(* The rate limit on source time.  The source time of the last replayed    *)
(* publish survives the live readings between two replays.                 *)

\* A heartbeat comes after the rate limit has run out.
HeartbeatSlower == policy.min_interval > 0 /\ policy.max_interval > 0
                       => policy.max_interval > policy.min_interval

\* The state knows the source time of the last replayed publish.
SourceKept ==
    /\ rs.last_published_src = published.src
    /\ rs.clock = "replay" => rs.last_published = published.src

\* hand_over() keeps the source time in its own field.
LEMMA HandOverSource ==
    ASSUME NEW s \in State, NEW t \in Nat, NEW src \in Times,
           s.last_published_src = src, s.clock = "replay" => s.last_published = src,
           NEW live, live = IF s.clock = "replay" THEN HandOver(s, t) ELSE s
    PROVE  live \in State /\ live.clock = "runtime" /\ live.last_published_src = src
<1>1. live \in State
  BY HandOverType
<1>2. CASE s.clock = "replay"
  <2>1. HandOver(s, t).clock = "runtime"
    BY DEF HandOver, State
  <2>2. HandOver(s, t).last_published_src =
           IF s.last_published = NoTime THEN s.last_published_src ELSE s.last_published
    BY DEF HandOver, State
  <2> QED
    BY <1>1, <1>2, <2>1, <2>2
<1>3. CASE s.clock # "replay"
  BY <1>1, <1>3 DEF State
<1> QED
  BY <1>2, <1>3

\* A state that has gone over to source time, since `last' was published.
SourceResult(s, last, b) ==
    /\ b \in State /\ b.clock = "replay" /\ b.last = s.last
    /\ b.last_published = last /\ b.last_published_src = last

\* A replayed reading is measured against the source time of the last one.
LEMMA OnSourceTimeSource ==
    ASSUME NEW s \in State, NEW src \in Nat, NEW t \in Nat, NEW last \in Times,
           s.last_published_src = last, s.clock = "replay" => s.last_published = last,
           NEW b, b = OnSourceTime(s, src, t)
    PROVE  SourceResult(s, last, b)
<1>1. b \in State
  BY OnSourceTimeType
<1> DEFINE resumed == [s EXCEPT !.last_published = s.last_published_src,
                                !.candidate.since = IF HasCandidate(s) THEN src ELSE @]
           chosen == IF s.clock = "runtime" THEN resumed ELSE s
<1>2. resumed \in State
  BY DEF State, Times
<1>3. /\ resumed.last = s.last /\ resumed.last_published = last
      /\ resumed.last_published_src = last
  BY DEF State
<1>4. chosen \in State /\ chosen.last = s.last /\ chosen.last_published = last
        /\ chosen.last_published_src = last
  <2> HIDE DEF resumed
  <2>1. CASE s.clock = "runtime"
    BY <2>1, <1>2, <1>3
  <2>2. CASE s.clock # "runtime"
    <3>1. s.clock = "replay"
      BY <2>2 DEF State
    <3> QED
      BY <2>2, <3>1
  <2> QED
    BY <2>1, <2>2
<1>5. b = [chosen EXCEPT !.clock = "replay", !.last_offer = t]
  BY DEF OnSourceTime
<1> HIDE DEF chosen
<1>6. /\ b.clock = "replay" /\ b.last = s.last
      /\ b.last_published = last /\ b.last_published_src = last
  BY <1>4, <1>5 DEF State
<1> QED
  BY <1>1, <1>6 DEF SourceResult

\* offer_replayed(): the state keeps the source time of what it published, and what it
\* publishes in the last quality comes min_interval after the previous one.
ReplayedResult(p, s, src, last, r) ==
    /\ r.s.clock = "replay"
    /\ r.s.last_published = (IF r.out = << >> THEN last ELSE src)
    /\ r.s.last_published_src = (IF r.out = << >> THEN last ELSE src)
    /\ r.out # << >> /\ p.min_interval > 0 /\ HasLast(s)
          /\ r.s.last.quality = s.last.quality /\ last # NoTime /\ src >= last
       => src - last >= p.min_interval

\* That is what it does.
LEMMA OfferReplayedSource ==
    ASSUME NEW p \in Policy, NEW s \in State, NEW item \in Nat, NEW obs \in Obs,
           NEW quality \in Quality, NEW src \in Nat, NEW t \in Nat, NEW last \in Times,
           s.last_published_src = last, s.clock = "replay" => s.last_published = last,
           p.min_interval > 0 /\ p.max_interval > 0 => p.max_interval > p.min_interval,
           NEW r, r = OfferReplayed(p, s, item, obs, quality, src, t)
    PROVE  ReplayedResult(p, s, src, last, r)
<1> DEFINE b == OnSourceTime(s, src, t)
<1>0. SourceResult(s, last, b)
  BY OnSourceTimeSource
<1>1. /\ b \in State /\ b.clock = "replay" /\ b.last = s.last
      /\ b.last_published = last /\ b.last_published_src = last
  BY <1>0 DEF SourceResult
<1> DEFINE held == Release(p, b, src)
           new == OfferAt(p, held.s, item, obs, quality, src)
           final == [new.s EXCEPT !.last_published_src =
                        IF new.s.last_published = NoTime THEN @
                        ELSE new.s.last_published]
<1>2. held.s \in State /\ held.out \in Seq(Nat)
  BY <1>1, ReleaseType DEF Results
<1>3. new.s \in State /\ new.out \in Seq(Nat)
  BY <1>2, OfferAtType DEF Results
<1>4. r.s = final /\ r.out = held.out \o new.out
  BY DEF OfferReplayed
<1>5. /\ final.clock = new.s.clock /\ final.last = new.s.last
      /\ final.last_published = new.s.last_published
      /\ final.last_published_src =
            IF new.s.last_published = NoTime THEN new.s.last_published_src
            ELSE new.s.last_published
  BY <1>3 DEF State
<1>6. \/ Silent(held, b)
      \/ /\ HasLast(b) /\ ~TooSoon(p, b, src)
         /\ \E i, o : Shown(held, b, i, o, b.last.quality, src)
  BY <1>1, ReleaseLimited
<1>7. \/ Silent(new, held.s)
      \/ /\ Shown(new, held.s, item, obs, quality, src)
         /\ \/ ~HasLast(held.s) \/ held.s.last.quality # quality
            \/ Heartbeat(p, held.s, src) \/ ~TooSoon(p, held.s, src)
  BY <1>2, OfferAtLimited
<1> HIDE DEF b, held, new, final
<1>8. /\ held.s.clock = "replay"
      /\ held.s.last_published_src = last
      /\ held.s.last_published = (IF held.out = << >> THEN last ELSE src)
      /\ held.s.last.quality = s.last.quality
      /\ held.s.origin = b.origin
  <2>1. CASE Silent(held, b)
    BY <1>1, <2>1 DEF Silent, SameRest
  <2>2. ASSUME NEW i, NEW o, Shown(held, b, i, o, b.last.quality, src)
        PROVE  /\ held.s.clock = "replay"
               /\ held.s.last_published_src = last
               /\ held.s.last_published = (IF held.out = << >> THEN last ELSE src)
               /\ held.s.last.quality = s.last.quality
               /\ held.s.origin = b.origin
    <3>1. held.out # << >>
      BY <2>2 DEF Shown
    <3>2. held.s.last_published = src /\ held.s.last.quality = s.last.quality
      BY <1>1, <2>2 DEF Shown
    <3>3. held.s.clock = "replay" /\ held.s.last_published_src = last /\ held.s.origin = b.origin
      BY <1>1, <2>2 DEF Shown, SameRest
    <3> QED
      BY <3>1, <3>2, <3>3
  <2> QED
    BY <1>6, <2>1, <2>2
<1>9. /\ new.s.clock = "replay"
      /\ new.s.last_published_src = last
      /\ new.s.last_published =
            (IF held.out = << >> /\ new.out = << >> THEN last ELSE src)
  <2>1. CASE Silent(new, held.s)
    BY <1>8, <2>1 DEF Silent, SameRest
  <2>2. CASE Shown(new, held.s, item, obs, quality, src)
    <3>1. new.out # << >>
      BY <2>2 DEF Shown
    <3>2. new.s.last_published = src
      BY <2>2 DEF Shown
    <3>3. new.s.clock = "replay" /\ new.s.last_published_src = last
      BY <1>8, <2>2 DEF Shown, SameRest
    <3> QED
      BY <3>1, <3>2, <3>3
  <2> QED
    BY <1>7, <2>1, <2>2
<1>10. held.out \o new.out = << >> <=> held.out = << >> /\ new.out = << >>
  BY <1>2, <1>3
<1>11. src # NoTime
  BY DEF NoTime
<1>12. ASSUME p.min_interval > 0, last # NoTime, src >= last,
              ~TooSoon(p, b, src) \/ Heartbeat(p, b, src)
       PROVE  src - last >= p.min_interval
  <2>1. SincePublished(b, src) = IF src > last THEN src - last ELSE 0
    BY <1>1, <1>12 DEF SincePublished, OrOrigin, Since
  <2>2. p.min_interval \in Nat /\ p.max_interval \in Nat /\ last \in Nat
    BY <1>12 DEF Policy, Times
  <2> QED
    BY <1>12, <2>1, <2>2 DEF TooSoon, Heartbeat
<1>13. ASSUME r.out # << >>, p.min_interval > 0, HasLast(s),
              r.s.last.quality = s.last.quality, last # NoTime, src >= last
       PROVE  src - last >= p.min_interval
  <2>1. CASE ~Silent(held, b)
    BY <1>6, <1>12, <1>13, <2>1
  <2>2. CASE Silent(held, b)
    <3>1. Shown(new, held.s, item, obs, quality, src)
      BY <1>4, <1>7, <1>10, <1>13, <2>2 DEF Silent
    <3>2. r.s.last.quality = quality /\ held.s.last = s.last
      BY <1>1, <1>4, <1>5, <2>2, <3>1 DEF Shown, Silent
    <3>3. Heartbeat(p, held.s, src) \/ ~TooSoon(p, held.s, src)
      <4>1. new.out # << >>
        BY <3>1 DEF Shown
      <4>2. ~Silent(new, held.s)
        BY <4>1 DEF Silent
      <4>3. HasLast(held.s) /\ held.s.last.quality = quality
        BY <1>13, <3>2 DEF HasLast
      <4> QED
        BY <1>7, <4>2, <4>3
    <3>4. SincePublished(held.s, src) = SincePublished(b, src)
      BY <1>1, <1>8, <2>2 DEF Silent, SincePublished, OrOrigin
    <3>5. Heartbeat(p, b, src) \/ ~TooSoon(p, b, src)
      BY <3>3, <3>4 DEF Heartbeat, TooSoon
    <3> QED
      BY <1>12, <1>13, <3>5
  <2> QED
    BY <2>1, <2>2
<1>14. r.s.clock = "replay"
  BY <1>4, <1>5, <1>9
<1>15. /\ r.s.last_published = (IF r.out = << >> THEN last ELSE src)
       /\ r.s.last_published_src = (IF r.out = << >> THEN last ELSE src)
  BY <1>4, <1>5, <1>9, <1>10, <1>11
<1> QED
  BY <1>13, <1>14, <1>15 DEF ReplayedResult

\* What ReplayRateLimited asks of a step.
ReplayInterval ==
    (out' # << >> /\ policy.min_interval > 0 /\ rs'.clock = "replay"
       /\ HasLast(rs) /\ rs'.last.quality = rs.last.quality
       /\ published.src # NoTime /\ published'.src >= published.src)
    => published'.src - published.src >= policy.min_interval

\* Every step keeps the source time, and replayed publishes keep their distance.
LEMMA SourceStep ==
    ASSUME TypeOK, HeartbeatSlower, SourceKept, [Next]_vars
    PROVE  HeartbeatSlower' /\ SourceKept' /\ [ReplayInterval]_vars
<1>0. /\ policy \in Policy /\ rs \in State /\ now \in Nat /\ newest.item \in Nat
      /\ published \in [item : Nat, at : Times, src : Times]
  BY DEF TypeOK
<1>00. /\ published.src \in Times /\ rs.last_published_src = published.src
       /\ rs.clock = "replay" => rs.last_published = published.src
  BY <1>0 DEF SourceKept
<1>1. ASSUME NEW r, r.s.clock = "runtime", r.s.last_published_src = published.src,
             Apply(r, NoTime), policy' = policy
      PROVE  HeartbeatSlower' /\ SourceKept' /\ [ReplayInterval]_vars
  <2>1. published'.src = published.src
    BY <1>1 DEF Apply
  <2>2. rs' = r.s
    BY <1>1 DEF Apply
  <2>3. SourceKept'
    BY <1>1, <2>1, <2>2 DEF SourceKept
  <2>4. ReplayInterval
    BY <1>1, <2>2 DEF ReplayInterval
  <2> QED
    BY <1>1, <2>3, <2>4 DEF HeartbeatSlower
<1>2. ASSUME NEW obs \in Observations, NEW quality \in Qualities,
             OfferReading(obs, quality)
      PROVE  HeartbeatSlower' /\ SourceKept' /\ [ReplayInterval]_vars
  <2> DEFINE live == IF rs.clock = "replay" THEN HandOver(rs, now) ELSE rs
             item == newest.item + 1
             result == OfferAt(policy, live, item, obs, quality, now)
  <2>1. live \in State /\ live.clock = "runtime" /\ live.last_published_src = published.src
    BY <1>0, <1>00, HandOverSource
  <2>2. item \in Nat /\ obs \in Obs /\ quality \in Quality
    BY <1>0, ObservationsAssumption DEF Quality
  <2>3. Apply(result, NoTime) /\ policy' = policy
    BY <1>2 DEF OfferReading, Offer
  <2> HIDE DEF live, item
  <2>4. \/ Silent(result, live)
        \/ Shown(result, live, item, obs, quality, now)
    BY <1>0, <2>1, <2>2, OfferAtLimited
  <2> HIDE DEF result
  <2>5. result.s.clock = "runtime" /\ result.s.last_published_src = published.src
    BY <2>1, <2>4 DEF Silent, Shown, SameRest
  <2> QED
    BY <1>1, <2>3, <2>5
<1>3. ASSUME NEW obs \in Observations, NEW quality \in Qualities,
             NEW src \in Epoch .. Epoch + MaxSource,
             OfferReplayedReading(obs, quality, src)
      PROVE  HeartbeatSlower' /\ SourceKept' /\ [ReplayInterval]_vars
  <2> DEFINE item == newest.item + 1
             r == OfferReplayed(policy, rs, item, obs, quality, src, now)
             last == published.src
  <2>1. item \in Nat /\ obs \in Obs /\ quality \in Quality /\ src \in Nat
    BY <1>0, ObservationsAssumption, BoundsAssumption DEF Quality
  <2>2. Apply(r, src) /\ policy' = policy
    BY <1>3 DEF OfferReplayedReading
  <2> HIDE DEF item
  <2>3. ReplayedResult(policy, rs, src, last, r)
    <3>1. policy.min_interval > 0 /\ policy.max_interval > 0
             => policy.max_interval > policy.min_interval
      BY DEF HeartbeatSlower
    <3>2. last \in Times /\ rs.last_published_src = last
            /\ (rs.clock = "replay" => rs.last_published = last)
      BY <1>00
    <3>3. r = OfferReplayed(policy, rs, item, obs, quality, src, now)
      OBVIOUS
    <3> HIDE DEF r, last
    <3> QED
      BY <1>0, <2>1, <3>1, <3>2, <3>3, OfferReplayedSource
  <2> HIDE DEF r
  <2>4. published'.src = (IF r.out = << >> THEN last ELSE src) /\ rs' = r.s /\ out' = r.out
    <3>1. src # NoTime
      BY <2>1 DEF NoTime
    <3>2. CASE r.out = << >>
      BY <2>2, <3>2 DEF Apply
    <3>3. CASE r.out # << >>
      BY <2>2, <3>1, <3>3 DEF Apply
    <3> QED
      BY <3>2, <3>3
  <2>5. SourceKept'
    BY <2>3, <2>4 DEF SourceKept, ReplayedResult
  <2>6. ReplayInterval
    BY <2>3, <2>4 DEF ReplayInterval, ReplayedResult
  <2> QED
    BY <2>2, <2>5, <2>6 DEF HeartbeatSlower
<1>4. CASE DuePass
  <2> DEFINE live == IF rs.clock = "replay" THEN HandOver(rs, now) ELSE rs
             released == Release(policy, live, now)
             result == Due(policy, rs, Pushed, now)
             replaying == rs.clock = "replay" /\ Since(now, rs.last_offer) < ReplayIdle
  <2>1. live \in State /\ live.clock = "runtime" /\ live.last_published_src = published.src
    BY <1>0, <1>00, HandOverSource
  <2>2. released.s \in State
    BY <1>0, <2>1, ReleaseType DEF Results
  <2>3. \/ Silent(released, live)
        \/ \E i, o : Shown(released, live, i, o, live.last.quality, now)
    BY <1>0, <2>1, ReleaseLimited
  <2>4. Apply(result, NoTime) /\ policy' = policy
    BY <1>4 DEF DuePass
  <2>5. CASE replaying
    <3>1. result.s = rs /\ result.out = << >>
      BY <2>5 DEF Due
    <3> HIDE DEF result
    <3>2. rs' = rs /\ out' = << >> /\ published' = published
      BY <2>4, <3>1 DEF Apply
    <3> QED
      BY <2>4, <3>2 DEF HeartbeatSlower, SourceKept, ReplayInterval
  <2>6. CASE ~replaying
    <3>1. \/ result.s = released.s
          \/ result.s = [released.s EXCEPT !.last_read = now]
      BY <2>6 DEF Due
    <3> HIDE DEF result, released
    <3>2. result.s.clock = released.s.clock
            /\ result.s.last_published_src = released.s.last_published_src
      BY <2>2, <3>1 DEF State
    <3>3. released.s.clock = "runtime" /\ released.s.last_published_src = published.src
      <4>1. CASE Silent(released, live)
        BY <2>1, <4>1 DEF Silent, SameRest
      <4>2. ASSUME NEW i, NEW o, Shown(released, live, i, o, live.last.quality, now)
            PROVE  /\ released.s.clock = "runtime"
                   /\ released.s.last_published_src = published.src
        BY <2>1, <4>2 DEF Shown, SameRest
      <4> QED
        BY <2>3, <4>1, <4>2
    <3> QED
      BY <1>1, <2>4, <3>2, <3>3
  <2> QED
    BY <2>5, <2>6
<1>5. CASE NoData
  <2>1. /\ rs'.clock = rs.clock /\ rs'.last_published = rs.last_published
        /\ rs'.last_published_src = rs.last_published_src
    BY <1>0, <1>5 DEF NoData, State
  <2>2. out' = << >> /\ published' = published /\ policy' = policy
    BY <1>5 DEF NoData, history
  <2> QED
    BY <2>1, <2>2 DEF HeartbeatSlower, SourceKept, ReplayInterval
<1>6. CASE Reset
  <2>1. rs'.clock = "runtime" /\ rs'.last_published_src = NoTime
    BY <1>6 DEF Reset, New
  <2>2. out' = << >> /\ published'.src = NoTime /\ policy' = policy
    BY <1>0, <1>6 DEF Reset
  <2> QED
    BY <2>1, <2>2 DEF HeartbeatSlower, SourceKept, ReplayInterval
<1>7. CASE Tick
  BY <1>7 DEF Tick, history, HeartbeatSlower, SourceKept, ReplayInterval
<1>8. CASE UNCHANGED vars
  BY <1>8 DEF vars, HeartbeatSlower, SourceKept
<1> QED
  BY <1>2, <1>3, <1>4, <1>5, <1>6, <1>7, <1>8 DEF Next, Step

\* The configured policies the code runs have a heartbeat slower than the rate limit.
LEMMA EffectiveSlower ==
    ASSUME NEW p \in Policy
    PROVE  Effective(p).min_interval > 0 /\ Effective(p).max_interval > 0
              => Effective(p).max_interval > Effective(p).min_interval
<1>1. p.min_interval \in Nat /\ p.max_interval \in Nat
  BY DEF Policy
<1>2. CASE p.min_interval > 0 /\ p.max_interval > 0 /\ p.max_interval <= p.min_interval
  <2>1. Effective(p).min_interval = p.min_interval
          /\ Effective(p).max_interval = 2 * p.min_interval
    BY <1>2 DEF Effective, Policy
  <2> QED
    BY <1>1, <1>2, <2>1
<1>3. CASE ~(p.min_interval > 0 /\ p.max_interval > 0 /\ p.max_interval <= p.min_interval)
  <2>1. Effective(p) = p
    BY <1>3 DEF Effective
  <2> QED
    BY <1>1, <1>3, <2>1
<1> QED
  BY <1>2, <1>3

\* The rate limit on source time, for every policy and every mix of replays, live
\* readings, passes and resets: two replayed publishes of one quality are min_interval
\* apart in the history they come from, also when live readings were published between
\* the two replays (offer_replayed, hand_over).
THEOREM ReplayLimited == Spec => ReplayRateLimited
<1>1. Init => HeartbeatSlower /\ SourceKept
  <2>1. Init => HeartbeatSlower
    BY EffectiveSlower, PoliciesAssumption DEF Init, HeartbeatSlower
  <2>2. Init => SourceKept
    BY DEF Init, New, SourceKept
  <2> QED
    BY <2>1, <2>2
<1>2. TypeOK /\ HeartbeatSlower /\ SourceKept /\ [Next]_vars
        => HeartbeatSlower' /\ SourceKept' /\ [ReplayInterval]_vars
  BY SourceStep
<1> QED
  BY <1>1, <1>2, Types, PTL DEF Spec, ReplayRateLimited, ReplayInterval

-----------------------------------------------------------------------------
(* The live policy: the readings of a point on the runtime clock, under    *)
(* policies that hold a change back or let it settle, but not both.        *)

\* No policy calls an observation a change from itself.
LEMMA NoSelfChange ==
    ASSUME NEW p \in Policy, NEW obs \in Obs
    PROVE  ~Changed(p, obs, obs)
<1>1. obs.value \in Int
  BY DEF Obs
<1>2. ~NumberChanged(p, obs.value, obs.value)
  <2>1. p.deadband \in Deadbands
    BY DEF Policy
  <2>2. p.deadband.kind = "off" \/ p.deadband.amount \in Nat \ {0}
    BY <2>1 DEF Deadbands
  <2>3. Abs(obs.value - obs.value) = 0
    BY <1>1 DEF Abs
  <2>4. CASE p.deadband.kind = "absolute"
    BY <2>2, <2>3, <2>4 DEF NumberChanged
  <2>5. CASE p.deadband.kind = "percent" /\ obs.value = 0
    BY <2>3, <2>5 DEF NumberChanged
  <2>6. CASE p.deadband.kind = "percent" /\ obs.value # 0
    <3> DEFINE a == p.deadband.amount
               b == Abs(obs.value)
    <3>1. a \in Nat /\ a > 0 /\ b \in Nat /\ b > 0
      BY <1>1, <2>2, <2>6 DEF Abs
    <3>2. NumberChanged(p, obs.value, obs.value) => 100 * 0 >= a * b
      BY <2>3, <2>6 DEF NumberChanged
    <3> HIDE DEF a, b
    <3>3. a * b > 0
      BY <3>1
    <3>4. a * b \in Int
      BY <3>1
    <3>5. ~(100 * 0 >= a * b)
      BY <3>3, <3>4
    <3> QED
      BY <3>2, <3>5
  <2>7. CASE p.deadband.kind \notin {"absolute", "percent"}
    BY <2>3, <2>7 DEF NumberChanged
  <2> QED
    BY <2>4, <2>5, <2>6, <2>7
<1> QED
  BY <1>2 DEF Changed

\* The state s of a point whose newest reading is n and whose steady readings are st.
\* A held reading and a settling one are the newest, and news is one of them.
Current(p, s, n, st) ==
    /\ s.clock = "runtime" /\ s.origin = 0
    /\ HasLast(s) <=> n.item > 0
    /\ HasLast(s) => s.last.quality = n.quality
    /\ n.item > 0 /\ Changed(p, n.obs, s.last.obs)
          => HasPending(s) \/ HasCandidate(s)
    /\ HasPending(s) =>
          p.min_interval > 0 /\ s.pending.item = n.item /\ s.pending.obs = n.obs
    /\ HasCandidate(s) =>
          /\ p.debounce > 0 /\ s.candidate.latest = n.item /\ s.candidate.latest_obs = n.obs
          /\ [first |-> s.candidate.first, since |-> s.candidate.since] \in st

\* A policy holds a change back or lets it settle, but not both.
OneDelay(p) == p.min_interval = 0 \/ p.debounce = 0

Reading == [item : Nat, obs : Obs, quality : Quality]

\* Publishing the newest reading leaves nothing held and nothing to tell.
LEMMA ShownCurrent ==
    ASSUME NEW p \in Policy, NEW s, NEW n \in Reading, NEW st, NEW t, NEW r,
           Shown(r, s, n.item, n.obs, n.quality, t), n.item > 0, n.quality # "none",
           s.clock = "runtime", s.origin = 0
    PROVE  Current(p, r.s, n, st) /\ r.out # << >>
<1>1. r.out # << >>
  BY DEF Shown
<1>2. r.s.clock = "runtime" /\ r.s.origin = 0
  BY DEF Shown, SameRest
<1>3. r.s.last.obs = n.obs /\ r.s.last.quality = n.quality
  BY DEF Shown
<1>4. ~HasPending(r.s) /\ ~HasCandidate(r.s)
  BY DEF Shown, HasPending, HasCandidate, NoPending, NoCandidate
<1>5. ~Changed(p, n.obs, n.obs)
  BY NoSelfChange DEF Reading
<1> QED
  BY <1>1, <1>2, <1>3, <1>4, <1>5 DEF Current, HasLast

\* What a step that published something as a change has waited for.
SettledBy(p, t, st) == \E x \in st : Since(t, x.since) >= p.debounce

\* offer_at() on the runtime clock keeps what is held current, and with a debounce it
\* publishes only what has settled.
OfferedResult(p, s, n, st, t, r) ==
    /\ Current(p, r.s, n, st)
    /\ r.out # << >> /\ p.debounce > 0 /\ HasLast(s) /\ s.last.quality = n.quality
          /\ ~Heartbeat(p, s, t)
       => SettledBy(p, t, st)

\* That is what it does.
LEMMA OfferAtCurrent ==
    ASSUME NEW p \in Policy, OneDelay(p), NEW s \in State, NEW n \in Reading,
           NEW st, Current(p, s, n, st), NEW m \in Reading,
           m.item > 0, m.quality # "none", NEW t \in Nat, NEW st2,
           st2 = {x \in st \union {[first |-> m.obs, since |-> t]} :
                     /\ Changed(p, m.obs, s.last.obs)
                     /\ ~Changed(p, m.obs, x.first)},
           NEW r, r = OfferAt(p, s, m.item, m.obs, m.quality, t)
    PROVE  OfferedResult(p, s, m, st2, t, r)
<1> DEFINE i == m.item
           o == m.obs
           q == m.quality
<1>0. i \in Nat /\ o \in Obs /\ q \in Quality
  BY DEF Reading
<1>1. s.clock = "runtime" /\ s.origin = 0
  BY DEF Current
<1>2. CASE ~HasLast(s) \/ s.last.quality # q \/ Heartbeat(p, s, t)
  <2>1. r = Publish(s, i, o, q, t)
    BY <1>2 DEF OfferAt, Heartbeat
  <2>2. Shown(r, s, i, o, q, t)
    BY <2>1, PublishShows
  <2>3. Current(p, r.s, m, st2)
    BY <1>1, <2>2, ShownCurrent
  <2> QED
    BY <1>2, <2>3 DEF OfferedResult
<1>3. ASSUME HasLast(s), s.last.quality = q, Silent(r, s)
      PROVE  /\ r.out = << >> /\ r.s.clock = "runtime" /\ r.s.origin = 0
             /\ r.s.last = s.last /\ HasLast(r.s) /\ r.s.last.quality = q
  BY <1>1, <1>3 DEF Silent, SameRest, HasLast
<1>4. CASE HasLast(s) /\ s.last.quality = q /\ ~Heartbeat(p, s, t) /\ p.debounce > 0
  <2>0. p.debounce > 0 /\ ~TooSoon(p, s, t) /\ ~HasPending(s)
    <3>1. p.debounce > 0 /\ p.debounce \in Nat
      BY <1>4 DEF Policy
    <3>2. p.min_interval = 0
      BY <3>1 DEF OneDelay
    <3> QED
      BY <3>1, <3>2 DEF TooSoon, Current
  <2>1. r = OfferDebounced(p, s, i, o, q, t)
    BY <1>4 DEF OfferAt, Heartbeat
  <2>2. DebouncedResult(p, s, i, o, q, t, r)
    BY <1>0, <2>0, <2>1, OfferDebouncedDoes
  <2>3. CASE /\ ~Changed(p, o, s.last.obs) /\ Silent(r, s)
             /\ r.s.pending = NoPending /\ r.s.candidate = NoCandidate
    <3>1. ~HasPending(r.s) /\ ~HasCandidate(r.s)
      BY <2>3 DEF HasPending, HasCandidate, NoPending, NoCandidate
    <3>2. ~Changed(p, o, r.s.last.obs)
      BY <1>3, <1>4, <2>3
    <3> QED
      BY <1>3, <1>4, <2>3, <3>1, <3>2 DEF OfferedResult, Current
  <2>4. CASE /\ Changed(p, o, s.last.obs) /\ Silent(r, s) /\ r.s.pending = s.pending
             /\ r.s.candidate = [first |-> o, since |-> t, latest |-> i, latest_obs |-> o]
    <3>1. /\ r.s.candidate.latest = i /\ r.s.candidate.latest_obs = o
          /\ r.s.candidate.first = o /\ r.s.candidate.since = t
      BY <2>4
    <3>2. HasCandidate(r.s) /\ ~HasPending(r.s)
      BY <2>0, <2>4, <3>1 DEF HasCandidate, HasPending
    <3>3. ~Changed(p, o, o)
      BY <1>0, NoSelfChange
    <3>4. [first |-> o, since |-> t] \in st2
      BY <2>4, <3>3
    <3> QED
      BY <1>3, <1>4, <2>0, <2>4, <3>1, <3>2, <3>4 DEF OfferedResult, Current
  <2>5. CASE /\ Changed(p, o, s.last.obs) /\ Joins(p, s, o) /\ Silent(r, s)
             /\ r.s.pending = s.pending
             /\ r.s.candidate = [s.candidate EXCEPT !.latest = i, !.latest_obs = o]
    <3>1. /\ r.s.candidate.latest = i /\ r.s.candidate.latest_obs = o
          /\ r.s.candidate.first = s.candidate.first
          /\ r.s.candidate.since = s.candidate.since
      BY <2>5 DEF State
    <3>2. HasCandidate(r.s) /\ ~HasPending(r.s)
      BY <2>0, <2>5, <3>1 DEF HasCandidate, HasPending
    <3>3. [first |-> s.candidate.first, since |-> s.candidate.since] \in st
      BY <2>5 DEF Joins, Current
    <3>4. [first |-> s.candidate.first, since |-> s.candidate.since] \in st2
      BY <2>5, <3>3 DEF Joins
    <3> QED
      BY <1>3, <1>4, <2>0, <2>5, <3>1, <3>2, <3>4 DEF OfferedResult, Current
  <2>6. CASE /\ Changed(p, o, s.last.obs) /\ Joins(p, s, o)
             /\ ~(Since(t, s.candidate.since) < p.debounce)
             /\ Shown(r, s, i, o, q, t)
    <3>1. Current(p, r.s, m, st2)
      BY <1>1, <2>6, ShownCurrent
    <3>2. [first |-> s.candidate.first, since |-> s.candidate.since] \in st
      BY <2>6 DEF Joins, Current
    <3>3. [first |-> s.candidate.first, since |-> s.candidate.since] \in st2
      BY <2>6, <3>2 DEF Joins
    <3>4. Since(t, s.candidate.since) >= p.debounce
      <4>1. s.candidate.since \in Nat /\ p.debounce \in Nat
        BY DEF State, Policy
      <4> QED
        BY <4>1, <2>6 DEF Since
    <3>5. SettledBy(p, t, st2)
      BY <3>3, <3>4 DEF SettledBy
    <3> QED
      BY <3>1, <3>5 DEF OfferedResult
  <2> QED
    BY <2>0, <2>2, <2>3, <2>4, <2>5, <2>6 DEF DebouncedResult
<1>5. CASE HasLast(s) /\ s.last.quality = q /\ ~Heartbeat(p, s, t) /\ ~(p.debounce > 0)
  <2>0. ~HasCandidate(s)
    BY <1>5 DEF Current
  <2>1. r = OfferSettled(p, s, i, o, q, t)
    BY <1>5 DEF OfferAt, Heartbeat
  <2>2. SettledResult(p, s, i, o, q, t, r)
    BY <1>0, <2>1, OfferSettledDoes
  <2>3. CASE /\ TooSoon(p, s, t) /\ Silent(r, s)
             /\ r.s.pending = [item |-> i, obs |-> o] /\ r.s.candidate = s.candidate
    <3>1. HasPending(r.s) /\ r.s.pending.item = i /\ r.s.pending.obs = o /\ ~HasCandidate(r.s)
      BY <2>0, <2>3 DEF HasPending, HasCandidate
    <3>2. p.min_interval > 0
      BY <2>3 DEF TooSoon
    <3> QED
      BY <1>3, <1>5, <2>3, <3>1, <3>2 DEF OfferedResult, Current
  <2>4. CASE /\ Silent(r, s) /\ ~Changed(p, o, s.last.obs)
             /\ r.s.pending = NoPending /\ r.s.candidate = s.candidate
    <3>1. ~HasPending(r.s) /\ ~HasCandidate(r.s)
      BY <2>0, <2>4 DEF HasPending, HasCandidate, NoPending
    <3> QED
      BY <1>3, <1>5, <2>4, <3>1 DEF OfferedResult, Current
  <2>5. CASE Shown(r, s, i, o, q, t)
    <3>1. Current(p, r.s, m, st2)
      BY <1>1, <2>5, ShownCurrent
    <3> QED
      BY <1>5, <3>1 DEF OfferedResult
  <2> QED
    BY <2>2, <2>3, <2>4, <2>5 DEF SettledResult
<1> QED
  BY <1>2, <1>4, <1>5

\* release() on the runtime clock keeps what is held current, drops no held change,
\* and without a rate limit publishes only the newest reading, once it has settled.
ReleasedResult(p, s, n, st, t, r) ==
    /\ Current(p, r.s, n, st)
    /\ HasPending(s) /\ Changed(p, s.pending.obs, s.last.obs)
          => HasPending(r.s) \/ r.out # << >>
    /\ r.out # << >> /\ p.min_interval = 0
          => r.out = <<n.item>> /\ SettledBy(p, t, st)

\* That is what it does.
LEMMA ReleaseCurrent ==
    ASSUME NEW p \in Policy, OneDelay(p), NEW s \in State, NEW n \in Reading,
           NEW st, Current(p, s, n, st), NEW t \in Nat,
           NEW r, r = Release(p, s, t)
    PROVE  ReleasedResult(p, s, n, st, t, r)
<1>1. s.clock = "runtime" /\ s.origin = 0
  BY DEF Current
<1>2. p.min_interval \in Nat /\ p.debounce \in Nat /\ n.item \in Nat
  BY DEF Policy, Reading
<1>3. ReleaseResult(p, s, t, r)
  BY ReleaseDoes
<1>4. ASSUME HasLast(s) PROVE n.item > 0 /\ s.last.quality = n.quality /\ n.quality # "none"
  BY <1>4 DEF Current, HasLast
<1>5. ASSUME HasPending(s) PROVE HasLast(s) /\ p.min_interval > 0 /\ ~(p.debounce > 0)
  <2>1. p.min_interval > 0 /\ n.item > 0
    BY <1>5 DEF Current, HasPending
  <2> QED
    BY <1>2, <2>1 DEF Current, OneDelay
<1>6. ASSUME HasCandidate(s) PROVE HasLast(s) /\ p.debounce > 0 /\ p.min_interval = 0
  <2>1. p.debounce > 0 /\ n.item > 0
    BY <1>6 DEF Current, HasCandidate
  <2> QED
    BY <1>2, <2>1 DEF Current, OneDelay
<1>7. CASE Freed(p, s, t) /\ IsNews(p, s, s.pending.obs)
  <2>1. Shown(r, s, s.pending.item, s.pending.obs, s.last.quality, t)
    BY <1>3, <1>7 DEF ReleaseResult
  <2>2. HasPending(s)
    BY <1>7 DEF Freed
  <2>3. s.pending.item = n.item /\ s.pending.obs = n.obs
    BY <2>2 DEF Current
  <2>4. Shown(r, s, n.item, n.obs, n.quality, t) /\ n.item > 0 /\ n.quality # "none"
    BY <1>4, <1>5, <2>1, <2>2, <2>3
  <2>5. Current(p, r.s, n, st) /\ r.out # << >>
    BY <1>1, <2>4, ShownCurrent
  <2> QED
    BY <1>2, <1>5, <2>2, <2>5 DEF ReleasedResult
<1>8. CASE Freed(p, s, t) /\ ~IsNews(p, s, s.pending.obs)
  <2> DEFINE taken == [s EXCEPT !.pending = NoPending]
  <2>1. CandidateResult(p, taken, t, r)
    BY <1>3, <1>8 DEF ReleaseResult
  <2>2. HasPending(s) /\ ~HasCandidate(s)
    BY <1>5, <1>6, <1>8 DEF Freed
  <2>3. taken.last = s.last /\ taken.candidate = s.candidate /\ taken.pending = NoPending
    BY DEF State
  <2>4. taken.last_published = s.last_published /\ SameRest(taken, s)
    BY DEF SameRest, State
  <2> HIDE DEF taken
  <2>5. ~Ripe(p, taken, t)
    BY <1>5, <2>2 DEF Ripe
  <2>6. Silent(r, taken) /\ r.s.pending = NoPending /\ r.s.candidate = s.candidate
    BY <2>1, <2>3, <2>5 DEF CandidateResult
  <2>7. /\ r.out = << >> /\ r.s.last = s.last
        /\ r.s.clock = "runtime" /\ r.s.origin = 0
    BY <1>1, <2>3, <2>4, <2>6 DEF Silent, SameRest
  <2>8. ~HasPending(r.s) /\ ~HasCandidate(r.s)
    BY <2>2, <2>6 DEF HasPending, HasCandidate, NoPending
  <2>9. ~Changed(p, s.pending.obs, s.last.obs) /\ s.pending.obs = n.obs
    BY <1>5, <1>8, <2>2 DEF IsNews, Current
  <2>10. HasLast(r.s) = HasLast(s)
    BY <2>7 DEF HasLast
  <2>11. Current(p, r.s, n, st)
    BY <2>7, <2>8, <2>9, <2>10 DEF Current
  <2> QED
    BY <2>7, <2>9, <2>11 DEF ReleasedResult
<1>9. CASE ~Freed(p, s, t)
  <2>1. CandidateResult(p, s, t, r)
    BY <1>3, <1>9 DEF ReleaseResult
  <2>2. ASSUME Silent(r, s)
        PROVE  /\ r.out = << >> /\ r.s.last = s.last /\ HasLast(r.s) = HasLast(s)
               /\ r.s.clock = "runtime" /\ r.s.origin = 0
    BY <1>1, <2>2 DEF Silent, SameRest, HasLast
  <2>3. CASE /\ Silent(r, s)
             /\ r.s.pending = s.pending /\ r.s.candidate = s.candidate
    <3>1. HasPending(r.s) = HasPending(s) /\ HasCandidate(r.s) = HasCandidate(s)
      BY <2>3 DEF HasPending, HasCandidate
    <3>2. Current(p, r.s, n, st)
      BY <2>2, <2>3, <3>1 DEF Current
    <3> QED
      BY <2>2, <2>3, <3>1, <3>2 DEF ReleasedResult
  <2>4. ASSUME Ripe(p, s, t)
        PROVE  /\ HasCandidate(s) /\ ~TooSoon(p, s, t) /\ ~HasPending(s)
               /\ FiltersChanges(p) /\ HasLast(s)
               /\ s.candidate.latest = n.item /\ s.candidate.latest_obs = n.obs
               /\ SettledBy(p, t, st)
    <3>1. HasCandidate(s) /\ p.debounce > 0 /\ Since(t, s.candidate.since) >= p.debounce
      BY <2>4 DEF Ripe
    <3>2. ~TooSoon(p, s, t) /\ ~HasPending(s)
      BY <1>5, <1>6, <3>1 DEF TooSoon
    <3>3. /\ s.candidate.latest = n.item /\ s.candidate.latest_obs = n.obs
          /\ [first |-> s.candidate.first, since |-> s.candidate.since] \in st
      BY <3>1 DEF Current
    <3>4. SettledBy(p, t, st)
      BY <3>1, <3>3 DEF SettledBy
    <3> QED
      BY <1>6, <3>1, <3>2, <3>3, <3>4 DEF FiltersChanges
  <2>5. CASE /\ Ripe(p, s, t) /\ IsNews(p, s, s.candidate.latest_obs)
             /\ Shown(r, s, s.candidate.latest, s.candidate.latest_obs, s.last.quality, t)
    <3>1. Shown(r, s, n.item, n.obs, n.quality, t) /\ n.item > 0 /\ n.quality # "none"
      BY <1>4, <2>4, <2>5
    <3>2. Current(p, r.s, n, st) /\ r.out # << >>
      BY <1>1, <3>1, ShownCurrent
    <3>3. r.out = <<n.item>>
      BY <3>1 DEF Shown
    <3> QED
      BY <2>4, <2>5, <3>2, <3>3 DEF ReleasedResult
  <2>6. CASE /\ Ripe(p, s, t) /\ ~IsNews(p, s, s.candidate.latest_obs)
             /\ Silent(r, s) /\ r.s.pending = s.pending /\ r.s.candidate = NoCandidate
    <3>1. ~Changed(p, n.obs, s.last.obs)
      BY <2>4, <2>6 DEF IsNews
    <3>2. ~HasPending(r.s) /\ ~HasCandidate(r.s)
      BY <2>4, <2>6 DEF HasPending, HasCandidate, NoCandidate
    <3>3. Current(p, r.s, n, st)
      BY <2>2, <2>6, <3>1, <3>2 DEF Current
    <3> QED
      BY <2>2, <2>4, <2>6, <3>3 DEF ReleasedResult
  <2> QED
    BY <2>1, <2>3, <2>4, <2>5, <2>6 DEF CandidateResult
<1> QED
  BY <1>7, <1>8, <1>9

\* The later of the last publish and the last heartbeat read.
LastHeard(s) ==
    LET shown == OrOrigin(s, s.last_published)
        asked == OrOrigin(s, s.last_read)
    IN  IF shown > asked THEN shown ELSE asked

\* The times of a state at time t: it was published at `at' and heard of at `heard'.
Clocked(s, at, heard, t) ==
    /\ s.last_published = at /\ at <= t
    /\ HasLast(s) => at # NoTime
    /\ s.last_read <= t
    /\ heard = LastHeard(s) /\ heard <= t

\* A result that shows one reading, or is silent.
AtMostOne(r, s, t) == Silent(r, s) \/ \E i, o, q : Shown(r, s, i, o, q, t)

\* Publishing is being heard of, and silence changes no time.
LEMMA ClockedOn ==
    ASSUME NEW s \in State, NEW t \in Nat, NEW at \in Times, NEW heard \in Nat,
           Clocked(s, at, heard, t), s.origin = 0,
           NEW r, AtMostOne(r, s, t)
    PROVE  Clocked(r.s, IF r.out = << >> THEN at ELSE t,
                   IF r.out = << >> THEN heard ELSE t, t)
<1>1. CASE Silent(r, s)
  <2>1. r.out = << >> /\ r.s.last_published = s.last_published
          /\ r.s.last_read = s.last_read /\ r.s.origin = s.origin /\ r.s.last = s.last
    BY <1>1 DEF Silent, SameRest
  <2> QED
    BY <2>1 DEF Clocked, LastHeard, OrOrigin, HasLast
<1>2. ASSUME NEW i, NEW o, NEW q, Shown(r, s, i, o, q, t)
      PROVE  Clocked(r.s, t, t, t) /\ r.out # << >>
  <2>1. r.out # << >>
    BY <1>2 DEF Shown
  <2>2. r.s.last_published = t /\ r.s.last_read = s.last_read /\ r.s.origin = 0
    BY <1>2 DEF Shown, SameRest
  <2>3. s.last_read \in Times /\ s.last_read <= t
    BY DEF State, Clocked
  <2>4. t # NoTime
    BY DEF NoTime
  <2>5. LastHeard(r.s) = t
    BY <2>2, <2>3, <2>4 DEF LastHeard, OrOrigin, Times, NoTime
  <2> QED
    BY <2>1, <2>2, <2>3, <2>4, <2>5 DEF Clocked
<1> QED
  BY <1>1, <1>2 DEF AtMostOne

\* A heartbeat read is being heard of.
LEMMA ClockedRead ==
    ASSUME NEW s \in State, NEW t \in Nat, NEW at \in Times, NEW heard,
           Clocked(s, at, heard, t), s.origin = 0
    PROVE  Clocked([s EXCEPT !.last_read = t], at, t, t)
<1> DEFINE a == [s EXCEPT !.last_read = t]
<1>1. /\ a.last_published = s.last_published /\ a.last_read = t
      /\ a.origin = 0 /\ a.last = s.last
  BY DEF State
<1> HIDE DEF a
<1>2. s.last_published \in Times /\ s.last_published <= t
  BY DEF State, Clocked
<1>3. LastHeard(a) = t
  BY <1>1, <1>2 DEF LastHeard, OrOrigin, Times, NoTime
<1>4. Clocked(a, at, t, t)
  BY <1>1, <1>2, <1>3 DEF Clocked, HasLast
<1> QED
  BY <1>4 DEF a

\* A live publish within the rate limit, on the times of the state.
LEMMA LimitKept ==
    ASSUME NEW p \in Policy, NEW s \in State, NEW t \in Nat, NEW at \in Times, NEW heard,
           Clocked(s, at, heard, t), at # NoTime,
           p.min_interval > 0 /\ p.max_interval > 0 => p.max_interval > p.min_interval,
           ~TooSoon(p, s, t) \/ Heartbeat(p, s, t)
    PROVE  t - at >= p.min_interval
<1>1. SincePublished(s, t) = IF t > at THEN t - at ELSE 0
  BY DEF SincePublished, OrOrigin, Since, Clocked
<1>2. p.min_interval \in Nat /\ p.max_interval \in Nat /\ at \in Nat /\ at <= t
  BY DEF Policy, Times, Clocked
<1> QED
  BY <1>1, <1>2 DEF TooSoon, Heartbeat

\* The inductive invariant of the live policy.
LiveInv ==
    /\ OneDelay(policy)
    /\ HeartbeatSlower
    /\ Current(policy, rs, newest, steady)
    /\ Clocked(rs, published.at, heardAt, now)

\* What HeldKept, RateLimited, OnlySettled and HeartbeatOnTime ask of a step.
HeldChangeKept ==
    (newest' = newest /\ HasPending(rs)
       /\ Changed(policy, rs.pending.obs, rs.last.obs))
    => HasPending(rs') \/ out' # << >>

LiveInterval ==
    (out' # << >> /\ rs'.clock = "runtime" /\ HasLast(rs)
       /\ rs'.last.quality = rs.last.quality /\ published.at # NoTime)
    => now - published.at >= policy.min_interval

SettledShown ==
    (out' # << >> /\ policy.debounce > 0 /\ policy.min_interval = 0
       /\ HasLast(rs) /\ rs'.last.quality = rs.last.quality
       /\ (policy.max_interval > 0 => now - published.at < policy.max_interval))
    => /\ out' = <<newest'.item>>
       /\ \E r \in steady' : now - r.since >= policy.debounce

HeartbeatRead ==
    DuePass /\ policy.max_interval > 0 /\ Pushed /\ ~rs.unreadable
    => (read' <=> (out' = << >> /\ now - heardAt >= policy.max_interval))

\* A reading offered on the runtime clock.
LEMMA LiveOffer ==
    ASSUME TypeOK, TypeOK', LiveInv, NEW obs \in Observations, NEW quality \in Qualities,
           OfferReading(obs, quality)
    PROVE  LiveInv' /\ HeldChangeKept /\ LiveInterval /\ SettledShown
<1> DEFINE item == newest.item + 1
           m == [item |-> item, obs |-> obs, quality |-> quality]
           r == OfferAt(policy, rs, item, obs, quality, now)
<1>1. /\ policy \in Policy /\ rs \in State /\ now \in Nat /\ heardAt \in Nat
      /\ newest \in Reading /\ published \in [item : Nat, at : Times, src : Times]
  BY DEF TypeOK, Reading, Quality
<1>2. m \in Reading /\ m.item > 0 /\ m.quality # "none"
  BY <1>1, ObservationsAssumption, QualitiesAssumption DEF Reading, Quality
<1>3. /\ OneDelay(policy) /\ HeartbeatSlower /\ Current(policy, rs, newest, steady)
      /\ Clocked(rs, published.at, heardAt, now)
      /\ rs.clock = "runtime" /\ rs.origin = 0
  BY DEF LiveInv, Current
<1>4. Offer(policy, rs, item, obs, quality, now) = r
  BY <1>3 DEF Offer
<1>5. /\ Apply(r, NoTime) /\ Observe(item, obs, quality)
      /\ heardAt' = (IF r.out = << >> THEN heardAt ELSE now)
      /\ policy' = policy /\ now' = now
  BY <1>4 DEF OfferReading
<1>6. newest' = m
  BY <1>5 DEF Observe
<1>7. steady' = {x \in steady \union {[first |-> m.obs, since |-> now]} :
                    /\ Changed(policy, m.obs, rs.last.obs)
                    /\ ~Changed(policy, m.obs, x.first)}
  BY <1>5 DEF Observe
<1>8. r = OfferAt(policy, rs, m.item, m.obs, m.quality, now)
  OBVIOUS
<1>9. item = m.item /\ obs = m.obs /\ quality = m.quality /\ item \in Nat
        /\ obs \in Obs /\ quality \in Quality /\ item # newest.item
  BY <1>1, <1>2 DEF Reading
<1> HIDE DEF m, r, item
<1>10. OfferedResult(policy, rs, m, steady', now, r)
  BY <1>1, <1>2, <1>3, <1>7, <1>8, OfferAtCurrent
<1>11. \/ Silent(r, rs)
       \/ /\ Shown(r, rs, item, obs, quality, now)
          /\ \/ ~HasLast(rs) \/ rs.last.quality # quality
             \/ Heartbeat(policy, rs, now) \/ ~TooSoon(policy, rs, now)
  BY <1>1, <1>8, <1>9, OfferAtLimited
<1>12. AtMostOne(r, rs, now)
  BY <1>11 DEF AtMostOne
<1>13. Clocked(r.s, IF r.out = << >> THEN published.at ELSE now,
               IF r.out = << >> THEN heardAt ELSE now, now)
  <2>1. published.at \in Times
    BY <1>1
  <2> QED
    BY <1>1, <1>3, <1>12, <2>1, ClockedOn
<1>14. /\ rs' = r.s /\ out' = r.out
       /\ published'.at = (IF r.out = << >> THEN published.at ELSE now)
  BY <1>5 DEF Apply
<1>15. LiveInv'
  <2>1. Clocked(rs', published'.at, heardAt', now')
    BY <1>5, <1>13, <1>14
  <2>2. Current(policy', rs', newest', steady')
    BY <1>5, <1>6, <1>10, <1>14 DEF OfferedResult
  <2>3. OneDelay(policy') /\ HeartbeatSlower'
    BY <1>3, <1>5 DEF HeartbeatSlower
  <2> QED
    BY <2>1, <2>2, <2>3 DEF LiveInv
<1>16. HeldChangeKept
  BY <1>6, <1>9 DEF HeldChangeKept
<1>17. ASSUME out' # << >>
       PROVE  /\ out' = <<item>> /\ rs'.last.quality = quality
              /\ \/ ~HasLast(rs) \/ rs.last.quality # quality
                 \/ Heartbeat(policy, rs, now) \/ ~TooSoon(policy, rs, now)
  <2>1. ~Silent(r, rs)
    BY <1>14, <1>17 DEF Silent
  <2> QED
    BY <1>11, <1>14, <2>1 DEF Shown
<1>18. LiveInterval
  <2> SUFFICES ASSUME out' # << >>, HasLast(rs), rs'.last.quality = rs.last.quality,
                      published.at # NoTime
               PROVE  now - published.at >= policy.min_interval
    BY DEF LiveInterval
  <2>1. ~TooSoon(policy, rs, now) \/ Heartbeat(policy, rs, now)
    BY <1>17
  <2>2. policy.min_interval > 0 /\ policy.max_interval > 0
           => policy.max_interval > policy.min_interval
    BY <1>3 DEF HeartbeatSlower
  <2>3. published.at \in Times
    BY <1>1
  <2> QED
    BY <1>1, <1>3, <2>1, <2>2, <2>3, LimitKept
<1>19. SettledShown
  <2> SUFFICES ASSUME out' # << >>, policy.debounce > 0, HasLast(rs),
                      rs'.last.quality = rs.last.quality,
                      policy.max_interval > 0 => now - published.at < policy.max_interval
               PROVE  /\ out' = <<newest'.item>>
                      /\ \E x \in steady' : now - x.since >= policy.debounce
    BY DEF SettledShown
  <2>1. ~Heartbeat(policy, rs, now)
    <3>1. published.at # NoTime /\ rs.last_published = published.at
      BY <1>3 DEF Clocked
    <3>2. SincePublished(rs, now) = IF now > published.at THEN now - published.at ELSE 0
      BY <3>1 DEF SincePublished, OrOrigin, Since
    <3>3. policy.max_interval \in Nat /\ published.at \in Int
      BY <1>1 DEF Policy, Times, NoTime
    <3> QED
      BY <1>1, <3>2, <3>3 DEF Heartbeat
  <2>2. SettledBy(policy, now, steady')
    BY <1>9, <1>10, <1>14, <1>17, <2>1 DEF OfferedResult
  <2>3. PICK x \in steady' : Since(now, x.since) >= policy.debounce
    BY <2>2 DEF SettledBy
  <2>4. x.since \in Nat /\ policy.debounce \in Nat
    BY <1>1 DEF TypeOK, Policy
  <2>5. now - x.since >= policy.debounce
    BY <1>1, <2>3, <2>4 DEF Since
  <2> QED
    BY <1>6, <1>9, <1>17, <2>5
<1> QED
  BY <1>15, <1>16, <1>18, <1>19

\* A pass over the point on the runtime clock.
LEMMA LiveDue ==
    ASSUME TypeOK, LiveInv, DuePass
    PROVE  LiveInv' /\ HeldChangeKept /\ LiveInterval /\ SettledShown /\ HeartbeatRead
<1> DEFINE r == Release(policy, rs, now)
           asked == [r.s EXCEPT !.last_read = now]
           due == Due(policy, rs, Pushed, now)
           beat == /\ policy.max_interval > 0 /\ Pushed /\ ~r.s.unreadable
                   /\ Since(now, LastHeard(r.s)) >= policy.max_interval
<1>1. /\ policy \in Policy /\ rs \in State /\ now \in Nat /\ heardAt \in Nat
      /\ newest \in Reading /\ published \in [item : Nat, at : Times, src : Times]
  BY DEF TypeOK, Reading, Quality
<1>2. /\ OneDelay(policy) /\ HeartbeatSlower /\ Current(policy, rs, newest, steady)
      /\ Clocked(rs, published.at, heardAt, now)
      /\ rs.clock = "runtime" /\ rs.origin = 0
  BY DEF LiveInv, Current
<1>3. /\ due.s = (IF beat THEN asked ELSE r.s)
      /\ due.out = r.out /\ due.read = beat
  BY <1>2 DEF Due, LastHeard
<1>4. r.s \in State
  BY <1>1, ReleaseType DEF Results
<1>5. ReleasedResult(policy, rs, newest, steady, now, r)
  BY <1>1, <1>2, ReleaseCurrent
<1>6. \/ Silent(r, rs)
      \/ /\ HasLast(rs) /\ ~TooSoon(policy, rs, now)
         /\ \E i, o : Shown(r, rs, i, o, rs.last.quality, now)
  BY <1>1, ReleaseLimited
<1>7. /\ Apply(due, NoTime) /\ read' = due.read
      /\ heardAt' = (IF due.out # << >> \/ due.read THEN now ELSE heardAt)
      /\ UNCHANGED <<policy, now, newest, steady>>
  BY DEF DuePass
<1>8. AtMostOne(r, rs, now)
  BY <1>6 DEF AtMostOne
<1>9. published.at \in Times
  BY <1>1
<1> DEFINE at == IF r.out = << >> THEN published.at ELSE now
           heard == IF r.out = << >> THEN heardAt ELSE now
<1>10. Clocked(r.s, at, heard, now)
  <2> HIDE DEF r
  <2> QED
    BY <1>1, <1>2, <1>8, <1>9, ClockedOn
<1>11. /\ asked.last = r.s.last /\ asked.clock = r.s.clock /\ asked.origin = r.s.origin
       /\ asked.pending = r.s.pending /\ asked.candidate = r.s.candidate
  BY <1>4 DEF State
<1>12. r.s.origin = 0
  BY <1>5 DEF ReleasedResult, Current
<1>13. Clocked(asked, at, now, now)
  <2>1. at \in Times
    BY <1>1, <1>9 DEF Times
  <2> HIDE DEF r, at, heard
  <2> QED
    BY <1>1, <1>4, <1>10, <1>12, <2>1, ClockedRead
<1> HIDE DEF r, asked, due, beat
<1>14. /\ rs' = due.s /\ out' = r.out /\ published'.at = at
  BY <1>3, <1>7 DEF Apply
<1>15. /\ rs'.last = r.s.last /\ rs'.clock = r.s.clock /\ rs'.origin = r.s.origin
       /\ rs'.pending = r.s.pending /\ rs'.candidate = r.s.candidate
  BY <1>3, <1>11, <1>14
<1>16. LiveInv'
  <2>1. Clocked(rs', published'.at, heardAt', now')
    <3>1. CASE beat
      BY <1>3, <1>7, <1>13, <1>14, <3>1
    <3>2. CASE ~beat
      <4>1. heardAt' = heard /\ rs' = r.s
        BY <1>3, <1>7, <1>14, <3>2
      <4> HIDE DEF at, heard
      <4> QED
        BY <1>7, <1>10, <1>14, <4>1
    <3> QED
      BY <3>1, <3>2
  <2>2. Current(policy', rs', newest', steady')
    <3>1. Current(policy, r.s, newest, steady)
      BY <1>5 DEF ReleasedResult
    <3> QED
      BY <1>7, <1>15, <3>1 DEF Current, HasLast, HasPending, HasCandidate
  <2>3. OneDelay(policy') /\ HeartbeatSlower'
    BY <1>2, <1>7 DEF HeartbeatSlower
  <2> QED
    BY <2>1, <2>2, <2>3 DEF LiveInv
<1>17. HeldChangeKept
  BY <1>5, <1>14, <1>15 DEF HeldChangeKept, ReleasedResult, HasPending
<1>18. ASSUME out' # << >> PROVE ~TooSoon(policy, rs, now) /\ HasLast(rs)
  <2>1. ~Silent(r, rs)
    BY <1>14, <1>18 DEF Silent
  <2> QED
    BY <1>6, <2>1
<1>19. LiveInterval
  <2> SUFFICES ASSUME out' # << >>, published.at # NoTime
               PROVE  now - published.at >= policy.min_interval
    BY DEF LiveInterval
  <2>1. ~TooSoon(policy, rs, now)
    BY <1>18
  <2>2. policy.min_interval > 0 /\ policy.max_interval > 0
           => policy.max_interval > policy.min_interval
    BY <1>2 DEF HeartbeatSlower
  <2> QED
    BY <1>1, <1>2, <1>9, <2>1, <2>2, LimitKept
<1>20. SettledShown
  <2> SUFFICES ASSUME out' # << >>, policy.debounce > 0, policy.min_interval = 0
               PROVE  /\ out' = <<newest'.item>>
                      /\ \E x \in steady' : now - x.since >= policy.debounce
    BY DEF SettledShown
  <2>1. out' = <<newest.item>> /\ SettledBy(policy, now, steady)
    BY <1>5, <1>14 DEF ReleasedResult
  <2>2. PICK x \in steady : Since(now, x.since) >= policy.debounce
    BY <2>1 DEF SettledBy
  <2>3. x.since \in Nat /\ policy.debounce \in Nat
    BY <1>1 DEF TypeOK, Policy
  <2>4. now - x.since >= policy.debounce
    BY <1>1, <2>2, <2>3 DEF Since
  <2> QED
    BY <1>7, <2>1, <2>2, <2>4
<1>21. HeartbeatRead
  <2> SUFFICES ASSUME policy.max_interval > 0, Pushed, ~rs.unreadable
               PROVE  read' <=> (out' = << >> /\ now - heardAt >= policy.max_interval)
    BY DEF HeartbeatRead
  <2>1. r.s.unreadable = rs.unreadable
    <3>1. CASE Silent(r, rs)
      BY <3>1 DEF Silent, SameRest
    <3>2. ASSUME NEW i, NEW o, Shown(r, rs, i, o, rs.last.quality, now)
          PROVE  r.s.unreadable = rs.unreadable
      BY <3>2 DEF Shown, SameRest
    <3> QED
      BY <1>6, <3>1, <3>2
  <2>2. LastHeard(r.s) = heard
    BY <1>10 DEF Clocked
  <2>3. read' <=> Since(now, heard) >= policy.max_interval
    <3>1. read' = beat
      BY <1>3, <1>7
    <3>2. beat <=> Since(now, heard) >= policy.max_interval
      BY <2>1, <2>2 DEF beat
    <3> QED
      BY <3>1, <3>2
  <2>4. policy.max_interval \in Nat
    BY <1>1 DEF Policy
  <2>5. CASE r.out = << >>
    <3>1. Since(now, heard) >= policy.max_interval <=> now - heardAt >= policy.max_interval
      BY <1>1, <2>4, <2>5 DEF Since
    <3> QED
      BY <1>14, <2>3, <2>5, <3>1
  <2>6. CASE r.out # << >>
    <3>1. ~(Since(now, heard) >= policy.max_interval)
      BY <1>1, <2>4, <2>6 DEF Since
    <3> QED
      BY <1>14, <2>3, <2>6, <3>1
  <2> QED
    BY <2>5, <2>6
<1> QED
  BY <1>16, <1>17, <1>19, <1>20, <1>21

\* Every step of a point that is neither replayed nor reset.
LEMMA LiveStep ==
    ASSUME ~Replays, ~Resets, TypeOK, TypeOK', LiveInv, [Next]_vars
    PROVE  /\ LiveInv'
           /\ [HeldChangeKept]_vars /\ [LiveInterval]_vars
           /\ [SettledShown]_vars /\ [HeartbeatRead]_vars
<1>0. rs \in State /\ now \in Nat
  BY DEF TypeOK
<1>1. ASSUME NEW obs \in Observations, NEW quality \in Qualities,
             OfferReading(obs, quality)
      PROVE  /\ LiveInv'
             /\ HeldChangeKept /\ LiveInterval /\ SettledShown /\ HeartbeatRead
  <2>1. LiveInv' /\ HeldChangeKept /\ LiveInterval /\ SettledShown
    BY <1>1, LiveOffer
  <2>2. newest'.item = newest.item + 1 /\ newest.item \in Nat
    BY <1>1 DEF OfferReading, Observe, TypeOK
  <2>3. ~DuePass
    BY <2>2 DEF DuePass
  <2> QED
    BY <2>1, <2>3 DEF HeartbeatRead
<1>2. CASE DuePass
  BY <1>2, LiveDue
<1>3. ASSUME out' = << >>, rs'.pending = rs.pending, read' = FALSE,
             ~DuePass
      PROVE  HeldChangeKept /\ LiveInterval /\ SettledShown /\ HeartbeatRead
  BY <1>3 DEF HeldChangeKept, LiveInterval, SettledShown, HeartbeatRead, HasPending
<1>4. CASE NoData
  <2>1. /\ rs'.last = rs.last /\ rs'.clock = rs.clock /\ rs'.origin = rs.origin
        /\ rs'.pending = rs.pending /\ rs'.candidate = rs.candidate
        /\ rs'.last_published = rs.last_published /\ rs'.last_read = rs.last_read
    BY <1>0, <1>4 DEF NoData, State
  <2>2. out' = << >> /\ UNCHANGED <<policy, now, newest, steady, published, heardAt>>
          /\ read' = FALSE
    BY <1>4 DEF NoData, history
  <2>3. LiveInv'
    <3>1. Current(policy, rs, newest, steady)'
      BY <2>1, <2>2 DEF LiveInv, Current, HasLast, HasPending, HasCandidate
    <3>2. Clocked(rs, published.at, heardAt, now)'
      BY <2>1, <2>2 DEF LiveInv, Clocked, LastHeard, OrOrigin, HasLast
    <3> QED
      BY <2>2, <3>1, <3>2 DEF LiveInv, OneDelay, HeartbeatSlower
  <2>4. HeldChangeKept /\ LiveInterval /\ SettledShown
    BY <2>1, <2>2 DEF HeldChangeKept, LiveInterval, SettledShown, HasPending
  <2>5. HeartbeatRead
    <3>1. CASE DuePass
      BY <3>1, LiveDue
    <3>2. CASE ~DuePass
      BY <3>2 DEF HeartbeatRead
    <3> QED
      BY <3>1, <3>2
  <2> QED
    BY <2>3, <2>4, <2>5
<1>5. CASE Tick
  <2>1. /\ rs' = rs /\ out' = << >> /\ now' = now + 1 /\ read' = FALSE
        /\ UNCHANGED <<policy, newest, steady, published, heardAt>>
    BY <1>5 DEF Tick, history
  <2>2. LiveInv'
    <3>1. Current(policy, rs, newest, steady)'
      BY <2>1 DEF LiveInv
    <3>2. published.at \in Int /\ rs.last_read \in Int /\ heardAt \in Int
      <4>1. published.at \in Times /\ rs.last_read \in Times /\ heardAt \in Nat
        BY DEF TypeOK, State
      <4> QED
        BY <4>1 DEF Times, NoTime
    <3>3. Clocked(rs, published.at, heardAt, now)'
      BY <1>0, <2>1, <3>2 DEF LiveInv, Clocked
    <3> QED
      BY <2>1, <3>1, <3>3 DEF LiveInv, OneDelay, HeartbeatSlower
  <2>3. ~DuePass
    BY <1>0, <2>1 DEF DuePass
  <2>4. rs'.pending = rs.pending
    BY <2>1
  <2> QED
    BY <1>3, <2>1, <2>2, <2>3, <2>4
<1>6. CASE UNCHANGED vars
  <2>1. UNCHANGED <<policy, rs, now, newest, steady, published, heardAt>>
    BY <1>6 DEF vars
  <2>2. LiveInv'
    BY <2>1 DEF LiveInv, OneDelay, HeartbeatSlower
  <2> QED
    BY <1>6, <2>2
<1> QED
  BY <1>1, <1>2, <1>4, <1>5, <1>6 DEF Next, Step, OfferReplayedReading, Reset

\* The live policy of a point that is neither replayed nor reset, for every set of
\* policies that hold a change back or let it settle but not both, every observation,
\* quality and order of readings and passes: news is kept until it is published, a held
\* change is never dropped, publishes keep min_interval, a debounced reading has settled,
\* and the heartbeat read of a pushed point comes on time.
THEOREM LivePolicyKept ==
    ASSUME ~Replays, ~Resets, \A p \in Policies : p.min_interval = 0 \/ p.debounce = 0
    PROVE  Spec => PolicyKept
<1>1. Init => LiveInv
  <2> SUFFICES ASSUME Init PROVE LiveInv
    OBVIOUS
  <2>1. PICK p \in Policies : policy = Effective(p)
    BY DEF Init
  <2>2. p \in Policy
    BY PoliciesAssumption
  <2>3. policy.min_interval = p.min_interval /\ policy.debounce = p.debounce
    BY <2>1, <2>2 DEF Effective, Policy
  <2>4. OneDelay(policy) /\ HeartbeatSlower
    BY <2>1, <2>2, <2>3, EffectiveSlower DEF OneDelay, HeartbeatSlower
  <2>5. /\ rs.clock = "runtime" /\ rs.origin = 0 /\ rs.last_published = NoTime
        /\ rs.last_read = NoTime /\ ~HasLast(rs) /\ ~HasPending(rs) /\ ~HasCandidate(rs)
    BY DEF Init, New, NoLast, NoPending, NoCandidate, HasLast, HasPending, HasCandidate
  <2>6. Current(policy, rs, newest, steady)
    BY <2>5 DEF Init, NoReading, Current
  <2>7. published.at = NoTime /\ now = 0 /\ heardAt = 0
    BY DEF Init
  <2>8. Clocked(rs, published.at, heardAt, now)
    BY <2>5, <2>7 DEF Clocked, LastHeard, OrOrigin, NoTime
  <2> QED
    BY <2>4, <2>6, <2>8 DEF LiveInv
<1>2. TypeOK /\ TypeOK' /\ LiveInv /\ [Next]_vars
        => /\ LiveInv'
           /\ [HeldChangeKept]_vars /\ [LiveInterval]_vars
           /\ [SettledShown]_vars /\ [HeartbeatRead]_vars
  BY LiveStep
<1>3. TypeOK /\ LiveInv => NewsKept
  <2> SUFFICES ASSUME TypeOK, LiveInv PROVE NewsKept
    OBVIOUS
  <2>1. Current(policy, rs, newest, steady)
    BY DEF LiveInv
  <2> QED
    BY <2>1 DEF Current, NewsKept
<1>4. Spec => []NewsKept /\ [][HeldChangeKept]_vars /\ [][LiveInterval]_vars
                /\ [][SettledShown]_vars /\ [][HeartbeatRead]_vars
  BY <1>1, <1>2, <1>3, Types, PTL DEF Spec
<1> QED
  BY <1>4 DEF PolicyKept, HeldKept, RateLimited, OnlySettled, HeartbeatOnTime,
              HeldChangeKept, LiveInterval, SettledShown, HeartbeatRead
=============================================================================
