---------------------------- MODULE BudgetsProofs ----------------------------
(***************************************************************************)
(* Proofs about Budgets for every set of devices and endpoints and every   *)
(* budget: the limits are kept, and no wake-up is lost.                    *)
(***************************************************************************)
EXTENDS Budgets, FiniteSetTheorems, TLAPS

\* What a limit can be: at least 1, and never past the configured budget.
Limited == \A b \in Budget : limit[b] <= Configured(b)

\* The places of a read that has a notification to send.
Notifying == {"undo_notify", "raised", "endpoint_notify", "total_notify"}

IInv == TypeOK /\ Limited /\ WithinBudget /\ NoLostWakeup

\* Every device has an endpoint, which is a budget and not the total.
LEMMA EndpointIsBudget ==
    ASSUME NEW d \in Device
    PROVE  EndpointOf[d] \in Budget /\ EndpointOf[d] # "total" /\ "total" \in Budget
  BY EndpointAssumption DEF Budget

\* The budgets start free and within their limits.
LEMMA Initially == Init => IInv
<1> SUFFICES ASSUME Init PROVE IInv
  OBVIOUS
<1> USE DEF Init
<1>1. \A b \in Budget : Configured(b) \in Nat \ {0}
  BY ConfiguredAssumption
<1> HIDE DEF Configured
<1>2. TypeOK
  BY <1>1, EndpointAssumption, NumberAssumption DEF TypeOK, Places, Budget
<1>3. Limited /\ WithinBudget
  BY <1>1 DEF Limited, WithinBudget
<1>4. NoLostWakeup
  BY DEF NoLostWakeup
<1> QED
  BY <1>2, <1>3, <1>4 DEF IInv

\* Every step keeps the budgets and the reads well formed, every limit at least 1.
LEMMA TypeStep == TypeOK /\ [Next]_vars => TypeOK'
<1> SUFFICES ASSUME TypeOK, [Next]_vars PROVE TypeOK'
  OBVIOUS
<1> USE EndpointIsBudget, NumberAssumption DEF TypeOK, Places, Goto, budget_vars
<1>1. ASSUME NEW d \in Device, Start(d) PROVE TypeOK'
  BY <1>1 DEF Start
<1>2. ASSUME NEW d \in Device, Arm(d) PROVE TypeOK'
  BY <1>2 DEF Arm
<1>3. ASSUME NEW d \in Device, TryTakes(d) PROVE TypeOK'
  BY <1>3 DEF TryTakes
<1>4. ASSUME NEW d \in Device, TryFails(d) \/ Wake(d) PROVE TypeOK'
  BY <1>4 DEF TryFails, Wake
<1>5. ASSUME NEW d \in Device, MoreOfEndpoint(d) PROVE TypeOK'
  BY <1>5 DEF MoreOfEndpoint
<1>6. ASSUME NEW d \in Device, MoreOfTotal(d) PROVE TypeOK'
  BY <1>6 DEF MoreOfTotal, Release
<1>7. ASSUME NEW d \in Device, Success(d) PROVE TypeOK'
  BY <1>7 DEF Success
<1>8. ASSUME NEW d \in Device, BackOff(d) PROVE TypeOK'
  BY <1>8 DEF BackOff
<1>9. ASSUME NEW d \in Device, DropEndpoint(d) \/ DropTotal(d) PROVE TypeOK'
  <2>1. CASE DropEndpoint(d)
    BY <2>1 DEF DropEndpoint, Release
  <2>2. CASE DropTotal(d)
    BY <2>2 DEF DropTotal, Release
  <2> QED
    BY <1>9, <2>1, <2>2
<1>10. ASSUME NEW d \in Device, Notify(d) PROVE TypeOK'
  BY <1>10 DEF Notify
<1>11. CASE UNCHANGED vars
  BY <1>11 DEF vars
<1> HIDE DEF TypeOK
<1> QED
  BY <1>1, <1>2, <1>3, <1>4, <1>5, <1>6, <1>7, <1>8, <1>9, <1>10, <1>11
     DEF Next, Acquire, End

\* Every step keeps the limits within the configured budgets: only an endpoint
\* below its own grows, and by one.
LEMMA LimitedStep == TypeOK /\ Limited /\ [Next]_vars => Limited'
<1> SUFFICES ASSUME TypeOK, Limited, [Next]_vars PROVE Limited'
  OBVIOUS
<1> USE EndpointIsBudget, ConfiguredAssumption DEF TypeOK, Limited, budget_vars
<1> HIDE DEF Configured
<1>1. ASSUME NEW d \in Device, Success(d) PROVE Limited'
  BY <1>1 DEF Success
<1>2. ASSUME NEW d \in Device, BackOff(d) PROVE Limited'
  BY <1>2 DEF BackOff
<1>3. CASE UNCHANGED limit
  BY <1>3
<1>4. ASSUME NEW d \in Device, Start(d) \/ Acquire(d) \/ End(d) PROVE UNCHANGED limit
  BY <1>4 DEF Start, Acquire, End, Arm, TryTakes, TryFails, Wake, MoreOfEndpoint,
              MoreOfTotal, DropEndpoint, DropTotal, Notify
<1>5. CASE UNCHANGED vars
  BY <1>5, <1>3 DEF vars
<1> HIDE DEF Limited
<1> QED
  BY <1>1, <1>2, <1>3, <1>4, <1>5 DEF Next

\* Every step keeps the requests in flight within the configured budgets: one is
\* taken only below the limit, and releases take away.
LEMMA WithinStep == TypeOK /\ Limited /\ WithinBudget /\ [Next]_vars => WithinBudget'
<1> SUFFICES ASSUME TypeOK, Limited, WithinBudget, [Next]_vars PROVE WithinBudget'
  OBVIOUS
<1> USE EndpointIsBudget, ConfiguredAssumption
    DEF TypeOK, Limited, WithinBudget, budget_vars, Free, Release
<1> HIDE DEF Configured
<1>1. ASSUME NEW d \in Device, TryTakes(d) PROVE WithinBudget'
  BY <1>1 DEF TryTakes
<1>2. ASSUME NEW d \in Device, MoreOfEndpoint(d) PROVE WithinBudget'
  BY <1>2 DEF MoreOfEndpoint
<1>3. ASSUME NEW d \in Device, MoreOfTotal(d) PROVE WithinBudget'
  BY <1>3 DEF MoreOfTotal
<1>4. ASSUME NEW d \in Device, DropEndpoint(d) \/ DropTotal(d) PROVE WithinBudget'
  BY <1>4 DEF DropEndpoint, DropTotal
<1>5. CASE UNCHANGED in_use
  BY <1>5
<1>6. ASSUME NEW d \in Device,
             Start(d) \/ Arm(d) \/ TryFails(d) \/ Wake(d) \/ Success(d) \/ BackOff(d) \/ Notify(d)
      PROVE  UNCHANGED in_use
  BY <1>6 DEF Start, Arm, TryFails, Wake, Success, BackOff, Notify
<1>7. CASE UNCHANGED vars
  BY <1>7, <1>5 DEF vars
<1> HIDE DEF WithinBudget
<1> QED
  BY <1>1, <1>2, <1>3, <1>4, <1>5, <1>6, <1>7 DEF Next, Acquire, End

\* A step of one read that is not about to notify leaves every notification that
\* is on its way on its way.
LEMMA PendingKept ==
    ASSUME TypeOK, NEW d \in Device, pc[d] \notin Notifying, NEW b \in Budget,
           \A y \in Device \ {d} : pc'[y] = pc[y] /\ on'[y] = on[y],
           NotifyPending(b)
    PROVE  NotifyPending(b)'
  BY DEF NotifyPending, Notifying

\* Every step keeps wake-ups from being lost: a release and a raise are followed by
\* a notification, and a read arms itself before it tries.
LEMMA WakeupStep == TypeOK /\ NoLostWakeup /\ [Next]_vars => NoLostWakeup'
<1> SUFFICES ASSUME TypeOK, NoLostWakeup, [Next]_vars PROVE NoLostWakeup'
  OBVIOUS
<1>t. TypeOK'
  BY TypeStep
<1> SUFFICES ASSUME NEW x \in Device, NEW b \in Budget,
                    pc'[x] = "parked", on'[x] = b, x \in waiting'[b]
             PROVE  ~Free(b)' \/ NotifyPending(b)'
  <2>1. NoLostWakeup' <=> \A x \in Device :
            pc'[x] = "parked" /\ x \in waiting'[on'[x]] =>
                \A b \in Budget : b = on'[x] => ~Free(b)' \/ NotifyPending(b)'
    BY <1>t DEF NoLostWakeup, TypeOK, Free, NotifyPending
  <2> QED
    BY <2>1
<1> DEFINE Goal == ~Free(b)' \/ NotifyPending(b)'
<1>a. pc[x] = "parked" /\ on[x] = b /\ x \in waiting[b] => ~Free(b) \/ NotifyPending(b)
  BY DEF NoLostWakeup
<1> USE EndpointIsBudget DEF TypeOK, Places, Goto, budget_vars, Free
<1>1. ASSUME NEW d \in Device, Start(d) \/ Arm(d) \/ TryTakes(d) \/ TryFails(d) \/ Wake(d)
                               \/ MoreOfEndpoint(d)
      PROVE  Goal
  <2>1. pc[d] \notin Notifying /\ (\A y \in Device \ {d} : pc'[y] = pc[y] /\ on'[y] = on[y])
    BY <1>1 DEF Notifying, Start, Arm, TryTakes, TryFails, Wake, MoreOfEndpoint
  <2>2. limit' = limit /\ in_use'[b] >= in_use[b]
    BY <1>1 DEF Start, Arm, TryTakes, TryFails, Wake, MoreOfEndpoint
  <2>3. CASE x = d
    BY <1>1, <2>3 DEF Start, Arm, TryTakes, TryFails, Wake, MoreOfEndpoint
  <2>4. CASE x # d
    <3>1. pc[x] = "parked" /\ on[x] = b /\ x \in waiting[b]
      BY <1>1, <2>1, <2>4 DEF Start, Arm, TryTakes, TryFails, Wake, MoreOfEndpoint
    <3>2. CASE ~Free(b)
      BY <1>t, <2>2, <3>1, <3>2
    <3>3. CASE NotifyPending(b)
      BY <2>1, <3>1, <3>3, PendingKept
    <3> QED
      BY <1>a, <3>1, <3>2, <3>3
  <2> QED
    BY <2>3, <2>4
<1>2. ASSUME NEW d \in Device, MoreOfTotal(d) \/ DropEndpoint(d) \/ DropTotal(d)
                               \/ Success(d) \/ BackOff(d)
      PROVE  Goal
  <2>1. pc[d] \notin Notifying /\ (\A y \in Device \ {d} : pc'[y] = pc[y] /\ on'[y] = on[y])
    BY <1>2 DEF Notifying, MoreOfTotal, DropEndpoint, DropTotal, Success, BackOff
  <2>2. pc[x] = "parked" /\ on[x] = b /\ x \in waiting[b] /\ x # d
    BY <1>2 DEF MoreOfTotal, DropEndpoint, DropTotal, Success, BackOff
  <2>3. NotifyPending(b)' \/ (in_use'[b] >= in_use[b] /\ limit'[b] <= limit[b])
    <3>1. CASE MoreOfTotal(d)
      BY <3>1 DEF MoreOfTotal, Release, NotifyPending
    <3>2. CASE DropEndpoint(d) \/ DropTotal(d)
      BY <3>2 DEF DropEndpoint, DropTotal, Release, NotifyPending
    <3>3. CASE Success(d)
      BY <3>3 DEF Success, NotifyPending
    <3>4. CASE BackOff(d)
      BY <3>4 DEF BackOff
    <3> QED
      BY <1>2, <3>1, <3>2, <3>3, <3>4
  <2>4. CASE ~Free(b)
    BY <1>t, <2>2, <2>3, <2>4
  <2>5. CASE NotifyPending(b)
    BY <2>1, <2>2, <2>5, PendingKept
  <2> QED
    BY <1>a, <2>2, <2>4, <2>5
<1>3. ASSUME NEW d \in Device, Notify(d) PROVE Goal
  <2>1. pc[x] = "parked" /\ on[x] = b /\ x \in waiting[b] /\ b # on[d]
    BY <1>3 DEF Notify
  <2>2. CASE ~Free(b)
    BY <1>3, <2>1, <2>2 DEF Notify
  <2>3. CASE NotifyPending(b)
    BY <1>3, <2>1, <2>3 DEF Notify, NotifyPending
  <2> QED
    BY <1>a, <2>1, <2>2, <2>3
<1>4. CASE UNCHANGED vars
  BY <1>a, <1>4 DEF vars, NotifyPending
<1> QED
  BY <1>1, <1>2, <1>3, <1>4 DEF Next, Acquire, End

\* The invariants together are inductive.
THEOREM Invariant == Spec => []IInv
<1>1. IInv /\ [Next]_vars => IInv'
  BY TypeStep, LimitedStep, WithinStep, WakeupStep DEF IInv
<1> QED
  BY Initially, <1>1, PTL DEF Spec

\* The budgets and the reads stay well formed, and no limit ever reaches 0.
THEOREM Types == Spec => []TypeOK
<1>1. IInv => TypeOK
  BY DEF IInv
<1> QED
  BY Invariant, <1>1, PTL

\* Contract 5.6 for every configuration: requests in flight never exceed the
\* configured budget of their endpoint, nor the total, through every backoff.
THEOREM BudgetsKept == Spec => []WithinBudget
<1>1. IInv => WithinBudget
  BY DEF IInv
<1> QED
  BY Invariant, <1>1, PTL

\* take() never sleeps past a free request: the Notified created before try_take
\* and the notify_waiters after every release and raise leave no gap.
THEOREM NoWakeupIsLost == Spec => []NoLostWakeup
<1>1. IInv => NoLostWakeup
  BY DEF IInv
<1> QED
  BY Invariant, <1>1, PTL

-----------------------------------------------------------------------------
(* The accounts.                                                           *)

\* A read holds requests only between the take of the total and its release.
HeldInRead ==
    \A d \in Device :
        pc[d] \in {"idle", "take", "try", "parked", "total_notify"} => held[d] = 0

\* A read waits at its endpoint or at the total.
AtOwn == \A d \in Device : on[d] \in {EndpointOf[d], "total"}

\* Every budget counts the requests that are out, and these are finitely many.
Counted == \A b \in Budget : IsFiniteSet(Out(b)) /\ in_use[b] = Cardinality(Out(b))

\* How many requests a read holds is a number.
LEMMA ShareType ==
    ASSUME TypeOK, NEW d \in Device, NEW b PROVE Share(d, b) \in Nat
  BY DEF TypeOK, Share

\* A request is out when it is one of its read's.
LEMMA OutMember ==
    ASSUME NEW b PROVE \A d, i : <<d, i>> \in Out(b) <=> d \in Device /\ i \in 1 .. Share(d, b)
  BY DEF Out

\* What is out are pairs of a read and a number.
LEMMA OutPairs ==
    ASSUME NEW b, NEW x \in Out(b)
    PROVE  \E d \in Device : \E i \in 1 .. Share(d, b) : x = <<d, i>>
  BY DEF Out

\* The same requests are out when every read holds as many.
LEMMA SameOut ==
    ASSUME NEW b, \A y \in Device : Share(y, b)' = Share(y, b)
    PROVE  Out(b)' = Out(b)
  BY DEF Out

\* A read that takes one more request puts it out.
LEMMA OutGrows ==
    ASSUME TypeOK, NEW b, NEW d \in Device, Share(d, b)' = Share(d, b) + 1,
           \A y \in Device \ {d} : Share(y, b)' = Share(y, b),
           IsFiniteSet(Out(b))
    PROVE  IsFiniteSet(Out(b)') /\ Cardinality(Out(b)') = Cardinality(Out(b)) + 1
<1> DEFINE n == Share(d, b)
           x == <<d, n + 1>>
<1>1. n \in Nat
  BY ShareType
<1>2. x \notin Out(b)
  BY <1>1, OutMember
<1>3. Out(b)' = Out(b) \union {x}
  <2>1. 1 .. n + 1 = (1 .. n) \union {n + 1}
    BY <1>1
  <2> QED
    BY <2>1 DEF Out
<1> QED
  BY <1>2, <1>3, FS_AddElement

\* A read that gives n requests back takes them in.
LEMMA OutShrinks ==
    ASSUME TypeOK, NEW b, NEW d \in Device, NEW n \in Nat, n <= Share(d, b),
           Share(d, b)' = Share(d, b) - n,
           \A y \in Device \ {d} : Share(y, b)' = Share(y, b),
           IsFiniteSet(Out(b))
    PROVE  /\ IsFiniteSet(Out(b)') /\ Cardinality(Out(b)') = Cardinality(Out(b)) - n
           /\ n <= Cardinality(Out(b))
<1> DEFINE s == Share(d, b)
           T == {d} \X (s - n + 1 .. s)
<1>1. s \in Nat
  BY ShareType
<1>2. T \subseteq Out(b)
  BY <1>1, OutMember
<1>3. Out(b)' = Out(b) \ T
  <2>1. \A i : i \in 1 .. s - n <=> i \in 1 .. s /\ i \notin s - n + 1 .. s
    BY <1>1
  <2>2. ASSUME NEW x \in Out(b)' PROVE x \in Out(b) \ T
    <3>a. PICK y \in Device : \E i \in 1 .. Share(y, b)' : x = <<y, i>>
      BY <2>2 DEF Out
    <3>1. PICK i \in 1 .. Share(y, b)' : x = <<y, i>>
      BY <3>a
    <3>2. CASE y = d
      BY <2>1, <3>1, <3>2, OutMember
    <3>3. CASE y # d
      BY <3>1, <3>3, OutMember
    <3> QED
      BY <3>2, <3>3
  <2>3. ASSUME NEW x \in Out(b) \ T PROVE x \in Out(b)'
    <3>a. PICK y \in Device : \E i \in 1 .. Share(y, b) : x = <<y, i>>
      BY <2>3, OutPairs
    <3>1. PICK i \in 1 .. Share(y, b) : x = <<y, i>>
      BY <3>a
    <3>2. i \in 1 .. Share(y, b)'
      BY <2>1, <2>3, <3>1
    <3> QED
      BY <3>1, <3>2 DEF Out
  <2> QED
    BY <2>2, <2>3
<1>4. IsFiniteSet(T) /\ Cardinality(T) = n
  <2>1. IsFiniteSet(s - n + 1 .. s) /\ Cardinality(s - n + 1 .. s) = n
    <3>1. s - n + 1 \in Int /\ s \in Int
      BY <1>1
    <3>2. /\ IsFiniteSet(s - n + 1 .. s)
          /\ Cardinality(s - n + 1 .. s) = IF s - n + 1 > s THEN 0 ELSE s - (s - n + 1) + 1
      BY <3>1, FS_Interval
    <3> QED
      BY <1>1, <3>2
  <2>2. IsFiniteSet({d}) /\ Cardinality({d}) = 1
    BY FS_Singleton
  <2>3. IsFiniteSet(T) /\ Cardinality(T) = Cardinality({d}) * Cardinality(s - n + 1 .. s)
    BY <2>1, <2>2, FS_Product
  <2> QED
    BY <2>1, <2>2, <2>3
<1> HIDE DEF T
<1>5. Out(b) \intersect T = T
  BY <1>2
<1>6. IsFiniteSet(Out(b) \ T) /\ Cardinality(Out(b) \ T) = Cardinality(Out(b)) - Cardinality(Out(b) \intersect T)
  BY FS_Difference
<1>7. n <= Cardinality(Out(b))
  BY <1>2, <1>4, FS_Subset
<1> QED
  BY <1>3, <1>4, <1>5, <1>6, <1>7

\* A step of the read of d that does not change its shares changes no account.
LEMMA SameAccounts ==
    ASSUME Counted, NEW d \in Device, UNCHANGED in_use,
           \A y \in Device, b \in Budget : Share(y, b)' = Share(y, b)
    PROVE  Counted'
<1>1. ASSUME NEW b \in Budget PROVE Out(b)' = Out(b)
  BY SameOut
<1> QED
  BY <1>1 DEF Counted

\* A read that takes a request of budget c has it counted there, and nowhere else.
LEMMA TakeCounts ==
    ASSUME TypeOK, Counted, NEW d \in Device, NEW c \in Budget,
           in_use' = [in_use EXCEPT ![c] = @ + 1],
           Share(d, c)' = Share(d, c) + 1,
           \A y \in Device, b \in Budget : y # d \/ b # c => Share(y, b)' = Share(y, b)
    PROVE  Counted'
<1>1. IsFiniteSet(Out(c)') /\ Cardinality(Out(c)') = Cardinality(Out(c)) + 1
  BY OutGrows DEF Counted
<1>2. ASSUME NEW b \in Budget, b # c PROVE Out(b)' = Out(b)
  BY <1>2, SameOut
<1> QED
  BY <1>1, <1>2 DEF Counted, TypeOK

\* A read that gives n requests of budget c back is no longer counted there, and the
\* subtraction is exact.
LEMMA ReleaseCounts ==
    ASSUME TypeOK, Counted, NEW d \in Device, NEW c \in Budget, NEW n \in Nat, Release(c, n),
           n <= Share(d, c), Share(d, c)' = Share(d, c) - n,
           \A y \in Device, b \in Budget : y # d \/ b # c => Share(y, b)' = Share(y, b)
    PROVE  Counted'
<1>1. /\ IsFiniteSet(Out(c)') /\ Cardinality(Out(c)') = Cardinality(Out(c)) - n
      /\ n <= Cardinality(Out(c))
  BY OutShrinks DEF Counted
<1>2. ASSUME NEW b \in Budget, b # c PROVE Out(b)' = Out(b)
  BY <1>2, SameOut
<1>3. in_use[c] = Cardinality(Out(c)) /\ in_use[c] \in Nat /\ in_use'[c] = in_use[c] - n
  BY <1>1 DEF Counted, TypeOK, Release
<1>4. \A b \in Budget : b # c => in_use'[b] = in_use[b]
  BY DEF TypeOK, Release
<1> QED
  BY <1>1, <1>2, <1>3, <1>4 DEF Counted

\* Every step keeps what a read holds where it may hold something, and where it waits.
LEMMA HeldStep == TypeOK /\ HeldInRead /\ AtOwn /\ [Next]_vars => HeldInRead' /\ AtOwn'
<1> SUFFICES ASSUME TypeOK, HeldInRead, AtOwn, [Next]_vars PROVE HeldInRead' /\ AtOwn'
  OBVIOUS
<1> USE DEF TypeOK, HeldInRead, AtOwn, Goto, budget_vars
<1>1. ASSUME NEW d \in Device, Start(d) \/ Acquire(d) PROVE HeldInRead' /\ AtOwn'
  BY <1>1 DEF Start, Acquire, Arm, TryTakes, TryFails, Wake, MoreOfEndpoint, MoreOfTotal
<1>2. ASSUME NEW d \in Device, Success(d) \/ BackOff(d) \/ End(d) PROVE HeldInRead' /\ AtOwn'
  BY <1>2 DEF Success, BackOff, End, DropEndpoint, Notify, DropTotal
<1>3. CASE UNCHANGED vars
  BY <1>3 DEF vars
<1> HIDE DEF HeldInRead, AtOwn
<1> QED
  BY <1>1, <1>2, <1>3 DEF Next

\* Every step keeps the accounts.
LEMMA CountedStep == TypeOK /\ HeldInRead /\ AtOwn /\ Counted /\ [Next]_vars => Counted'
<1> SUFFICES ASSUME TypeOK, HeldInRead, AtOwn, Counted, [Next]_vars PROVE Counted'
  OBVIOUS
<1>e. ASSUME NEW d \in Device
      PROVE  EndpointOf[d] \in Budget /\ EndpointOf[d] # "total" /\ "total" \in Budget
  BY EndpointIsBudget
\* A read holds requests of its endpoint and of the total only.
<1>o. ASSUME NEW d \in Device, \A y \in Device \ {d} : pc'[y] = pc[y] /\ on'[y] = on[y] /\ held'[y] = held[y]
      PROVE  /\ \A y \in Device \ {d}, b \in Budget : Share(y, b)' = Share(y, b)
             /\ \A b \in Budget \ {EndpointOf[d], "total"} : Share(d, b)' = Share(d, b)
  BY <1>o DEF Share
<1>h. \A d \in Device : held[d] \in Nat
  BY DEF TypeOK
<1>1. ASSUME NEW d \in Device,
             Start(d) \/ Arm(d) \/ TryFails(d) \/ Wake(d) \/ Success(d) \/ BackOff(d) \/ Notify(d)
      PROVE  Counted'
  <2>1. UNCHANGED in_use /\ \A y \in Device \ {d} : pc'[y] = pc[y] /\ on'[y] = on[y] /\ held'[y] = held[y]
    BY <1>1 DEF TypeOK, Goto, budget_vars, Start, Arm, TryFails, Wake, Success, BackOff, Notify
  <2>2. Share(d, "total")' = Share(d, "total") /\ Share(d, EndpointOf[d])' = Share(d, EndpointOf[d])
    BY <1>1, <1>e DEF TypeOK, HeldInRead, AtOwn, Goto, budget_vars, Share, Start, Arm, TryFails,
                      Wake, Success, BackOff, Notify
  <2> QED
    BY <1>o, <2>1, <2>2, SameAccounts
<1>2. ASSUME NEW d \in Device, TryTakes(d) PROVE Counted'
  <2>1. \A y \in Device \ {d} : pc'[y] = pc[y] /\ on'[y] = on[y] /\ held'[y] = held[y]
    BY <1>2 DEF TypeOK, Goto, TryTakes
  <2>2. CASE on[d] # "total"
    <3>1. on[d] = EndpointOf[d] /\ in_use' = [in_use EXCEPT ![EndpointOf[d]] = @ + 1]
      BY <1>2, <2>2 DEF TryTakes, AtOwn
    <3>2. Share(d, EndpointOf[d])' = Share(d, EndpointOf[d]) + 1 /\ Share(d, "total")' = Share(d, "total")
      BY <1>2, <1>e, <2>2, <3>1 DEF TypeOK, HeldInRead, Goto, Share, TryTakes
    <3>3. \A y \in Device, b \in Budget : y # d \/ b # EndpointOf[d] => Share(y, b)' = Share(y, b)
      BY <1>o, <2>1, <3>2
    <3> QED
      BY <1>e, <3>1, <3>2, <3>3, TakeCounts
  <2>3. CASE on[d] = "total"
    <3>1. in_use' = [in_use EXCEPT !["total"] = @ + 1]
      BY <1>2, <2>3 DEF TryTakes
    <3>2. Share(d, "total")' = Share(d, "total") + 1 /\ Share(d, EndpointOf[d])' = Share(d, EndpointOf[d])
      BY <1>2, <1>e, <2>3 DEF TypeOK, HeldInRead, Goto, Share, TryTakes
    <3>3. \A y \in Device, b \in Budget : y # d \/ b # "total" => Share(y, b)' = Share(y, b)
      BY <1>o, <2>1, <3>2
    <3> QED
      BY <1>e, <3>1, <3>2, <3>3, TakeCounts
  <2> QED
    BY <2>2, <2>3
<1>3. ASSUME NEW d \in Device, MoreOfEndpoint(d) PROVE Counted'
  <2>1. \A y \in Device \ {d} : pc'[y] = pc[y] /\ on'[y] = on[y] /\ held'[y] = held[y]
    BY <1>3 DEF TypeOK, Goto, MoreOfEndpoint
  <2>2. Share(d, "total")' = Share(d, "total")
    BY <1>3, <1>e DEF TypeOK, Goto, Share, MoreOfEndpoint
  <2>3. CASE held[d] < Wanted[d] /\ Free(EndpointOf[d])
    <3>1. in_use' = [in_use EXCEPT ![EndpointOf[d]] = @ + 1]
      BY <1>3, <2>3 DEF MoreOfEndpoint
    <3>2. Share(d, EndpointOf[d])' = Share(d, EndpointOf[d]) + 1
      BY <1>3, <1>e, <2>3 DEF TypeOK, Goto, Share, MoreOfEndpoint
    <3>3. \A y \in Device, b \in Budget : y # d \/ b # EndpointOf[d] => Share(y, b)' = Share(y, b)
      BY <1>o, <2>1, <2>2, <3>2
    <3> QED
      BY <1>e, <3>1, <3>2, <3>3, TakeCounts
  <2>4. CASE ~(held[d] < Wanted[d] /\ Free(EndpointOf[d]))
    <3>1. UNCHANGED in_use /\ Share(d, EndpointOf[d])' = Share(d, EndpointOf[d])
      BY <1>3, <1>e, <2>4 DEF TypeOK, Goto, Share, MoreOfEndpoint
    <3> QED
      BY <1>o, <2>1, <2>2, <3>1, SameAccounts
  <2> QED
    BY <2>3, <2>4
<1>4. ASSUME NEW d \in Device, MoreOfTotal(d) PROVE Counted'
  <2>1. \A y \in Device \ {d} : pc'[y] = pc[y] /\ on'[y] = on[y] /\ held'[y] = held[y]
    BY <1>4 DEF TypeOK, Goto, MoreOfTotal
  <2>2. CASE Free("total")
    <3>1. in_use' = [in_use EXCEPT !["total"] = @ + 1]
      BY <1>4, <2>2 DEF MoreOfTotal
    <3>2. Share(d, "total")' = Share(d, "total") + 1 /\ Share(d, EndpointOf[d])' = Share(d, EndpointOf[d])
      BY <1>4, <1>e, <2>2 DEF TypeOK, Goto, Share, MoreOfTotal
    <3>3. \A y \in Device, b \in Budget : y # d \/ b # "total" => Share(y, b)' = Share(y, b)
      BY <1>o, <2>1, <3>2
    <3> QED
      BY <1>e, <3>1, <3>2, <3>3, TakeCounts
  <2>3. CASE ~Free("total")
    <3>1. Release(EndpointOf[d], 1)
      BY <1>4, <2>3 DEF MoreOfTotal
    <3>2. /\ Share(d, EndpointOf[d])' = Share(d, EndpointOf[d]) - 1 /\ 1 <= Share(d, EndpointOf[d])
          /\ Share(d, "total")' = Share(d, "total")
      BY <1>4, <1>e, <2>3 DEF TypeOK, Goto, Share, MoreOfTotal
    <3> QED
      BY <1>e, <1>o, <2>1, <3>1, <3>2, ReleaseCounts
  <2> QED
    BY <2>2, <2>3
<1>5. ASSUME NEW d \in Device, DropEndpoint(d) PROVE Counted'
  <2>1. \A y \in Device \ {d} : pc'[y] = pc[y] /\ on'[y] = on[y] /\ held'[y] = held[y]
    BY <1>5 DEF TypeOK, Goto, DropEndpoint
  <2>2. /\ Share(d, EndpointOf[d])' = Share(d, EndpointOf[d]) - held[d]
        /\ held[d] <= Share(d, EndpointOf[d]) /\ Share(d, "total")' = Share(d, "total")
    BY <1>5, <1>e DEF TypeOK, Goto, Share, DropEndpoint
  <2>3. Release(EndpointOf[d], held[d])
    BY <1>5 DEF DropEndpoint
  <2> QED
    BY <1>e, <1>h, <1>o, <2>1, <2>2, <2>3, ReleaseCounts
<1>6. ASSUME NEW d \in Device, DropTotal(d) PROVE Counted'
  <2>1. \A y \in Device \ {d} : pc'[y] = pc[y] /\ on'[y] = on[y] /\ held'[y] = held[y]
    BY <1>6 DEF TypeOK, Goto, DropTotal
  <2>2. /\ Share(d, "total")' = Share(d, "total") - held[d] /\ held[d] <= Share(d, "total")
        /\ Share(d, EndpointOf[d])' = Share(d, EndpointOf[d])
    BY <1>6, <1>e DEF TypeOK, Goto, Share, DropTotal
  <2>3. Release("total", held[d])
    BY <1>6 DEF DropTotal
  <2> QED
    BY <1>e, <1>h, <1>o, <2>1, <2>2, <2>3, ReleaseCounts
<1>7. CASE UNCHANGED vars
  <2>1. \A b \in Budget : Out(b)' = Out(b)
    BY <1>7, SameOut DEF vars, Share
  <2> QED
    BY <1>7, <2>1 DEF Counted, vars, budget_vars
<1> QED
  BY <1>1, <1>2, <1>3, <1>4, <1>5, <1>6, <1>7 DEF Next, Acquire, End

\* The requests in use are those the reads hold, for every set of devices and every
\* budget: none is leaked by a read that got an endpoint's request and not the total's,
\* and none is given back twice.
THEOREM NothingLeaks == Spec => []Accounted
<1>1. Init => HeldInRead /\ AtOwn /\ Counted
  <2> SUFFICES ASSUME Init PROVE HeldInRead /\ AtOwn /\ Counted
    OBVIOUS
  <2>1. HeldInRead /\ AtOwn
    BY DEF Init, HeldInRead, AtOwn
  <2>2. ASSUME NEW b \in Budget PROVE Out(b) = {}
    BY DEF Init, Out, Share
  <2>3. Counted
    BY <2>2, FS_EmptySet DEF Init, Counted
  <2> QED
    BY <2>1, <2>3
<1>2. Counted => Accounted
  BY DEF Counted, Accounted
<1> QED
  BY <1>1, <1>2, HeldStep, CountedStep, Types, PTL DEF Spec
=============================================================================
