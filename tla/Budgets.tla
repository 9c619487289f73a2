------------------------------- MODULE Budgets -------------------------------
(***************************************************************************)
(* The request budgets of concurrent reads (sdk/src/concurrency.rs): each  *)
(* endpoint bounds the requests in flight to it, all endpoints share a     *)
(* total.  The read of a device takes a request of both, waiting for one,  *)
(* and as many more as are free; it reports refusals, which halve the      *)
(* endpoint's budget, and answers, which let it grow again.                *)
(*                                                                         *)
(* Reads are tasks: a step is what happens under one lock of a budget's    *)
(* state, or one call on its Notify.  A waiter is registered when its      *)
(* Notified is created; notify_waiters wakes every registered waiter and   *)
(* leaves no permit behind (tokio::sync::Notify, external).                *)
(***************************************************************************)
EXTENDS Integers, FiniteSets

CONSTANTS
    Device,       \* devices, each with at most one read at a time
    Endpoint,     \* endpoint names
    EndpointOf,   \* the endpoint of each device
    MaxInflight,  \* max_inflight of each device
    Cap,          \* the module's cap of each endpoint, or NoCap
    NoCap,
    Total,        \* max_inflight_total
    Wanted,       \* DeviceReader::wanted of each device
    RegrowAfter   \* REGROW_AFTER

ASSUME EndpointAssumption ==
    /\ EndpointOf \in [Device -> Endpoint]
    /\ "total" \notin Endpoint
ASSUME NumberAssumption ==
    /\ MaxInflight \in [Device -> Nat \ {0}]
    /\ Total \in Nat \ {0}
    /\ Wanted \in [Device -> Nat]
    /\ RegrowAfter \in Nat \ {0}

VARIABLES
    limit, in_use, successes, \* Budget::state, by budget
    waiting,                  \* Budget::freed: waiters not notified yet
    pc, on,                   \* where the read of a device is, at which budget
    held                      \* InFlight::held

budget_vars == <<limit, in_use, successes, waiting>>
vars == <<budget_vars, pc, on, held>>

Budget == Endpoint \union {"total"}

-----------------------------------------------------------------------------
Smallest(S) == CHOOSE n \in S : \A m \in S : n <= m

\* Budgets::new: the smallest max_inflight of the endpoint's devices, and the
\* module's cap, which is at least 1.
Configured(b) ==
    LET wanted == Smallest({MaxInflight[d] : d \in {x \in Device : EndpointOf[x] = b}}) IN
    IF b = "total" THEN Total
    ELSE IF Cap[b] = NoCap THEN wanted
    ELSE Smallest({wanted, IF Cap[b] = 0 THEN 1 ELSE Cap[b]})

ASSUME ConfiguredAssumption == \A b \in Budget : Configured(b) \in Nat \ {0}

Init ==
    /\ limit = [b \in Budget |-> Configured(b)]
    /\ in_use = [b \in Budget |-> 0]
    /\ successes = [b \in Budget |-> 0]
    /\ waiting = [b \in Budget |-> {}]
    /\ pc = [d \in Device |-> "idle"]
    /\ on = [d \in Device |-> EndpointOf[d]]
    /\ held = [d \in Device |-> 0]

Goto(d, where) == pc' = [pc EXCEPT ![d] = where]

\* The test of try_take.
Free(b) == in_use[b] < limit[b]

-----------------------------------------------------------------------------
(* Budgets::acquire.                                                       *)

\* The main loop spawns a read of d.
Start(d) ==
    /\ pc[d] = "idle"
    /\ Goto(d, "take")
    /\ on' = [on EXCEPT ![d] = EndpointOf[d]]
    /\ UNCHANGED <<budget_vars, held>>

\* take: the Notified is created before the budget is tried.
Arm(d) ==
    /\ pc[d] = "take"
    /\ waiting' = [waiting EXCEPT ![on[d]] = @ \union {d}]
    /\ Goto(d, "try")
    /\ UNCHANGED <<limit, in_use, successes, on, held>>

\* try_take succeeds: the Notified is dropped, and the total comes next.
TryTakes(d) ==
    /\ pc[d] = "try" /\ Free(on[d])
    /\ in_use' = [in_use EXCEPT ![on[d]] = @ + 1]
    /\ waiting' = [waiting EXCEPT ![on[d]] = @ \ {d}]
    /\ \/ /\ on[d] # "total"
          /\ on' = [on EXCEPT ![d] = "total"]
          /\ Goto(d, "take")
          /\ UNCHANGED held
       \/ /\ on[d] = "total"
          /\ held' = [held EXCEPT ![d] = 1]
          /\ Goto(d, "more")
          /\ UNCHANGED on
    /\ UNCHANGED <<limit, successes>>

TryFails(d) ==
    /\ pc[d] = "try" /\ ~Free(on[d])
    /\ Goto(d, "parked")
    /\ UNCHANGED <<budget_vars, on, held>>

\* freed.await returns, and the loop of take starts over.
Wake(d) ==
    /\ pc[d] = "parked" /\ d \notin waiting[on[d]]
    /\ Goto(d, "take")
    /\ UNCHANGED <<budget_vars, on, held>>

\* One more request of the endpoint, if the read wants it and it is free.
MoreOfEndpoint(d) ==
    /\ pc[d] = "more"
    /\ \/ /\ held[d] < Wanted[d] /\ Free(EndpointOf[d])
          /\ in_use' = [in_use EXCEPT ![EndpointOf[d]] = @ + 1]
          /\ Goto(d, "more_total")
       \/ /\ ~(held[d] < Wanted[d] /\ Free(EndpointOf[d]))
          /\ Goto(d, "reading")
          /\ UNCHANGED in_use
    /\ UNCHANGED <<limit, successes, waiting, on, held>>

\* give_back: the release under the lock, then the notification.
Release(b, n) == in_use' = [in_use EXCEPT ![b] = IF @ < n THEN 0 ELSE @ - n]

\* Mutant: the endpoint's request is not given back.
MoreOfTotal_NoUndo(d) ==
    /\ pc[d] = "more_total"
    /\ \/ /\ Free("total")
          /\ in_use' = [in_use EXCEPT !["total"] = @ + 1]
          /\ held' = [held EXCEPT ![d] = @ + 1]
          /\ Goto(d, "more")
       \/ /\ ~Free("total")
          /\ Goto(d, "reading")
          /\ UNCHANGED <<in_use, held>>
    /\ UNCHANGED <<limit, successes, waiting, on>>

\* The same of the total, or the endpoint's is given back.
MoreOfTotal(d) ==
    /\ pc[d] = "more_total"
    /\ \/ /\ Free("total")
          /\ in_use' = [in_use EXCEPT !["total"] = @ + 1]
          /\ held' = [held EXCEPT ![d] = @ + 1]
          /\ Goto(d, "more")
          /\ UNCHANGED on
       \/ /\ ~Free("total")
          /\ Release(EndpointOf[d], 1)
          /\ on' = [on EXCEPT ![d] = EndpointOf[d]]
          /\ Goto(d, "undo_notify")
          /\ UNCHANGED held
    /\ UNCHANGED <<limit, successes, waiting>>

\* notify_waiters, after a release or a raised budget.
Notify(d) ==
    /\ \/ pc[d] \in {"undo_notify", "raised"} /\ Goto(d, "reading")
       \/ pc[d] = "endpoint_notify" /\ Goto(d, "drop_total")
       \/ pc[d] = "total_notify" /\ Goto(d, "idle")
    /\ waiting' = [waiting EXCEPT ![on[d]] = {}]
    /\ UNCHANGED <<limit, in_use, successes, on, held>>

-----------------------------------------------------------------------------
(* The read: answers, refusals, and the end.                               *)

\* Mutant: the budget grows past the configured one.
Success_PastConfigured(d) ==
    LET e == EndpointOf[d] IN
    /\ pc[d] = "reading"
    /\ \/ /\ successes[e] + 1 < RegrowAfter
          /\ successes' = [successes EXCEPT ![e] = @ + 1]
          /\ UNCHANGED <<limit, pc, on>>
       \/ /\ successes[e] + 1 >= RegrowAfter
          /\ successes' = [successes EXCEPT ![e] = 0]
          /\ limit' = [limit EXCEPT ![e] = @ + 1]
          /\ on' = [on EXCEPT ![d] = e]
          /\ Goto(d, "raised")
    /\ UNCHANGED <<in_use, waiting, held>>

\* Mutant: the budget stops growing one short of the configured one.
Success_OneShort(d) ==
    LET e == EndpointOf[d]
        raised == IF limit[e] + 1 < Configured(e) THEN limit[e] + 1 ELSE limit[e]
    IN  /\ pc[d] = "reading" /\ limit[e] < Configured(e)
        /\ \/ /\ successes[e] + 1 < RegrowAfter
              /\ successes' = [successes EXCEPT ![e] = @ + 1]
              /\ UNCHANGED <<limit, pc, on>>
           \/ /\ successes[e] + 1 >= RegrowAfter
              /\ successes' = [successes EXCEPT ![e] = 0]
              /\ limit' = [limit EXCEPT ![e] = raised]
              /\ on' = [on EXCEPT ![d] = e]
              /\ Goto(d, "raised")
        /\ UNCHANGED <<in_use, waiting, held>>

\* InFlight::ok: at a reduced budget, enough answers raise it by one.
Success(d) ==
    LET e == EndpointOf[d] IN
    /\ pc[d] = "reading" /\ limit[e] < Configured(e)
    /\ \/ /\ successes[e] + 1 < RegrowAfter
          /\ successes' = [successes EXCEPT ![e] = @ + 1]
          /\ UNCHANGED <<limit, pc, on>>
       \/ /\ successes[e] + 1 >= RegrowAfter
          /\ successes' = [successes EXCEPT ![e] = 0]
          /\ limit' = [limit EXCEPT ![e] = @ + 1]
          /\ on' = [on EXCEPT ![d] = e]
          /\ Goto(d, "raised")
    /\ UNCHANGED <<in_use, waiting, held>>

\* Mutant: halving may reach 0.
BackOff_ToZero(d) ==
    LET e == EndpointOf[d] IN
    /\ pc[d] = "reading"
    /\ limit' = [limit EXCEPT ![e] = @ \div 2]
    /\ successes' = [successes EXCEPT ![e] = 0]
    /\ UNCHANGED <<in_use, waiting, pc, on, held>>

\* InFlight::busy, or timed_out behind other requests: the endpoint's budget is
\* halved, to at least 1.
BackOff(d) ==
    LET e == EndpointOf[d]
        halved == limit[e] \div 2
    IN  /\ pc[d] = "reading"
        /\ limit' = [limit EXCEPT ![e] = IF halved = 0 THEN 1 ELSE halved]
        /\ successes' = [successes EXCEPT ![e] = 0]
        /\ UNCHANGED <<in_use, waiting, pc, on, held>>

\* Mutant: the waiters of the endpoint are not notified.
DropEndpoint_Silent(d) ==
    /\ pc[d] = "reading"
    /\ Release(EndpointOf[d], held[d])
    /\ on' = [on EXCEPT ![d] = EndpointOf[d]]
    /\ Goto(d, "drop_total")
    /\ UNCHANGED <<limit, successes, waiting, held>>

\* InFlight is dropped: first the endpoint's requests, then the total's.
DropEndpoint(d) ==
    /\ pc[d] = "reading"
    /\ Release(EndpointOf[d], held[d])
    /\ on' = [on EXCEPT ![d] = EndpointOf[d]]
    /\ Goto(d, "endpoint_notify")
    /\ UNCHANGED <<limit, successes, waiting, held>>

DropTotal(d) ==
    /\ pc[d] = "drop_total"
    /\ Release("total", held[d])
    /\ on' = [on EXCEPT ![d] = "total"]
    /\ held' = [held EXCEPT ![d] = 0]
    /\ Goto(d, "total_notify")
    /\ UNCHANGED <<limit, successes, waiting>>

-----------------------------------------------------------------------------
Acquire(d) ==
    Arm(d) \/ TryTakes(d) \/ TryFails(d) \/ Wake(d) \/ MoreOfEndpoint(d) \/ MoreOfTotal(d)

End(d) == DropEndpoint(d) \/ Notify(d) \/ DropTotal(d)

Next == \E d \in Device : Start(d) \/ Acquire(d) \/ Success(d) \/ BackOff(d) \/ End(d)

Spec == Init /\ [][Next]_vars

\* A read's task is scheduled while it can run, and a read ends (the call is
\* bounded by operation_timeout).
Fairness ==
    \A d \in Device :
        /\ WF_vars(Acquire(d))
        /\ SF_vars(DropEndpoint(d)) /\ WF_vars(End(d))

FairSpec == Spec /\ Fairness

-----------------------------------------------------------------------------
(* Properties.                                                             *)

Places == {"idle", "take", "try", "parked", "more", "more_total", "undo_notify", "reading",
           "raised", "endpoint_notify", "drop_total", "total_notify"}

\* The state of the budgets and of the reads is well formed; a limit is never 0.
TypeOK ==
    /\ limit \in [Budget -> Nat \ {0}]
    /\ in_use \in [Budget -> Nat]
    /\ successes \in [Budget -> 0..(RegrowAfter - 1)]
    /\ waiting \in [Budget -> SUBSET Device]
    /\ pc \in [Device -> Places]
    /\ on \in [Device -> Budget]
    /\ held \in [Device -> Nat]

\* Contract 5.6: the requests in flight to an endpoint never exceed its configured
\* budget, nor all of them the total, whatever the endpoint's budget went through.
WithinBudget == \A b \in Budget : in_use[b] <= Configured(b)

\* A release or a raise of budget b whose notify_waiters is still to come.
NotifyPending(b) ==
    \E d \in Device :
        /\ pc[d] \in {"undo_notify", "raised", "endpoint_notify", "total_notify"}
        /\ on[d] = b

\* No wake-up is lost: a read asleep at a budget, not notified, has nothing to
\* take there, or the notification is on its way.
NoLostWakeup ==
    \A d \in Device :
        pc[d] = "parked" /\ d \in waiting[on[d]] => ~Free(on[d]) \/ NotifyPending(on[d])

\* How many requests of budget b a read has taken and not given back.
Share(d, b) ==
    IF b = "total"
    THEN IF pc[d] = "total_notify" THEN 0 ELSE held[d]
    ELSE IF EndpointOf[d] # b \/ pc[d] \in {"endpoint_notify", "drop_total", "total_notify"}
         THEN 0
    ELSE IF pc[d] = "more_total" THEN held[d] + 1
    ELSE IF on[d] = "total" /\ pc[d] \in {"take", "try", "parked"} THEN 1
    ELSE held[d]

\* The requests of budget b that are out: the first, the second ... of each read.
Out(b) == UNION {{<<d, i>> : i \in 1 .. Share(d, b)} : d \in Device}

\* The in_use of every budget counts what the reads hold of it: acquire, its partial
\* failures and the drop of InFlight neither leak a request nor give one back twice
\* (which saturating_sub would hide).
Accounted == \A b \in Budget : in_use[b] = Cardinality(Out(b))

\* Once reads stop being started, every read that waits for its budgets gets them:
\* none sleeps for ever, and none holds an endpoint's request for ever while it
\* waits for the total.  (The budgets keep no queue, so reads started for ever may
\* overtake a woken one for ever.)
AcquireEnds ==
    <>[][\A d \in Device : ~Start(d)]_vars =>
        \A d \in Device : pc[d] = "take" ~> pc[d] = "reading"

\* An endpoint that stops refusing, with requests being answered, regains its
\* configured budget.
Regrows ==
    \A e \in Endpoint :
        (/\ <>[][\A d \in Device : EndpointOf[d] = e => ~BackOff(d)]_vars
         /\ []<>(limit[e] < Configured(e)) =>
                []<><<\E d \in Device : EndpointOf[d] = e /\ Success(d)>>_vars)
        => <>[](limit[e] = Configured(e))
=============================================================================
