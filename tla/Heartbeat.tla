------------------------------- MODULE Heartbeat -------------------------------
(***************************************************************************)
(* The heartbeat lease (pkg/heartbeat): how often it is renewed, given the *)
(* interval it was configured with.  Time passes in half seconds.          *)
(***************************************************************************)
EXTENDS Integers

CONSTANTS
    RenewIntervals,   \* the intervals WithRenewInterval may be given
    Backoff,          \* the longest delay before a failed renewal is retried
    MaxFailures,      \* bound: renewals that fail in a row
    MaxAge            \* bound: how far ages are counted once nothing is queued

ASSUME HeartbeatAssumption ==
    /\ RenewIntervals \subseteq Nat
    /\ Backoff \in Nat
    /\ MaxFailures \in Nat
    /\ MaxAge \in Nat

VARIABLES
    stage,          \* "new", "running", or "rejected" by New
    renewInterval,  \* Heartbeat.renewInterval
    requeued,       \* the reconcile request waits in the queue
    wait,           \* how long it has to wait there
    age,            \* time since the last renewal, or since the start
    failures        \* failed renewals since then

vars == <<stage, renewInterval, requeued, wait, age, failures>>

TypeOK ==
    /\ stage \in {"new", "running", "rejected"}
    /\ renewInterval \in RenewIntervals
    /\ requeued \in BOOLEAN
    /\ wait \in Nat
    /\ age \in Nat
    /\ failures \in Nat

Init ==
    /\ stage = "new"
    /\ renewInterval \in RenewIntervals
    /\ requeued = FALSE /\ wait = 0 /\ age = 0 /\ failures = 0

\* New demands an extension name and a namespace; SetupWithManager then enqueues
\* the one request the controller ever works on.
Start ==
    /\ stage = "new"
    /\ \/ stage' = "running" /\ requeued' = TRUE
       \/ stage' = "rejected" /\ UNCHANGED requeued
    /\ UNCHANGED <<renewInterval, wait, age, failures>>

\* Seeded fault: rounds up instead of down.
SecondsRoundedUp == (renewInterval + 1) \div 2

\* int32(h.renewInterval.Seconds()); intervals beyond an int32 are not explored.
RenewIntervalSeconds == renewInterval \div 2

Due == stage = "running" /\ requeued /\ wait = 0

\* The library's reconciler renews the lease and asks for another request after
\* the interval; after no time at all means that it asks for none.
Renew ==
    /\ Due
    /\ age' = 0
    /\ failures' = 0
    /\ requeued' = (RenewIntervalSeconds > 0)
    /\ wait' = 2 * RenewIntervalSeconds
    /\ UNCHANGED <<stage, renewInterval>>

\* Seeded fault: an error is logged and the request is dropped.
RenewFailsForGood ==
    /\ Due
    /\ failures < MaxFailures
    /\ failures' = failures + 1
    /\ requeued' = FALSE
    /\ UNCHANGED <<stage, renewInterval, wait, age>>

\* The API server does not answer; the queue hands the request out again.
RenewFails ==
    /\ Due
    /\ failures < MaxFailures
    /\ failures' = failures + 1
    /\ wait' \in 1..Backoff
    /\ UNCHANGED <<stage, renewInterval, requeued, age>>

\* A due renewal does not take any time.
Tick ==
    /\ stage = "running" /\ ~Due
    /\ wait' = IF wait > 0 THEN wait - 1 ELSE 0
    /\ age' = IF requeued \/ age < MaxAge THEN age + 1 ELSE age
    /\ UNCHANGED <<stage, renewInterval, requeued, failures>>

Next == Start \/ Renew \/ RenewFails \/ Tick

\* The queue hands out due requests, failures do not go on for ever, and time
\* passes.
Spec == Init /\ [][Next]_vars
FairSpec == Spec /\ WF_vars(Renew) /\ WF_vars(Tick)

-----------------------------------------------------------------------------
WholeSeconds == renewInterval >= 2

\* How old a lease may get when n renewals in a row fail.
Allowance(n) == renewInterval + n * Backoff

\* A lease is never older than the interval asked for, and the delays of failed
\* attempts since the last renewal, when the interval is a second or more
\* (heartbeat.go:59-70).
LeaseFresh ==
    WholeSeconds => age <= Allowance(failures)

\* The inductive invariant behind it: the request is in the queue, and the time
\* it still has to wait is within the allowance.
Scheduled ==
    WholeSeconds => /\ (stage = "running" => requeued)
                    /\ age + wait <= Allowance(failures)

\* With such an interval the lease is renewed for ever, whatever failed.
BeatsForEver == WholeSeconds => [](stage = "running" => <>(age = 0))
===============================================================================
