---------------------------- MODULE HeartbeatProofs ----------------------------
(* Proofs about Heartbeat, for every interval, delay and number of failures. *)
EXTENDS Heartbeat, TLAPS

\* Cutting an interval to whole seconds never makes it longer, and leaves at
\* least one second of one that had it.
LEMMA CutIntervals ==
    ASSUME TypeOK
    PROVE  /\ RenewIntervalSeconds \in Nat
           /\ 2 * RenewIntervalSeconds <= renewInterval
           /\ WholeSeconds => RenewIntervalSeconds > 0
  BY HeartbeatAssumption DEF TypeOK, RenewIntervalSeconds, WholeSeconds

\* The types are inductive.
LEMMA NextKeepsTypes == TypeOK /\ [Next]_vars => TypeOK'
<1> SUFFICES ASSUME TypeOK, [Next]_vars PROVE TypeOK'
  OBVIOUS
<1> USE DEF TypeOK
<1>1. CASE Start
  BY <1>1 DEF Start
<1>2. CASE Renew
  BY <1>2, CutIntervals DEF Renew
<1>3. CASE RenewFails
  BY <1>3, HeartbeatAssumption DEF RenewFails
<1>4. CASE Tick
  BY <1>4 DEF Tick
<1>5. CASE UNCHANGED vars
  BY <1>5 DEF vars
<1> QED
  BY <1>1, <1>2, <1>3, <1>4, <1>5 DEF Next

\* The allowance starts at the interval and grows with every failed renewal.
LEMMA AllowanceGrows ==
    ASSUME TypeOK
    PROVE  /\ Allowance(failures) \in Nat
           /\ Allowance(0) = renewInterval
           /\ Allowance(failures + 1) = Allowance(failures) + Backoff
  BY HeartbeatAssumption DEF TypeOK, Allowance

\* Nothing changes the interval.
LEMMA IntervalFixed == [Next]_vars => renewInterval' = renewInterval
  BY DEF Next, Start, Renew, RenewFails, Tick, vars

\* Every renewal, failure and tick keeps the request within its allowance.
LEMMA NextKeepsScheduled == TypeOK /\ Scheduled /\ [Next]_vars => Scheduled'
<1> SUFFICES ASSUME TypeOK, Scheduled, [Next]_vars, WholeSeconds'
             PROVE  /\ stage' = "running" => requeued'
                    /\ age' + wait' <= Allowance(failures')
  BY IntervalFixed DEF Scheduled, Allowance
<1>1. /\ WholeSeconds
      /\ stage = "running" => requeued
      /\ age + wait <= Allowance(failures)
  BY IntervalFixed DEF WholeSeconds, Scheduled
<1>2. CASE Start
  BY <1>1, <1>2 DEF Start
<1>3. CASE Renew
  <2>1. RenewIntervalSeconds > 0 /\ 2 * RenewIntervalSeconds <= renewInterval
    BY <1>1, CutIntervals
  <2>2. requeued'
    BY <1>3, <2>1, Zenon DEF Renew
  <2>3. age' + wait' <= renewInterval /\ failures' = 0
    BY <1>3, <2>1, CutIntervals DEF Renew
  <2> QED
    BY <2>2, <2>3, AllowanceGrows
<1>4. CASE RenewFails
  <2>1. /\ wait' \in 1..Backoff /\ age' = age /\ failures' = failures + 1
        /\ requeued' = requeued /\ requeued /\ wait = 0
    BY <1>4 DEF RenewFails, Due
  <2>2. age' + wait' <= Allowance(failures) + Backoff
    BY <1>1, <2>1, AllowanceGrows, HeartbeatAssumption DEF TypeOK
  <2> QED
    BY <2>1, <2>2, AllowanceGrows
<1>5. CASE Tick
  <2>1. requeued /\ wait > 0
    BY <1>1, <1>5 DEF Tick, Due, TypeOK
  <2>2. age' + wait' <= age + wait
    BY <1>5, <2>1 DEF Tick, TypeOK
  <2>3. age' \in Nat /\ wait' \in Nat
    BY NextKeepsTypes DEF TypeOK
  <2> QED
    BY <1>1, <1>5, <2>1, <2>2, <2>3, AllowanceGrows DEF Tick, TypeOK
<1>6. CASE UNCHANGED vars
  BY <1>1, <1>6 DEF vars
<1> QED
  BY <1>2, <1>3, <1>4, <1>5, <1>6 DEF Next

LEMMA InitScheduled == Init => TypeOK /\ Scheduled
<1> SUFFICES ASSUME Init PROVE TypeOK /\ Scheduled
  OBVIOUS
<1>1. TypeOK
  BY HeartbeatAssumption DEF Init, TypeOK
<1>2. age + wait <= Allowance(failures)
  BY <1>1, AllowanceGrows DEF Init, TypeOK
<1> QED
  BY <1>1, <1>2, Zenon DEF Init, Scheduled

\* Every reachable state of the heartbeat is well typed.
THEOREM TypeCorrect == Spec => []TypeOK
  BY InitScheduled, NextKeepsTypes, PTL DEF Spec

\* A running heartbeat always has its next renewal in the queue, due before the
\* lease is older than it may get (heartbeat.go:59-70).
THEOREM AlwaysScheduled == Spec => []Scheduled
  BY InitScheduled, NextKeepsTypes, NextKeepsScheduled, PTL DEF Spec

\* The lease is never older than its interval and the delays of failed attempts,
\* for every interval of a second or more (heartbeat.go:59-70).
THEOREM LeaseStaysFresh == Spec => []LeaseFresh
<1>1. TypeOK /\ Scheduled => LeaseFresh
  BY AllowanceGrows DEF TypeOK, Scheduled, LeaseFresh
<1> QED
  BY <1>1, TypeCorrect, AlwaysScheduled, PTL
===============================================================================
