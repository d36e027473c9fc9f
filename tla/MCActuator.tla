------------------------------ MODULE MCActuator ------------------------------
(* Small instances of Actuator for TLC. *)
EXTENDS ActuatorHandover

MCUsable == [hibernated |-> FALSE, domain |-> TRUE, external |-> TRUE,
             valid |-> TRUE]

\* A usable shoot and, each on its own, every reason for Reconcile to stop
\* early.
MCShootStates ==
    {MCUsable,
     [MCUsable EXCEPT !.hibernated = TRUE],
     [MCUsable EXCEPT !.external = FALSE],
     [MCUsable EXCEPT !.valid = FALSE],
     [MCUsable EXCEPT !.domain = FALSE]}

MCUsableOnly == {MCUsable}
MCHibernating == {MCUsable, [MCUsable EXCEPT !.hibernated = TRUE]}

\* No call fails and no process dies.
FaultlessNext ==
    \/ LandscapeNext /\ UNCHANGED workerVars
    \/ StartOperation
    \/ WorkerStep

FaultlessSpec == Init /\ [][FaultlessNext]_vars
===============================================================================
