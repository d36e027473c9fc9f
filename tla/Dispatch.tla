-------------------------------- MODULE Dispatch --------------------------------
(***************************************************************************)
(* What an operation of the actuator may rely on, without queues, replicas *)
(* and leases: for each Extension one operation at a time, a Reconcile     *)
(* never after the end was requested, and an Extension that disappears     *)
(* only before its first operation or when a cleanup has come to its end.  *)
(* ControllerPool implements this.  Actuator is built on it: StartOperation*)
(* is StartReconcile and StartCleanup, for one Extension, and carries the  *)
(* operation out call by call.                                             *)
(***************************************************************************)
CONSTANT Extensions

VARIABLES
    life,      \* "absent", "new" (nothing has run yet), "live", "leaving"
    running    \* the operation in progress: "none", "reconcile", "cleanup"

vars == <<life, running>>

Init ==
    /\ life = [x \in Extensions |-> "absent"]
    /\ running = [x \in Extensions |-> "none"]

-----------------------------------------------------------------------------
(* The life of an Extension.                                               *)

Become(x, stage) == life' = [life EXCEPT ![x] = stage]

Appear(x) ==
    /\ life[x] = "absent" /\ running[x] = "none"
    /\ Become(x, "new")
    /\ UNCHANGED running

Withdraw(x) ==
    /\ life[x] = "new" /\ running[x] = "none"
    /\ Become(x, "absent")
    /\ UNCHANGED running

\* The end is requested, possibly during a Reconcile, which goes on.
Leave(x) ==
    /\ life[x] \in {"new", "live"}
    /\ Become(x, "leaving")
    /\ UNCHANGED running

-----------------------------------------------------------------------------
(* The operations.                                                         *)

StartReconcile(x) ==
    /\ life[x] \in {"new", "live"} /\ running[x] = "none"
    /\ Become(x, "live")
    /\ running' = [running EXCEPT ![x] = "reconcile"]

StartCleanup(x) ==
    /\ life[x] = "leaving" /\ running[x] = "none"
    /\ running' = [running EXCEPT ![x] = "cleanup"]
    /\ UNCHANGED life

FinishCleanup(x) ==
    /\ life[x] = "leaving" /\ running[x] = "cleanup"
    /\ Become(x, "absent")
    /\ running' = [running EXCEPT ![x] = "none"]

\* Reconciles are finished, operations fail, or a process dies with all it runs.
Stop ==
    /\ UNCHANGED life
    /\ running' \in [Extensions -> {"none", "reconcile", "cleanup"}]
    /\ \A x \in Extensions : running'[x] \in {running[x], "none"}

Next ==
    \/ Stop
    \/ \E x \in Extensions :
         \/ Appear(x) \/ Withdraw(x) \/ Leave(x)
         \/ StartReconcile(x) \/ StartCleanup(x) \/ FinishCleanup(x)

Spec == Init /\ [][Next]_vars
=================================================================================
