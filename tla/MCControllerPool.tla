---------------------------- MODULE MCControllerPool ----------------------------
(* Small instances of ControllerPool for TLC. *)
EXTENDS ControllerPool

Command(workers, resync, ignore) ==
    [ leaderElection |-> TRUE, maxConcurrentReconciles |-> workers,
      resync |-> resync, ignoreOperationAnnotation |-> ignore ]

\* One worker (the library's default for zero) or one for each Extension, with
\* and without a resync interval and the operation annotation.
MCFlags == { Command(0, TRUE, FALSE), Command(2, FALSE, TRUE) }
=================================================================================
