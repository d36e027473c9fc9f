---------------------------- MODULE ActuatorHandover ----------------------------
(* The refinement mapping from Actuator to Handover, for reads that do not  *)
(* lag (with lagging reads Delete may release a DNSRecord it never saw).    *)
EXTENDS ActuatorInvariant

\* An Extension serves until the Reconcile that is still running when its end is
\* requested has finished.
Serving == op \in {"Reconcile", "Restore"} \/ phase \in {"live", "restoring"}

Life == IF Serving THEN "serving"
        ELSE CASE phase = "migrating" -> "moving"
               [] phase = "deleting"  -> "removing"
               [] OTHER               -> "ended"

\* A ManagedResource that is being deleted without keepObjects removes what it
\* keeps; the DNSRecord's never does, so Handover has no such keeper for it.
KeeperOf(mr) == IF ~mr.exists THEN "nobody"
                ELSE IF ~mr.deleting THEN "managing"
                ELSE IF mr.keep THEN "releasing" ELSE "removing"

StateOf(r) == IF ~r.exists THEN "none"
              ELSE IF r.deleting THEN "leaving"
              ELSE IF r.confirmed THEN "confirmed" ELSE "present"

Promise == INSTANCE Handover WITH
    life         <- Life,
    forced       <- (stage = "forced"),
    recordKeeper <- KeeperOf(seedMR),
    recordState  <- StateOf(record),
    objectKeeper <- KeeperOf(shootMR),
    workload     <- (traefik # "absent")

\* Whatever fails, dies, times out or is requested in between, the actuator's
\* steps are steps of the hand-over or change nothing in it (deployer.go:243-302,
\* actuator.go:333-446).
KeepsPromise == Promise!Spec
===============================================================================
