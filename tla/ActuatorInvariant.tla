--------------------------- MODULE ActuatorInvariant ---------------------------
(* The inductive invariants behind the safety properties of Actuator: what  *)
(* holds however far the cache lags, and what holds when reads are current. *)
EXTENDS Actuator

Cleanup == {"Delete", "ForceDelete", "Migrate"}

\* Which operation may be at which call, and in which phase of the Extension.
StepsBelongToOperations ==
    /\ pc = "idle" <=> op = "none"
    /\ pc \in ReconcileSteps => op \in {"Reconcile", "Restore"}
    /\ pc \in DNSSteps \cup ShootSteps => op \in Cleanup
    /\ pc = "keepShoot" => op # "Delete"
    /\ pc = "deployDNS" => addr \in Address

OperationsBelongToPhases ==
    /\ op \in {"Delete", "ForceDelete"} => phase = "deleting"
    /\ op = "ForceDelete" => stage = "forced"
    /\ op = "Migrate" => phase = "migrating"
    /\ op \in {"Reconcile", "Restore"} =>
          finalizer /\ phase \in {"live", "restoring", "migrating", "deleting"}

\* The finalizer stays as long as there is something to clean up.
Protection ==
    /\ phase \in {"none", "deleted", "migrated", "forceDeleted"} => ~finalizer
    /\ ~finalizer => op \in {"none", "Migrate"} /\ phase # "deleting"

\* A ManagedResource that is still there is on its way out, and resource-manager
\* will leave what it describes where it is.
Released(mr) == mr.exists => mr.deleting /\ mr.keep

\* What the calls made so far have achieved, even if what a Get returned is old:
\* only what an operation wrote itself counts.
Requests ==
    /\ pc = "deleteSeed" /\ seedMR.exists => seedMR.keep
    /\ pc \in DNSSteps \ {"keepSeed", "deleteSeed"} => Released(seedMR)
    /\ op \in {"Delete", "Migrate"} /\ pc \in ShootSteps \cup {"succeeded"} =>
          Released(seedMR)
    /\ op \in Cleanup /\ pc \in {"waitShoot", "succeeded"} =>
          (shootMR.exists => shootMR.deleting)
    /\ op \in {"ForceDelete", "Migrate"}
          /\ pc \in {"deleteShoot", "waitShoot", "succeeded"} =>
          (shootMR.exists => shootMR.keep)

\* Without the finalizer, nothing is left that nobody takes away any more.
Forsaken ==
    ~finalizer /\ phase # "forceDeleted" =>
        Released(seedMR) /\ (shootMR.exists => shootMR.deleting)

\* Inductive however old what the cache answers is.
AnyReadInv ==
    /\ TypeOK /\ TargetsAreAddresses
    /\ ReleasedAfterSuccess
    /\ StepsBelongToOperations /\ OperationsBelongToPhases
    /\ Protection /\ Requests /\ Forsaken

-----------------------------------------------------------------------------
\* Deletions of ManagedResources: who may have started them and how.
DeletionsAreOwned ==
    /\ seedMR.deleting => seedMR.keep /\ op \notin {"Reconcile", "Restore"}
    /\ seedMR.deleting => phase \in {"deleting", "migrating", "forceDeleted"}
    /\ shootMR.deleting => op \notin {"Reconcile", "Restore"}
    /\ shootMR.deleting => phase \in {"deleting", "migrating"}
    /\ shootMR.deleting /\ ~shootMR.keep => phase = "deleting"
    /\ pc = "deleteSeed" /\ seedMR.exists => seedMR.keep
    /\ pc = "deleteShoot" /\ shootMR.exists /\ op = "Migrate" => shootMR.keep
    /\ stage # "active" => phase \notin {"migrating", "migrated"}

\* How far an operation has got.
Progress ==
    /\ op \in {"Delete", "Migrate"} /\ pc \in ShootSteps \cup {"succeeded"} =>
          ~seedMR.exists /\ RecordOnItsWayOut
    /\ op \in Cleanup /\ pc = "succeeded" => ~shootMR.exists
    /\ ~shootMR.exists /\ traefik = "managed" => FALSE
    /\ pc = "reconfirmRecord" /\ record.exists => record.confirmed

\* Before the first operation nothing is there that the finalizer would have to
\* protect.
NothingUnprotected ==
    ~finalizer /\ phase # "forceDeleted" =>
        ~seedMR.exists /\ ~shootMR.exists /\ RecordOnItsWayOut

\* Inductive when reads do not lag.
IInv ==
    /\ AnyReadInv
    /\ HandedOver /\ DeletionNotBlocked
    /\ CleanAfterSuccess /\ ForcedLeavesNoShootMR /\ DNSFirst
    /\ DeletionsAreOwned /\ Progress /\ NothingUnprotected
===============================================================================
