-------------------------- MODULE ActuatorHandoverProofs --------------------------
(* The proof that Actuator implements Handover, for every set of addresses  *)
(* and shoot states, when reads do not lag.                                 *)
EXTENDS ActuatorHandover, ActuatorProofs

\* What Handover sees of an object, for objects that are well typed.
LEMMA Keepers ==
    ASSUME NEW mr, MRTyped(mr)
    PROVE  /\ mr.deleting => mr.exists
           /\ KeeperOf(mr) = "nobody" <=> ~mr.exists
           /\ KeeperOf(mr) = "managing" <=> mr.exists /\ ~mr.deleting
           /\ KeeperOf(mr) = "releasing" <=> mr.deleting /\ mr.keep
           /\ KeeperOf(mr) = "removing" <=> mr.deleting /\ ~mr.keep
<1>1. mr.exists \in BOOLEAN /\ mr.deleting \in BOOLEAN /\ mr.keep \in BOOLEAN
  BY DEF MRTyped, ManagedResource
<1>2. ~mr.exists => ~mr.deleting
  BY DEF MRTyped, NoMR
<1>3. CASE ~mr.exists
  <2>1. KeeperOf(mr) = "nobody"
    BY <1>3 DEF KeeperOf
  <2> QED
    BY <1>1, <1>2, <1>3, <2>1
<1>4. CASE mr.exists /\ ~mr.deleting
  <2>1. KeeperOf(mr) = "managing"
    BY <1>4 DEF KeeperOf
  <2> QED
    BY <1>1, <1>2, <1>4, <2>1
<1>5. CASE mr.exists /\ mr.deleting /\ mr.keep
  <2>1. KeeperOf(mr) = "releasing"
    BY <1>5 DEF KeeperOf
  <2> QED
    BY <1>1, <1>2, <1>5, <2>1
<1>6. CASE mr.exists /\ mr.deleting /\ ~mr.keep
  <2>1. KeeperOf(mr) = "removing"
    BY <1>6 DEF KeeperOf
  <2> QED
    BY <1>1, <1>2, <1>6, <2>1
<1> QED
  BY <1>1, <1>3, <1>4, <1>5, <1>6

LEMMA RecordStates ==
    ASSUME NEW r, RecordTyped(r)
    PROVE  /\ r.deleting => r.exists
           /\ r.confirmed => r.exists
           /\ StateOf(r) = "none" <=> ~r.exists
           /\ StateOf(r) = "leaving" <=> r.deleting
           /\ StateOf(r) = "confirmed" <=> r.confirmed /\ ~r.deleting
           /\ StateOf(r) = "present" <=>
                 r.exists /\ ~r.confirmed /\ ~r.deleting
<1>1. /\ r.exists \in BOOLEAN /\ r.deleting \in BOOLEAN
      /\ r.confirmed \in BOOLEAN
  BY DEF RecordTyped, DNSRecord
<1>2. ~r.exists => ~r.deleting /\ ~r.confirmed
  BY DEF RecordTyped, NoRecord
<1>3. CASE ~r.exists
  <2>1. StateOf(r) = "none"
    BY <1>3 DEF StateOf
  <2> QED
    BY <1>1, <1>2, <1>3, <2>1
<1>4. CASE r.exists /\ r.deleting
  <2>1. StateOf(r) = "leaving"
    BY <1>4 DEF StateOf
  <2> QED
    BY <1>1, <1>2, <1>4, <2>1
<1>5. CASE r.exists /\ ~r.deleting /\ r.confirmed
  <2>1. StateOf(r) = "confirmed"
    BY <1>5 DEF StateOf
  <2> QED
    BY <1>1, <1>2, <1>5, <2>1
<1>6. CASE r.exists /\ ~r.deleting /\ ~r.confirmed
  <2>1. StateOf(r) = "present"
    BY <1>6 DEF StateOf
  <2> QED
    BY <1>1, <1>2, <1>6, <2>1
<1> QED
  BY <1>1, <1>3, <1>4, <1>5, <1>6

\* The mapping is a function of the variables it names.
LEMMA Views ==
    /\ UNCHANGED <<phase, op>> => Life' = Life
    /\ UNCHANGED stage => ((stage = "forced")' = (stage = "forced"))
    /\ UNCHANGED traefik => ((traefik # "absent")' = (traefik # "absent"))
<1>1. UNCHANGED <<phase, op>> => Life' = Life
  BY DEF Life, Serving
<1>2. UNCHANGED stage => ((stage = "forced")' = (stage = "forced"))
  BY Zenon
<1>3. UNCHANGED traefik => ((traefik # "absent")' = (traefik # "absent"))
  BY Zenon
<1> QED
  BY <1>1, <1>2, <1>3

\* A step that touches nothing Handover sees.
LEMMA Stutter ==
    ASSUME UNCHANGED <<phase, op, stage, seedMR, record, shootMR, traefik>>
    PROVE  UNCHANGED Promise!vars
  BY Views DEF Promise!vars, Promise!recordVars, Promise!objectVars

\* The surroundings' steps: gardenlet begins and ends the Extension's life,
\* resource-manager writes, finishes and lets go, the DNS extension takes away.
LEMMA LandscapeKeepsPromise ==
    ASSUME IInv, LandscapeNext, UNCHANGED workerVars, TypeOK'
    PROVE  Promise!Next \/ UNCHANGED Promise!vars
<1> USE DEF extensionVars, shootVars, mrVars, dnsVars, workerVars,
            Promise!recordVars, Promise!objectVars
<1>0. /\ MRTyped(seedMR) /\ MRTyped(shootMR) /\ RecordTyped(record)
      /\ MRTyped(seedMR') /\ MRTyped(shootMR') /\ RecordTyped(record')
  BY DEF IInv, AnyReadInv, TypeOK, LandscapeTypeOK
<1>1. CASE CreateExtension \/ RestoreExtension
  <2>1. Promise!Enter
    BY <1>1, Views
       DEF CreateExtension, RestoreExtension, Promise!Enter, Life, Serving,
           IInv, AnyReadInv, OperationsBelongToPhases,
           StepsBelongToOperations, TypeOK, WorkerTypeOK, Operation
  <2> QED
    BY <2>1 DEF Promise!Next
<1>2. CASE MigrateExtension
  <2>1. CASE op \in {"Reconcile", "Restore"}
    <3>1. Life' = Life
      BY <1>2, <2>1 DEF MigrateExtension, Life, Serving
    <3> QED
      BY <1>2, <3>1, Views DEF MigrateExtension, Promise!vars
  <2>2. CASE op \notin {"Reconcile", "Restore"}
    <3>1. Promise!Leave
      BY <1>2, <2>2, Views DEF MigrateExtension, Promise!Leave, Life, Serving
    <3> QED
      BY <3>1 DEF Promise!Next
  <2> QED
    BY <2>1, <2>2
<1>3. CASE DeleteShoot
  <2>1. (stage = "forced")' = (stage = "forced")
    BY <1>3, Zenon DEF DeleteShoot
  <2> QED
    BY <1>3, <2>1, Views DEF DeleteShoot, Promise!vars
<1>4. CASE ForceDeleteShoot
  <2>1. Promise!ForceRemoval
    BY <1>4, Views DEF ForceDeleteShoot, Promise!ForceRemoval
  <2> QED
    BY <2>1 DEF Promise!Next
<1>5. CASE DestroyExtension
  <2>1. CASE op \in {"Reconcile", "Restore"}
    <3>1. Life' = Life
      BY <1>5, <2>1 DEF DestroyExtension, Life, Serving
    <3> QED
      BY <1>5, <3>1, Views DEF DestroyExtension, Promise!vars
  <2>2. CASE op \notin {"Reconcile", "Restore"} /\ finalizer
    <3>1. Promise!Leave
      BY <1>5, <2>2, Views DEF DestroyExtension, Promise!Leave, Life, Serving
    <3> QED
      BY <3>1 DEF Promise!Next
  <2>3. CASE op \notin {"Reconcile", "Restore"} /\ ~finalizer
    <3>1. Life = "serving" /\ Life' = "ended"
      BY <1>5, <2>3 DEF DestroyExtension, Life, Serving
    <3>2. ~seedMR.exists /\ ~shootMR.exists /\ RecordOnItsWayOut
      BY <1>5, <2>3 DEF DestroyExtension, IInv, AnyReadInv, NothingUnprotected
    <3>3. KeeperOf(seedMR) = "nobody" /\ KeeperOf(shootMR) = "nobody"
          /\ StateOf(record) \in {"none", "leaving"}
      BY <1>0, <3>2, Keepers, RecordStates DEF RecordOnItsWayOut
    <3>4. Promise!Retire
      BY <1>5, <3>1, <3>3, Views
         DEF DestroyExtension, Promise!Retire, Promise!RecordSettled,
             Promise!RecordOut
    <3> QED
      BY <3>4 DEF Promise!Next
  <2> QED
    BY <2>1, <2>2, <2>3 DEF IInv, AnyReadInv, TypeOK, LandscapeTypeOK
<1>6. CASE UpdateShoot \/ ToggleAPI \/ Settle \/ AssignAddress \/ SyncCache
  BY <1>6, Stutter DEF UpdateShoot, ToggleAPI, Settle, AssignAddress, SyncCache
<1>7. CASE ApplyShootMR
  <2>1. Promise!WriteObjects
    BY <1>0, <1>7, Keepers, Views DEF ApplyShootMR, Promise!WriteObjects
  <2> QED
    BY <2>1 DEF Promise!Next
<1>8. CASE FinishShootMR
  <2>1. KeeperOf(shootMR) \in {"releasing", "removing"}
        /\ KeeperOf(shootMR') = "nobody"
    BY <1>0, <1>8, Keepers DEF FinishShootMR, NoMR
  <2>2. (traefik' # "absent") =
          ((traefik # "absent") /\ KeeperOf(shootMR) = "releasing")
    <3>1. CASE shootMR.keep
      <4>1. traefik' # "absent" <=> traefik # "absent"
        BY <1>8, <3>1 DEF FinishShootMR
      <4> QED
        BY <1>0, <1>8, <3>1, <4>1, Keepers DEF FinishShootMR
    <3>2. CASE ~shootMR.keep
      BY <1>0, <1>8, <3>2, Keepers DEF FinishShootMR
    <3> QED
      BY <3>1, <3>2
         DEF IInv, AnyReadInv, TypeOK, LandscapeTypeOK, MRTyped, ManagedResource
  <2>3. Promise!FinishObjects
    BY <1>8, <2>1, <2>2, Views DEF FinishShootMR, Promise!FinishObjects
  <2> QED
    BY <2>3 DEF Promise!Next
<1>9. CASE ApplySeedMR
  <2>1. CASE record.exists /\ record.deleting
    <3>1. StateOf(record') = StateOf(record)
      BY <1>0, <1>9, <2>1, RecordStates DEF ApplySeedMR, AppliedRecord
    <3> QED
      BY <1>9, <3>1, Views DEF ApplySeedMR, Promise!vars
  <2>2. CASE ~(record.exists /\ record.deleting)
    <3>1. ~record.deleting
      BY <2>2
         DEF IInv, AnyReadInv, TypeOK, LandscapeTypeOK, RecordTyped, DNSRecord,
             NoRecord
    <3>2. StateOf(record) # "leaving" /\ StateOf(record') = "present"
      BY <1>0, <1>9, <3>1, RecordStates DEF ApplySeedMR, AppliedRecord
    <3>3. KeeperOf(seedMR) = "managing"
      BY <1>0, <1>9, Keepers DEF ApplySeedMR
    <3>4. Promise!WriteRecord
      BY <1>9, <3>2, <3>3, Views DEF ApplySeedMR, Promise!WriteRecord
    <3> QED
      BY <3>4 DEF Promise!Next
  <2> QED
    BY <2>1, <2>2
<1>10. CASE FinishSeedMR
  <2>1. Promise!LetRecordGo
    <3>1. seedMR.keep /\ ~seedMR'.exists
      BY <1>10 DEF FinishSeedMR, IInv, AnyReadInv, DeletionsAreOwned, NoMR
    <3> QED
      BY <1>0, <1>10, <3>1, Keepers, Views DEF FinishSeedMR, Promise!LetRecordGo
  <2> QED
    BY <2>1 DEF Promise!Next
<1>11. CASE PublishEntry
  <2>1. StateOf(record') = StateOf(record)
    BY <1>11
       DEF PublishEntry, StateOf, IInv, AnyReadInv, TypeOK, LandscapeTypeOK,
           RecordTyped, DNSRecord
  <2> QED
    BY <1>11, <2>1, Views DEF PublishEntry, Promise!vars
<1>12. CASE WithdrawEntry
  <2>1. Promise!RecordGone
    BY <1>0, <1>12, RecordStates, Views
       DEF WithdrawEntry, Promise!RecordGone, NoRecord
  <2> QED
    BY <2>1 DEF Promise!Next
<1> QED
  BY <1>1, <1>2, <1>3, <1>4, <1>5, <1>6, <1>7, <1>8, <1>9, <1>10, <1>11, <1>12
     DEF LandscapeNext

\* While a cleanup runs, the Extension's life says which.
LEMMA CleanupLife ==
    ASSUME IInv, op \in Cleanup
    PROVE  /\ op = "Migrate" => Life = "moving"
           /\ op # "Migrate" => Life = "removing" /\ phase = "deleting"
           /\ op = "ForceDelete" => stage = "forced"
  BY DEF IInv, AnyReadInv, OperationsBelongToPhases, Life, Serving, Cleanup

\* The worker's steps.  Those that change nothing but the step they are at, those
\* of a Reconcile, and those of a cleanup, each of which is a step of Handover or
\* repeats what an earlier attempt has done.
LEMMA WorkerKeepsPromise ==
    ASSUME IInv, StartOperation \/ WorkerStep \/ CallFails \/ Crash, TypeOK',
           StaleReads = FALSE
    PROVE  Promise!Next \/ UNCHANGED Promise!vars
<1> USE DEF extensionVars, shootVars, mrVars, dnsVars, workerVars, landscapeVars,
            Promise!recordVars, Promise!objectVars
<1>0. /\ MRTyped(seedMR) /\ MRTyped(shootMR) /\ RecordTyped(record)
      /\ MRTyped(seedMR') /\ MRTyped(shootMR') /\ RecordTyped(record')
  BY DEF IInv, AnyReadInv, TypeOK, LandscapeTypeOK
<1>1. CASE StartOperation
  <2>1. Life' = Life
    BY <1>1
       DEF StartOperation, Requested, Life, Serving, IInv, AnyReadInv,
           StepsBelongToOperations
  <2> QED
    BY <1>1, <2>1, Views DEF StartOperation, Promise!vars
<1>2. ASSUME UNCHANGED landscapeVars, UNCHANGED op \/ op' = "none"
      PROVE  Promise!Next \/ UNCHANGED Promise!vars
  <2>1. CASE UNCHANGED op
    BY <1>2, <2>1, Stutter
  <2>2. CASE op' = "none" /\ (op \notin {"Reconcile", "Restore"}
                              \/ phase \in {"live", "restoring"})
    <3>1. Life' = Life
      BY <1>2, <2>2 DEF Life, Serving
    <3> QED
      BY <1>2, <3>1, Views DEF Promise!vars
  <2>3. CASE op' = "none" /\ op \in {"Reconcile", "Restore"}
                          /\ phase \notin {"live", "restoring"}
    <3>1. phase \in {"migrating", "deleting"}
      BY <2>3 DEF IInv, AnyReadInv, OperationsBelongToPhases
    <3>2. Life = "serving"
      BY <2>3 DEF Life, Serving
    <3>3. Life' \in {"moving", "removing"}
      BY <1>2, <2>3, <3>1 DEF Life, Serving
    <3>4. Promise!Leave
      BY <1>2, <3>2, <3>3, Views DEF Promise!Leave
    <3> QED
      BY <3>4 DEF Promise!Next
  <2> QED
    BY <1>2, <2>1, <2>2, <2>3
<1>3. CASE GetCluster \/ LookUpExternalRecord \/ GetService \/ WaitSeedMRDeleted
            \/ GetDNSRecord \/ WaitShootMRDeleted \/ CallFails \/ Crash
  BY <1>2, <1>3
     DEF GetCluster, LookUpExternalRecord, GetService, WaitSeedMRDeleted,
         GetDNSRecord, WaitShootMRDeleted, CallFails, Crash, Goto, Fail, Stop
<1>4. CASE Deploy
  <2>1. /\ op \in {"Reconcile", "Restore"} /\ ~shootMR.deleting
        /\ UNCHANGED <<phase, op>>
    BY <1>4
       DEF Deploy, Goto, ReconcileSteps, IInv, AnyReadInv,
           StepsBelongToOperations, DeletionsAreOwned
  <2>2. KeeperOf(shootMR') = "managing"
    BY <1>4, <2>1, <1>0, Keepers
       DEF Deploy, Created, MRTyped, ManagedResource
  <2>3. CASE shootMR.exists
    <3>1. KeeperOf(shootMR) = "managing"
      BY <1>0, <2>1, <2>3, Keepers
    <3> QED
      BY <1>4, <2>1, <2>2, <3>1, Views DEF Deploy, Promise!vars
  <2>4. CASE ~shootMR.exists
    <3>1. KeeperOf(shootMR) = "nobody" /\ Life = "serving"
      BY <1>0, <2>1, <2>4, Keepers DEF Life, Serving
    <3>2. Promise!ManageObjects
      BY <1>4, <2>1, <2>2, <3>1, Views DEF Deploy, Promise!ManageObjects
    <3> QED
      BY <3>2 DEF Promise!Next
  <2> QED
    BY <2>3, <2>4
<1>5. CASE DeployDNSRecord
  <2>1. /\ op \in {"Reconcile", "Restore"} /\ ~seedMR.deleting
        /\ UNCHANGED <<phase, op>>
    BY <1>5
       DEF DeployDNSRecord, ReconcileSteps, IInv, AnyReadInv,
           StepsBelongToOperations, DeletionsAreOwned
  <2>2. KeeperOf(seedMR') = "managing"
    BY <1>5, <2>1, <1>0, Keepers
       DEF DeployDNSRecord, Created, MRTyped, ManagedResource
  <2>3. CASE seedMR.exists
    <3>1. KeeperOf(seedMR) = "managing"
      BY <1>0, <2>1, <2>3, Keepers
    <3> QED
      BY <1>5, <2>1, <2>2, <3>1, Views DEF DeployDNSRecord, Promise!vars
  <2>4. CASE ~seedMR.exists
    <3>1. KeeperOf(seedMR) = "nobody" /\ Life = "serving"
      BY <1>0, <2>1, <2>4, Keepers DEF Life, Serving
    <3>2. Promise!ManageRecord
      BY <1>5, <2>1, <2>2, <3>1, Views DEF DeployDNSRecord, Promise!ManageRecord
    <3> QED
      BY <3>2 DEF Promise!Next
  <2> QED
    BY <2>3, <2>4
<1>6. CASE KeepSeedObjects
  <2>1. KeeperOf(seedMR') = KeeperOf(seedMR)
    BY <1>6
       DEF KeepSeedObjects, Kept, KeeperOf, IInv, AnyReadInv, DeletionsAreOwned,
           TypeOK, LandscapeTypeOK, MRTyped, ManagedResource
  <2> QED
    BY <1>6, <2>1, Views DEF KeepSeedObjects, Goto, Promise!vars
<1>7. CASE DeleteSeedMR
  <2>1. op \in Cleanup /\ UNCHANGED <<phase, op>>
        /\ (seedMR.exists => seedMR.keep)
    BY <1>7
       DEF DeleteSeedMR, Goto, DNSSteps, IInv, AnyReadInv,
           StepsBelongToOperations, DeletionsAreOwned
  <2>2. CASE seedMR.exists /\ ~seedMR.deleting
    <3>1. KeeperOf(seedMR) = "managing"
      BY <1>0, <2>2, Keepers
    <3>2. KeeperOf(seedMR') = "releasing"
      BY <1>7, <2>1, <2>2 DEF DeleteSeedMR, Condemned, KeeperOf, TypeOK,
         LandscapeTypeOK, MRTyped, ManagedResource, IInv, AnyReadInv
    <3>3. Promise!ReleaseRecord
      BY <1>7, <2>1, <3>1, <3>2, CleanupLife, Views
         DEF DeleteSeedMR, Promise!ReleaseRecord, Promise!Cleaning
    <3> QED
      BY <3>3 DEF Promise!Next
  <2>3. CASE ~(seedMR.exists /\ ~seedMR.deleting)
    <3>1. KeeperOf(seedMR') = KeeperOf(seedMR)
      BY <1>7, <2>3 DEF DeleteSeedMR, Condemned, KeeperOf, TypeOK,
         LandscapeTypeOK, MRTyped, ManagedResource, IInv, AnyReadInv
    <3> QED
      BY <1>7, <2>1, <3>1, Views DEF DeleteSeedMR, Promise!vars
  <2> QED
    BY <2>2, <2>3
<1>8. CASE ConfirmDNSRecord
  <2>1. CASE ~record.exists
    BY <1>2, <1>8, <2>1 DEF ConfirmDNSRecord, Fail, Goto, Stop
  <2>2. CASE record.exists
    <3>1. op \in Cleanup /\ UNCHANGED <<phase, op>> /\ ~seedMR.exists
      BY <1>8, <2>2 DEF ConfirmDNSRecord, Goto, DNSSteps, IInv,
         AnyReadInv, StepsBelongToOperations, HandedOver
    <3>2. /\ record'.exists /\ record'.confirmed
          /\ record'.deleting = record.deleting
      <4>1. CASE pc = "confirmRecord"
        BY <1>0, <1>8, <2>2, <4>1 DEF ConfirmDNSRecord, RecordTyped, DNSRecord
      <4>2. CASE pc = "reconfirmRecord"
        BY <1>8, <2>2, <4>2 DEF ConfirmDNSRecord, IInv, Progress
      <4> QED
        BY <1>8, <4>1, <4>2 DEF ConfirmDNSRecord
    <3>3. CASE ~record.deleting /\ ~record.confirmed
      <4>1. StateOf(record) = "present" /\ StateOf(record') = "confirmed"
        BY <2>2, <3>2, <3>3 DEF StateOf
      <4>2. Promise!ConfirmRecord
        BY <1>0, <1>8, <3>1, <4>1, CleanupLife, Keepers, Views
           DEF ConfirmDNSRecord, Promise!ConfirmRecord, Promise!Cleaning
      <4> QED
        BY <4>2 DEF Promise!Next
    <3>4. CASE record.deleting \/ record.confirmed
      <4>1. StateOf(record') = StateOf(record)
        BY <2>2, <3>2, <3>4 DEF StateOf
      <4> QED
        BY <1>8, <3>1, <4>1, Views DEF ConfirmDNSRecord, Promise!vars
    <3> QED
      BY <3>3, <3>4
  <2> QED
    BY <2>1, <2>2
<1>9. CASE DeleteDNSRecordObject
  <2>1. CASE record.exists /\ ~record.confirmed
    BY <1>2, <1>9, <2>1 DEF DeleteDNSRecordObject, Fail, Goto, Stop
  <2>2. CASE ~record.exists
    <3>1. UNCHANGED record
      BY <1>9, <2>2 DEF DeleteDNSRecordObject, Condemned
    <3> QED
      BY <1>2, <1>9, <2>2, <3>1 DEF DeleteDNSRecordObject, Goto
  <2>3. CASE record.exists /\ record.confirmed
    <3>1. op \in Cleanup /\ UNCHANGED <<phase, op>> /\ ~seedMR.exists
      BY <1>9, <2>3 DEF DeleteDNSRecordObject, Goto, DNSSteps, IInv,
         AnyReadInv, StepsBelongToOperations, HandedOver
    <3>2. record'.exists /\ record'.deleting
      BY <1>0, <1>9, <2>3
         DEF DeleteDNSRecordObject, Condemned, RecordTyped, DNSRecord
    <3>3. CASE ~record.deleting
      <4>1. StateOf(record) = "confirmed" /\ StateOf(record') = "leaving"
        BY <2>3, <3>2, <3>3 DEF StateOf
      <4>2. Promise!DeleteRecord
        BY <1>0, <1>9, <3>1, <4>1, CleanupLife, Keepers, Views
           DEF DeleteDNSRecordObject, Promise!DeleteRecord, Promise!Cleaning
      <4> QED
        BY <4>2 DEF Promise!Next
    <3>4. CASE record.deleting
      <4>1. StateOf(record') = StateOf(record)
        BY <2>3, <3>2, <3>4 DEF StateOf
      <4> QED
        BY <1>9, <3>1, <4>1, Views DEF DeleteDNSRecordObject, Promise!vars
    <3> QED
      BY <3>3, <3>4
  <2> QED
    BY <1>0, <2>1, <2>2, <2>3 DEF RecordTyped, DNSRecord
<1>10. CASE KeepShootObjects
  <2>1. op \in {"ForceDelete", "Migrate"} /\ UNCHANGED <<phase, op>>
    BY <1>10 DEF KeepShootObjects, Goto, ShootSteps, IInv,
                 AnyReadInv, StepsBelongToOperations, Cleanup
  <2>2. CASE shootMR.deleting /\ ~shootMR.keep
    <3>1. op = "ForceDelete"
      BY <2>1, <2>2
         DEF IInv, AnyReadInv, DeletionsAreOwned, OperationsBelongToPhases
    <3>2. KeeperOf(shootMR) = "removing" /\ KeeperOf(shootMR') = "releasing"
      BY <1>0, <1>10, <2>2, Keepers
         DEF KeepShootObjects, Kept, KeeperOf, MRTyped, ManagedResource
    <3>3. Promise!SpareObjects
      BY <1>10, <2>1, <3>1, <3>2, CleanupLife, Views
         DEF KeepShootObjects, Promise!SpareObjects, Promise!Cleaning, Cleanup
    <3> QED
      BY <3>3 DEF Promise!Next
  <2>3. CASE ~(shootMR.deleting /\ ~shootMR.keep)
    <3>1. KeeperOf(shootMR') = KeeperOf(shootMR)
      BY <1>0, <1>10, <2>3
         DEF KeepShootObjects, Kept, KeeperOf, MRTyped, ManagedResource
    <3> QED
      BY <1>10, <2>1, <3>1, Views DEF KeepShootObjects, Promise!vars
  <2> QED
    BY <2>2, <2>3
<1>11. CASE DeleteShootMR
  <2>1. op \in Cleanup /\ UNCHANGED <<phase, op>>
        /\ (op = "Migrate" /\ shootMR.exists => shootMR.keep)
        /\ (op # "ForceDelete" => ~seedMR.exists /\ RecordOnItsWayOut)
    BY <1>11 DEF DeleteShootMR, Goto, ShootSteps, IInv, AnyReadInv,
                 StepsBelongToOperations, DeletionsAreOwned, Progress, Cleanup
  <2>2. CASE shootMR.exists /\ ~shootMR.deleting
    <3>1. KeeperOf(shootMR) = "managing"
      BY <1>0, <2>2, Keepers
    <3>2. KeeperOf(shootMR') = IF shootMR.keep THEN "releasing" ELSE "removing"
      BY <1>0, <1>11, <2>2
         DEF DeleteShootMR, Condemned, KeeperOf, MRTyped, ManagedResource
    <3>3. op # "ForceDelete" => Promise!RecordSettled
      BY <1>0, <2>1, Keepers, RecordStates
         DEF Promise!RecordSettled, Promise!RecordOut, RecordOnItsWayOut
    <3>4. Promise!ReleaseObjects
      BY <1>11, <2>1, <2>2, <3>1, <3>2, <3>3, CleanupLife, Views
         DEF DeleteShootMR, Promise!ReleaseObjects, Promise!Cleaning, Cleanup
    <3> QED
      BY <3>4 DEF Promise!Next
  <2>3. CASE ~(shootMR.exists /\ ~shootMR.deleting)
    <3>1. KeeperOf(shootMR') = KeeperOf(shootMR)
      BY <1>0, <1>11, <2>3
         DEF DeleteShootMR, Condemned, KeeperOf, MRTyped, ManagedResource
    <3> QED
      BY <1>11, <2>1, <3>1, Views DEF DeleteShootMR, Promise!vars
  <2> QED
    BY <2>2, <2>3
<1>12. CASE CompleteOperation
  <2>0. op' = "none" /\ pc = "succeeded"
    BY <1>12 DEF CompleteOperation, Stop
  <2>1. CASE op \in {"Reconcile", "Restore"}
    <3>1. Life = "serving" /\ Life' \in {"serving", "moving", "removing"}
      BY <1>12, <2>0, <2>1 DEF CompleteOperation, Outcome, Life, Serving, IInv,
         AnyReadInv, OperationsBelongToPhases
    <3>2. CASE Life' = "serving"
      BY <1>12, <3>1, <3>2, Views DEF CompleteOperation, Promise!vars
    <3>3. CASE Life' # "serving"
      <4>1. Promise!Leave
        BY <1>12, <3>1, <3>3, Views DEF CompleteOperation, Promise!Leave
      <4> QED
        BY <4>1 DEF Promise!Next
    <3> QED
      BY <3>2, <3>3
  <2>2. CASE op \in Cleanup
    <3>1. /\ ~shootMR.exists
          /\ op # "ForceDelete" => ~seedMR.exists /\ RecordOnItsWayOut
      BY <2>0, <2>2 DEF IInv, AnyReadInv, Progress, Cleanup
    <3>2. Life' = "ended"
      BY <1>12, <2>0, <2>2
         DEF CompleteOperation, Outcome, Cleanup, Life, Serving
    <3>3. op # "ForceDelete" => Promise!RecordSettled
      BY <1>0, <3>1, Keepers, RecordStates
         DEF Promise!RecordSettled, Promise!RecordOut, RecordOnItsWayOut
    <3>4. KeeperOf(shootMR) = "nobody"
      BY <1>0, <3>1, Keepers
    <3>5. Promise!Retire
      BY <1>12, <2>2, <3>2, <3>3, <3>4, CleanupLife, Views
         DEF CompleteOperation, Promise!Retire, Cleanup
    <3> QED
      BY <3>5 DEF Promise!Next
  <2> QED
    BY <2>0, <2>1, <2>2
       DEF IInv, AnyReadInv, TypeOK, WorkerTypeOK, Operation, Cleanup,
           StepsBelongToOperations
<1> QED
  BY <1>1, <1>3, <1>4, <1>5, <1>6, <1>7, <1>8, <1>9, <1>10, <1>11, <1>12
     DEF WorkerStep

LEMMA InitKeepsPromise == Init => Promise!Init
  BY DEF Init, LandscapeInit, WorkerInit, Promise!Init, Life, Serving, KeeperOf,
         StateOf, NoMR, NoRecord

\* Every step of Actuator is a step of Handover or a stutter.
LEMMA NextKeepsPromise ==
    ASSUME StaleReads = FALSE
    PROVE  IInv /\ [Next]_vars => [Promise!Next]_(Promise!vars)
<1> SUFFICES ASSUME IInv, [Next]_vars PROVE Promise!Next \/ UNCHANGED Promise!vars
  OBVIOUS
<1>0. TypeOK'
  BY NextKeepsTypes DEF IInv, AnyReadInv
<1>1. CASE LandscapeNext /\ UNCHANGED workerVars
  BY <1>0, <1>1, LandscapeKeepsPromise
<1>2. CASE StartOperation \/ WorkerStep \/ CallFails \/ Crash
  BY <1>0, <1>2, WorkerKeepsPromise
<1>3. CASE UNCHANGED vars
  BY <1>3, Stutter DEF vars, landscapeVars, workerVars, extensionVars,
                       shootVars, mrVars, dnsVars
<1> QED
  BY <1>1, <1>2, <1>3 DEF Next

\* The actuator implements the hand-over: whatever fails, dies, times out or is
\* requested in between, the DNSRecord and Traefik's objects change hands in the
\* promised order (deployer.go:243-302, actuator.go:333-446).
THEOREM PromiseKept ==
    ASSUME StaleReads = FALSE
    PROVE  Spec => KeepsPromise
  BY InitKeepsPromise, NextKeepsPromise, InvariantHolds, PTL
     DEF Spec, KeepsPromise, Promise!Spec
===================================================================================
