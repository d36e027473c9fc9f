----------------------------- MODULE ActuatorProofs -----------------------------
(***************************************************************************)
(* Proofs about Actuator: first that every action keeps the types, then    *)
(* that it keeps AnyReadInv, however far the cache lags, then that it      *)
(* keeps IInv when reads do not lag, and what follows from each.           *)
(***************************************************************************)
EXTENDS ActuatorInvariant, TLAPS

\* Each write to a ManagedResource leaves a well-typed one, and none of them
\* leaves flags on one that does not exist (deployer.go:172-177, 261-266).
LEMMA Writes ==
    ASSUME NEW mr, MRTyped(mr), NEW a \in AnyAddress
    PROVE  MRTyped(Created(mr, a)) /\ MRTyped(Kept(mr)) /\ MRTyped(Condemned(mr))
<1> USE DEF MRTyped, ManagedResource, AnyAddress
<1>1. MRTyped(Created(mr, a))
  BY DEF Created
<1>2. MRTyped(Kept(mr))
  <2>1. CASE mr.exists
    BY <2>1 DEF Kept
  <2>2. CASE ~mr.exists
    BY <2>2 DEF Kept
  <2> QED
    BY <2>1, <2>2
<1>3. MRTyped(Condemned(mr))
  <2>1. CASE mr.exists
    BY <2>1 DEF Condemned
  <2>2. CASE ~mr.exists
    BY <2>2 DEF Condemned
  <2> QED
    BY <2>1, <2>2
<1> QED
  BY <1>1, <1>2, <1>3

\* A pending load balancer counts among the addresses.
LEMMA NoAddressTyped == NoAddress \in AnyAddress
  BY DEF AnyAddress

\* An absent ManagedResource and an absent DNSRecord are well typed.
LEMMA NothingTyped == MRTyped(NoMR) /\ RecordTyped(NoRecord)
  BY DEF MRTyped, RecordTyped, NoMR, NoRecord, ManagedResource, DNSRecord,
         AnyAddress

\* So does each write to the DNSRecord (deployer.go:288-300).
LEMMA RecordWrites ==
    ASSUME NEW r, RecordTyped(r)
    PROVE  /\ RecordTyped(Condemned(r))
           /\ r.exists => /\ RecordTyped([r EXCEPT !.confirmed = TRUE])
                          /\ RecordTyped([r EXCEPT !.synced = TRUE])
<1> USE DEF RecordTyped, DNSRecord
<1>1. RecordTyped(Condemned(r))
  <2>1. CASE r.exists
    BY <2>1 DEF Condemned
  <2>2. CASE ~r.exists
    BY <2>2 DEF Condemned
  <2> QED
    BY <2>1, <2>2
<1>2. r.exists => /\ RecordTyped([r EXCEPT !.confirmed = TRUE])
                  /\ RecordTyped([r EXCEPT !.synced = TRUE])
  OBVIOUS
<1> QED
  BY <1>1, <1>2

\* What resource-manager applies is a well-typed DNSRecord.
LEMMA AppliedRecordTyped == LandscapeTypeOK => RecordTyped(AppliedRecord)
  BY DEF LandscapeTypeOK, RecordTyped, MRTyped, DNSRecord, ManagedResource,
         AppliedRecord

\* A copy says one of three things.
LEMMA CopiesTyped == ASSUME NEW r PROVE CopyOf(r) \in Copy
BY DEF CopyOf, Copy

\* The steps of the surroundings keep the types.
LEMMA LandscapeKeepsTypes ==
    ASSUME TypeOK, LandscapeNext, UNCHANGED workerVars
    PROVE  TypeOK'
<1> USE DEF TypeOK, LandscapeTypeOK, WorkerTypeOK, workerVars, extensionVars,
            shootVars, mrVars, dnsVars
<1>1. CASE CreateExtension
  BY <1>1 DEF CreateExtension, Phase
<1>2. CASE RestoreExtension
  BY <1>2 DEF RestoreExtension, Phase
<1>3. CASE MigrateExtension
  BY <1>3 DEF MigrateExtension, Phase
<1>4. CASE DeleteShoot
  BY <1>4 DEF DeleteShoot
<1>5. CASE ForceDeleteShoot
  BY <1>5 DEF ForceDeleteShoot
<1>6. CASE DestroyExtension
  BY <1>6 DEF DestroyExtension, Phase
<1>7. CASE UpdateShoot
  BY <1>7, LandscapeAssumption DEF UpdateShoot
<1>8. CASE ToggleAPI
  BY <1>8 DEF ToggleAPI
<1>9. CASE Settle
  BY <1>9 DEF Settle
<1>10. CASE ApplyShootMR
  BY <1>10 DEF ApplyShootMR
<1>11. CASE FinishShootMR
  BY <1>11, NothingTyped, NoAddressTyped DEF FinishShootMR
<1>12. CASE ApplySeedMR
  BY <1>12, AppliedRecordTyped DEF ApplySeedMR
<1>13. CASE FinishSeedMR
  BY <1>13, NothingTyped DEF FinishSeedMR
<1>14. CASE PublishEntry
  BY <1>14, RecordWrites, NoAddressTyped, LandscapeAssumption
     DEF PublishEntry, RecordTyped, DNSRecord
<1>15. CASE WithdrawEntry
  BY <1>15, NothingTyped, NoAddressTyped DEF WithdrawEntry
<1>16. CASE AssignAddress
  BY <1>16 DEF AssignAddress, AnyAddress
<1>17. CASE SyncCache
  BY <1>17, CopiesTyped
     DEF SyncCache, Known, MRTyped, RecordTyped, ManagedResource, DNSRecord
<1> QED
  BY <1>1, <1>2, <1>3, <1>4, <1>5, <1>6, <1>7, <1>8, <1>9, <1>10, <1>11, <1>12,
     <1>13, <1>14, <1>15, <1>16, <1>17
     DEF LandscapeNext

\* Where the Get of the DNSRecord leads, by the copy it returns.
LEMMA GetLeads ==
    ASSUME LandscapeTypeOK, GetDNSRecord
    PROVE  /\ pc = "getRecord" /\ UNCHANGED <<op, addr, landscapeVars>>
           /\ \/ Seen.record = "absent" /\ pc' = AfterDNSRecord
              \/ Seen.record = "unconfirmed" /\ pc' = "confirmRecord"
              \/ Seen.record = "confirmed" /\ pc' = "reconfirmRecord"
<1>1. Seen.record \in Copy
  <2>1. CopyOf(record) \in Copy
    BY CopiesTyped
  <2> QED
    BY <2>1, LandscapeAssumption DEF Seen, Known, LandscapeTypeOK
<1> QED
  BY <1>1 DEF GetDNSRecord, Goto, Copy

\* The calls of the actuator, their errors and crashes keep the types.
LEMMA WorkerKeepsTypes ==
    ASSUME TypeOK, StartOperation \/ WorkerStep \/ CallFails \/ Crash
    PROVE  TypeOK'
<1> USE DEF TypeOK, LandscapeTypeOK, WorkerTypeOK, workerVars, landscapeVars,
            extensionVars, shootVars, mrVars, dnsVars, Goto, Stop, Fail, Step,
            DNSSteps, ShootSteps, ReconcileSteps, Operation
<1>1. CASE StartOperation
  BY <1>1 DEF StartOperation, Requested, FirstStep
<1>2. CASE GetCluster
  BY <1>2, NoAddressTyped DEF GetCluster
<1>3. CASE Deploy
  <2>1. MRTyped(shootMR')
    BY <1>3, Writes, NoAddressTyped DEF Deploy
  <2> QED
    BY <1>3, <2>1 DEF Deploy
<1>4. CASE LookUpExternalRecord
  BY <1>4 DEF LookUpExternalRecord
<1>5. CASE GetService
  BY <1>5, NoAddressTyped DEF GetService
<1>6. CASE DeployDNSRecord
  <2>1. MRTyped(seedMR')
    BY <1>6, Writes DEF DeployDNSRecord
  <2> QED
    BY <1>6, <2>1, NoAddressTyped DEF DeployDNSRecord
<1>7. CASE KeepSeedObjects
  BY <1>7, Writes DEF KeepSeedObjects
<1>8. CASE DeleteSeedMR
  BY <1>8, Writes DEF DeleteSeedMR
<1>9. CASE WaitSeedMRDeleted
  BY <1>9, NoAddressTyped DEF WaitSeedMRDeleted
<1>10. CASE GetDNSRecord
  BY <1>10, GetLeads DEF AfterDNSRecord
<1>11. CASE ConfirmDNSRecord
  <2>1. CASE record.exists
    <3>1. RecordTyped(record')
      BY <1>11, <2>1, RecordWrites DEF ConfirmDNSRecord
    <3> QED
      BY <1>11, <2>1, <3>1 DEF ConfirmDNSRecord
  <2>2. CASE ~record.exists
    BY <1>11, <2>2, NoAddressTyped DEF ConfirmDNSRecord
  <2> QED
    BY <2>1, <2>2
<1>12. CASE DeleteDNSRecordObject
  <2>1. CASE record.exists /\ ~record.confirmed
    BY <1>12, <2>1, NoAddressTyped DEF DeleteDNSRecordObject
  <2>2. CASE ~(record.exists /\ ~record.confirmed)
    <3>1. RecordTyped(record')
      BY <1>12, <2>2, RecordWrites DEF DeleteDNSRecordObject
    <3> QED
      BY <1>12, <2>2, <3>1 DEF DeleteDNSRecordObject, AfterDNSRecord
  <2> QED
    BY <2>1, <2>2
<1>13. CASE KeepShootObjects
  BY <1>13, Writes DEF KeepShootObjects
<1>14. CASE DeleteShootMR
  BY <1>14, Writes DEF DeleteShootMR
<1>15. CASE WaitShootMRDeleted
  BY <1>15, NoAddressTyped DEF WaitShootMRDeleted
<1>16. CASE CompleteOperation
  BY <1>16, NoAddressTyped DEF CompleteOperation, Outcome, Phase
<1>17. CASE CallFails
  BY <1>17, NoAddressTyped DEF CallFails
<1>18. CASE Crash
  BY <1>18, NoAddressTyped DEF Crash
<1> QED
  BY <1>1, <1>2, <1>3, <1>4, <1>5, <1>6, <1>7, <1>8, <1>9, <1>10, <1>11, <1>12,
     <1>13, <1>14, <1>15, <1>16, <1>17, <1>18
     DEF WorkerStep

\* No step of the surroundings, whenever it comes, breaks the invariant, however
\* old what a Get has returned was.
LEMMA LandscapeKeepsAnyReadInv ==
    ASSUME AnyReadInv, LandscapeNext, UNCHANGED workerVars, TypeOK'
    PROVE  AnyReadInv'
<1> USE DEF AnyReadInv, TargetsAreAddresses, ReleasedAfterSuccess,
            StepsBelongToOperations, OperationsBelongToPhases, Protection, Requests, Released, Forsaken,
            Cleanup, DNSSteps, ShootSteps, ReconcileSteps, Step, Operation
<1> USE DEF workerVars, extensionVars, shootVars, mrVars, dnsVars
<1>1. CASE CreateExtension
  BY <1>1 DEF CreateExtension
<1>2. CASE RestoreExtension
  BY <1>2 DEF RestoreExtension
<1>3. CASE MigrateExtension
  BY <1>3 DEF MigrateExtension
<1>4. CASE DeleteShoot
  BY <1>4 DEF DeleteShoot
<1>5. CASE ForceDeleteShoot
  BY <1>5 DEF ForceDeleteShoot
<1>6. CASE DestroyExtension
  BY <1>6 DEF DestroyExtension
<1>7. CASE UpdateShoot
  BY <1>7 DEF UpdateShoot
<1>8. CASE ToggleAPI
  BY <1>8 DEF ToggleAPI
<1>9. CASE Settle
  BY <1>9 DEF Settle
<1>10. CASE ApplyShootMR
  BY <1>10 DEF ApplyShootMR
<1>11. CASE FinishShootMR
  BY <1>11 DEF FinishShootMR, TypeOK, LandscapeTypeOK, MRTyped, NoMR
<1>12. CASE ApplySeedMR
  BY <1>12 DEF ApplySeedMR, AppliedRecord
<1>13. CASE FinishSeedMR
  BY <1>13 DEF FinishSeedMR, NoMR
<1>14. CASE PublishEntry
  BY <1>14 DEF PublishEntry
<1>15. CASE WithdrawEntry
  BY <1>15 DEF WithdrawEntry, NoRecord
<1>16. CASE AssignAddress
  BY <1>16 DEF AssignAddress
<1>17. CASE SyncCache
  BY <1>17 DEF SyncCache
<1> QED
  BY <1>1, <1>2, <1>3, <1>4, <1>5, <1>6, <1>7, <1>8, <1>9, <1>10, <1>11, <1>12,
     <1>13, <1>14, <1>15, <1>16, <1>17
     DEF LandscapeNext

\* No call of the actuator, no error and no crash breaks the invariant, however
\* old what a Get has returned was.
LEMMA WorkerKeepsAnyReadInv ==
    ASSUME AnyReadInv, StartOperation \/ WorkerStep \/ CallFails \/ Crash, TypeOK'
    PROVE  AnyReadInv'
<1> USE DEF AnyReadInv, TargetsAreAddresses, ReleasedAfterSuccess,
            StepsBelongToOperations, OperationsBelongToPhases, Protection, Requests, Released, Forsaken,
            Cleanup, DNSSteps, ShootSteps, ReconcileSteps, Step, Operation
<1> USE DEF workerVars, landscapeVars, extensionVars, shootVars, mrVars,
            dnsVars, Goto, Stop, Fail
<1>1. CASE StartOperation
  <2>1. \/ phase = "live" /\ op' = "Reconcile"
        \/ phase = "restoring" /\ op' = "Restore"
        \/ phase = "migrating" /\ op' = "Migrate"
        \/ phase = "deleting" /\ stage = "forced" /\ op' = "ForceDelete"
        \/ phase = "deleting" /\ op' = "Delete"
    BY <1>1 DEF StartOperation, Requested
  <2>2. pc' = FirstStep(op')
    BY <1>1 DEF StartOperation
  <2>3. /\ op' \in {"Reconcile", "Restore"} => finalizer'
        /\ finalizer => finalizer'
    BY <1>1 DEF StartOperation, TypeOK, LandscapeTypeOK
  <2>4. /\ pc = "idle" /\ UNCHANGED <<phase, stage, seedMR, shootMR, record, traefik>>
    BY <1>1 DEF StartOperation
  <2>5. TargetsAreAddresses' /\ ReleasedAfterSuccess'
    BY <2>2, <2>4 DEF FirstStep
  <2>6. StepsBelongToOperations'
    BY <2>1, <2>2 DEF FirstStep
  <2>7. OperationsBelongToPhases'
    BY <2>1, <2>3, <2>4
  <2>8. Protection'
    BY <2>1, <2>3, <2>4
  <2>9. Requests'
    BY <2>1, <2>2, <2>4 DEF FirstStep
  <2>10. Forsaken'
    BY <2>3, <2>4
  <2> QED
    BY <2>5, <2>6, <2>7, <2>8, <2>9, <2>10
<1>2. CASE GetCluster
  BY <1>2 DEF GetCluster
<1>3. CASE Deploy
  BY <1>3 DEF Deploy, Created
<1>4. CASE LookUpExternalRecord
  BY <1>4 DEF LookUpExternalRecord
<1>5. CASE GetService
  BY <1>5 DEF GetService, AnyAddress, TypeOK, LandscapeTypeOK
<1>6. CASE DeployDNSRecord
  BY <1>6 DEF DeployDNSRecord, Created
<1>7. CASE KeepSeedObjects
  BY <1>7 DEF KeepSeedObjects, Kept
<1>8. CASE DeleteSeedMR
  BY <1>8 DEF DeleteSeedMR, Condemned
<1>9. CASE WaitSeedMRDeleted
  BY <1>9 DEF WaitSeedMRDeleted
<1>10. CASE GetDNSRecord
  BY <1>10, GetLeads DEF TypeOK, AfterDNSRecord
<1>11. CASE ConfirmDNSRecord
  BY <1>11 DEF ConfirmDNSRecord, TypeOK, LandscapeTypeOK, RecordTyped, DNSRecord
<1>12. CASE DeleteDNSRecordObject
  BY <1>12
     DEF DeleteDNSRecordObject, AfterDNSRecord, TypeOK, LandscapeTypeOK,
         RecordTyped, DNSRecord, Condemned
<1>13. CASE KeepShootObjects
  BY <1>13 DEF KeepShootObjects, Kept
<1>14. CASE DeleteShootMR
  BY <1>14 DEF DeleteShootMR, Condemned
<1>15. CASE WaitShootMRDeleted
  BY <1>15 DEF WaitShootMRDeleted
<1>16. CASE CompleteOperation
  BY <1>16
     DEF CompleteOperation, Outcome, TypeOK, LandscapeTypeOK, WorkerTypeOK,
         MRTyped, NoMR
<1>17. CASE CallFails
  BY <1>17 DEF CallFails
<1>18. CASE Crash
  BY <1>18 DEF Crash
<1> QED
  BY <1>1, <1>2, <1>3, <1>4, <1>5, <1>6, <1>7, <1>8, <1>9, <1>10, <1>11, <1>12,
     <1>13, <1>14, <1>15, <1>16, <1>17, <1>18
     DEF WorkerStep

\* No step of the surroundings, whenever it comes, breaks the invariant.
LEMMA LandscapeKeepsInvariant ==
    ASSUME IInv, LandscapeNext, UNCHANGED workerVars, AnyReadInv',
           StaleReads = FALSE
    PROVE  IInv'
<1> USE DEF IInv, AnyReadInv, HandedOver, DeletionNotBlocked, CleanAfterSuccess,
            ForcedLeavesNoShootMR, DNSFirst, RecordOnItsWayOut,
            StepsBelongToOperations, OperationsBelongToPhases, Protection,
            DeletionsAreOwned, Progress, NothingUnprotected, Cleanup, DNSSteps,
            ShootSteps, ReconcileSteps, Step, Operation
<1> USE DEF workerVars, extensionVars, shootVars, mrVars, dnsVars
<1>1. CASE CreateExtension
  BY <1>1 DEF CreateExtension
<1>2. CASE RestoreExtension
  BY <1>2 DEF RestoreExtension
<1>3. CASE MigrateExtension
  BY <1>3 DEF MigrateExtension
<1>4. CASE DeleteShoot
  BY <1>4 DEF DeleteShoot
<1>5. CASE ForceDeleteShoot
  BY <1>5 DEF ForceDeleteShoot
<1>6. CASE DestroyExtension
  BY <1>6 DEF DestroyExtension
<1>7. CASE UpdateShoot
  BY <1>7 DEF UpdateShoot
<1>8. CASE ToggleAPI
  BY <1>8 DEF ToggleAPI
<1>9. CASE Settle
  BY <1>9 DEF Settle
<1>10. CASE ApplyShootMR
  BY <1>10 DEF ApplyShootMR
<1>11. CASE FinishShootMR
  BY <1>11 DEF FinishShootMR, TypeOK, LandscapeTypeOK, MRTyped
<1>12. CASE ApplySeedMR
  BY <1>12 DEF ApplySeedMR, AppliedRecord
<1>13. CASE FinishSeedMR
  BY <1>13 DEF FinishSeedMR, NoMR
<1>14. CASE PublishEntry
  BY <1>14 DEF PublishEntry
<1>15. CASE WithdrawEntry
  BY <1>15 DEF WithdrawEntry, NoRecord
<1>16. CASE AssignAddress
  BY <1>16 DEF AssignAddress
<1>17. CASE SyncCache
  BY <1>17 DEF SyncCache
<1> QED
  BY <1>1, <1>2, <1>3, <1>4, <1>5, <1>6, <1>7, <1>8, <1>9, <1>10, <1>11, <1>12,
     <1>13, <1>14, <1>15, <1>16, <1>17
     DEF LandscapeNext

\* No call of the actuator, no error and no crash breaks the invariant.
LEMMA WorkerKeepsInvariant ==
    ASSUME IInv, StartOperation \/ WorkerStep \/ CallFails \/ Crash, AnyReadInv',
           StaleReads = FALSE
    PROVE  IInv'
<1> USE DEF IInv, AnyReadInv, HandedOver, DeletionNotBlocked, CleanAfterSuccess,
            ForcedLeavesNoShootMR, DNSFirst, RecordOnItsWayOut,
            StepsBelongToOperations, OperationsBelongToPhases, Protection,
            DeletionsAreOwned, Progress, NothingUnprotected, Cleanup, DNSSteps,
            ShootSteps, ReconcileSteps, Step, Operation
<1> USE DEF workerVars, landscapeVars, extensionVars, shootVars, mrVars,
            dnsVars, Goto, Stop, Fail
<1>1. CASE StartOperation
  <2>1. \/ phase = "live" /\ op' = "Reconcile"
        \/ phase = "restoring" /\ op' = "Restore"
        \/ phase = "migrating" /\ op' = "Migrate"
        \/ phase = "deleting" /\ stage = "forced" /\ op' = "ForceDelete"
        \/ phase = "deleting" /\ op' = "Delete"
    BY <1>1 DEF StartOperation, Requested
  <2>2. pc' = FirstStep(op')
    BY <1>1 DEF StartOperation
  <2>3. /\ op' \in {"Reconcile", "Restore"} => finalizer'
        /\ finalizer => finalizer'
    BY <1>1 DEF StartOperation, TypeOK, LandscapeTypeOK
  <2>4. /\ pc = "idle" /\ UNCHANGED <<phase, stage, seedMR, shootMR, record, traefik>>
    BY <1>1 DEF StartOperation
  <2>5. HandedOver' /\ DeletionNotBlocked'
    BY <2>2 DEF FirstStep
  <2>6. CleanAfterSuccess' /\ ForcedLeavesNoShootMR' /\ DNSFirst'
    BY <2>4
  <2>7. DeletionsAreOwned'
    BY <2>1, <2>2, <2>4 DEF FirstStep
  <2>8. Progress'
    BY <2>2, <2>4 DEF FirstStep
  <2>9. NothingUnprotected'
    BY <2>3, <2>4
  <2> QED
    BY <2>5, <2>6, <2>7, <2>8, <2>9
<1>2. CASE GetCluster
  BY <1>2 DEF GetCluster
<1>3. CASE Deploy
  BY <1>3 DEF Deploy, Created
<1>4. CASE LookUpExternalRecord
  BY <1>4 DEF LookUpExternalRecord
<1>5. CASE GetService
  BY <1>5 DEF GetService, AnyAddress, TypeOK, LandscapeTypeOK
<1>6. CASE DeployDNSRecord
  BY <1>6 DEF DeployDNSRecord, Created
<1>7. CASE KeepSeedObjects
  BY <1>7 DEF KeepSeedObjects, Kept
<1>8. CASE DeleteSeedMR
  BY <1>8 DEF DeleteSeedMR, Condemned
<1>9. CASE WaitSeedMRDeleted
  BY <1>9 DEF WaitSeedMRDeleted, Seen, Known
<1>10. CASE GetDNSRecord
  <2>1. \/ ~record.exists /\ pc' = AfterDNSRecord
        \/ record.exists /\ pc' = "confirmRecord"
        \/ record.exists /\ record.confirmed /\ pc' = "reconfirmRecord"
    BY <1>10, GetLeads DEF TypeOK, Seen, Known, CopyOf
  <2>2. pc = "getRecord" /\ UNCHANGED <<op, addr, landscapeVars>>
    BY <1>10, GetLeads DEF TypeOK
  <2> QED
    BY <2>1, <2>2 DEF AfterDNSRecord
<1>11. CASE ConfirmDNSRecord
  BY <1>11 DEF ConfirmDNSRecord, TypeOK, LandscapeTypeOK, RecordTyped, DNSRecord
<1>12. CASE DeleteDNSRecordObject
  BY <1>12
     DEF DeleteDNSRecordObject, AfterDNSRecord, TypeOK, LandscapeTypeOK,
         RecordTyped, DNSRecord, Condemned
<1>13. CASE KeepShootObjects
  BY <1>13 DEF KeepShootObjects, Kept
<1>14. CASE DeleteShootMR
  BY <1>14 DEF DeleteShootMR, Condemned
<1>15. CASE WaitShootMRDeleted
  BY <1>15 DEF WaitShootMRDeleted, Seen, Known
<1>16. CASE CompleteOperation
  BY <1>16
     DEF CompleteOperation, Outcome, TypeOK, LandscapeTypeOK, WorkerTypeOK,
         MRTyped, NoMR
<1>17. CASE CallFails
  BY <1>17 DEF CallFails
<1>18. CASE Crash
  BY <1>18 DEF Crash
<1> QED
  BY <1>1, <1>2, <1>3, <1>4, <1>5, <1>6, <1>7, <1>8, <1>9, <1>10, <1>11, <1>12,
     <1>13, <1>14, <1>15, <1>16, <1>17, <1>18
     DEF WorkerStep

\* Both invariants hold before the Extension is created.
LEMMA InitAnyReadInv == Init => AnyReadInv
<1> SUFFICES ASSUME Init PROVE AnyReadInv
  OBVIOUS
<1>1. TypeOK
  BY LandscapeAssumption, NothingTyped, NoAddressTyped
     DEF Init, LandscapeInit, WorkerInit, TypeOK, LandscapeTypeOK, WorkerTypeOK, Phase, Copy
<1>2. TargetsAreAddresses /\ ReleasedAfterSuccess
  BY DEF Init, LandscapeInit, WorkerInit, TargetsAreAddresses,
         ReleasedAfterSuccess, NoMR, NoRecord
<1>3. StepsBelongToOperations /\ OperationsBelongToPhases
  BY DEF Init, WorkerInit, StepsBelongToOperations, OperationsBelongToPhases,
         ReconcileSteps, DNSSteps, ShootSteps
<1>4. Protection /\ Requests /\ Forsaken
  BY DEF Init, LandscapeInit, WorkerInit, Protection, Requests, Released,
         Forsaken, Cleanup, NoMR
<1> QED
  BY <1>1, <1>2, <1>3, <1>4 DEF AnyReadInv

LEMMA InitInvariant == Init => IInv
<1> SUFFICES ASSUME Init PROVE IInv
  OBVIOUS
<1>1. /\ HandedOver /\ DeletionNotBlocked
      /\ CleanAfterSuccess /\ ForcedLeavesNoShootMR /\ DNSFirst
  BY DEF Init, LandscapeInit, WorkerInit, HandedOver, DeletionNotBlocked,
         CleanAfterSuccess, ForcedLeavesNoShootMR, DNSFirst, NoMR
<1>2. DeletionsAreOwned /\ Progress /\ NothingUnprotected
  BY DEF Init, LandscapeInit, WorkerInit, DeletionsAreOwned, Progress,
         NothingUnprotected, NoMR, NoRecord, RecordOnItsWayOut
<1> QED
  BY <1>1, <1>2, InitAnyReadInv DEF IInv

\* The types are inductive.
LEMMA NextKeepsTypes == TypeOK /\ [Next]_vars => TypeOK'
<1> SUFFICES ASSUME TypeOK, [Next]_vars PROVE TypeOK'
  OBVIOUS
<1>1. CASE LandscapeNext /\ UNCHANGED workerVars
  BY <1>1, LandscapeKeepsTypes
<1>2. CASE StartOperation \/ WorkerStep \/ CallFails \/ Crash
  BY <1>2, WorkerKeepsTypes
<1>3. CASE UNCHANGED vars
  BY <1>3
     DEF vars, landscapeVars, workerVars, extensionVars, shootVars, mrVars,
         dnsVars, TypeOK, LandscapeTypeOK, WorkerTypeOK
<1> QED
  BY <1>1, <1>2, <1>3 DEF Next

\* AnyReadInv is inductive: its parts speak of what has been written, never of
\* what has been read.
LEMMA NextKeepsAnyReadInv == AnyReadInv /\ [Next]_vars => AnyReadInv'
<1> SUFFICES ASSUME AnyReadInv, [Next]_vars PROVE AnyReadInv'
  OBVIOUS
<1>0. TypeOK'
  BY NextKeepsTypes DEF AnyReadInv
<1>1. CASE LandscapeNext /\ UNCHANGED workerVars
  BY <1>0, <1>1, LandscapeKeepsAnyReadInv
<1>2. CASE StartOperation \/ WorkerStep \/ CallFails \/ Crash
  BY <1>0, <1>2, WorkerKeepsAnyReadInv
<1>3. CASE UNCHANGED vars
  <2> USE <1>3
      DEF vars, landscapeVars, workerVars, extensionVars, shootVars, mrVars,
          dnsVars
  <2>1. TargetsAreAddresses' /\ ReleasedAfterSuccess'
    BY DEF AnyReadInv, TargetsAreAddresses, ReleasedAfterSuccess
  <2>2. StepsBelongToOperations' /\ OperationsBelongToPhases'
    BY DEF AnyReadInv, StepsBelongToOperations, OperationsBelongToPhases
  <2>3. Protection' /\ Requests' /\ Forsaken'
    BY DEF AnyReadInv, Protection, Requests, Released, Forsaken
  <2> QED
    BY <1>0, <2>1, <2>2, <2>3 DEF AnyReadInv
<1> QED
  BY <1>1, <1>2, <1>3 DEF Next

\* IInv is inductive when reads do not lag.
LEMMA NextKeepsInvariant ==
    ASSUME StaleReads = FALSE
    PROVE  IInv /\ [Next]_vars => IInv'
<1> SUFFICES ASSUME IInv, [Next]_vars PROVE IInv'
  OBVIOUS
<1>0. AnyReadInv'
  BY NextKeepsAnyReadInv DEF IInv
<1>1. CASE LandscapeNext /\ UNCHANGED workerVars
  BY <1>0, <1>1, LandscapeKeepsInvariant
<1>2. CASE StartOperation \/ WorkerStep \/ CallFails \/ Crash
  BY <1>0, <1>2, WorkerKeepsInvariant
<1>3. CASE UNCHANGED vars
  <2> USE <1>3
      DEF vars, landscapeVars, workerVars, extensionVars, shootVars, mrVars,
          dnsVars
  <2>1. /\ HandedOver' /\ DeletionNotBlocked' /\ CleanAfterSuccess'
        /\ ForcedLeavesNoShootMR' /\ DNSFirst'
    BY DEF IInv, HandedOver, DeletionNotBlocked, CleanAfterSuccess,
           ForcedLeavesNoShootMR, DNSFirst, RecordOnItsWayOut
  <2>2. DeletionsAreOwned' /\ Progress' /\ NothingUnprotected'
    BY DEF IInv, DeletionsAreOwned, Progress, NothingUnprotected,
           RecordOnItsWayOut
  <2> QED
    BY <1>0, <2>1, <2>2 DEF IInv
<1> QED
  BY <1>1, <1>2, <1>3 DEF Next

\* Only Delete asks resource-manager to remove Traefik's objects: Migrate and
\* ForceDelete delete a ManagedResource that says keepObjects, and Deploy finds
\* none that is being deleted.
LEMMA StepAsksForRemoval ==
    ASSUME IInv, Next, Removal(shootMR'), ~Removal(shootMR)
    PROVE  op = "Delete"
<1>1. shootMR' # shootMR
  OBVIOUS
<1>2. CASE LandscapeNext /\ UNCHANGED workerVars
  <2>1. FinishShootMR
    BY <1>1, <1>2
       DEF LandscapeNext, CreateExtension, RestoreExtension, MigrateExtension,
           DeleteShoot, ForceDeleteShoot, DestroyExtension, UpdateShoot,
           ToggleAPI, Settle, ApplyShootMR, ApplySeedMR, FinishSeedMR,
           PublishEntry, WithdrawEntry, AssignAddress, SyncCache, mrVars
  <2> QED
    BY <2>1 DEF FinishShootMR, NoMR, Removal
<1>3. CASE StartOperation \/ WorkerStep \/ CallFails \/ Crash
  <2>1. Deploy \/ KeepShootObjects \/ DeleteShootMR
    BY <1>1, <1>3
       DEF StartOperation, WorkerStep, CallFails, Crash, GetCluster,
           LookUpExternalRecord, GetService, DeployDNSRecord, KeepSeedObjects,
           DeleteSeedMR, WaitSeedMRDeleted, GetDNSRecord, ConfirmDNSRecord,
           DeleteDNSRecordObject, WaitShootMRDeleted, CompleteOperation,
           landscapeVars, mrVars
  <2>2. MRTyped(shootMR)
    BY DEF IInv, AnyReadInv, TypeOK, LandscapeTypeOK
  <2>3. ~Deploy
    BY <2>2 DEF Deploy, Created, Removal, MRTyped, ManagedResource, IInv,
                AnyReadInv, DeletionsAreOwned, StepsBelongToOperations,
                ReconcileSteps
  <2>4. ~KeepShootObjects
    BY <2>2 DEF KeepShootObjects, Kept, Removal, MRTyped, ManagedResource
  <2>5. DeleteShootMR => op \in Cleanup /\ ~shootMR.keep /\ shootMR.exists
    BY <2>2 DEF DeleteShootMR, Condemned, Removal, MRTyped, ManagedResource,
                IInv, AnyReadInv, StepsBelongToOperations, ShootSteps
  <2> QED
    BY <2>1, <2>3, <2>4, <2>5
       DEF DeleteShootMR, Cleanup, IInv, AnyReadInv, Requests
<1> QED
  BY <1>2, <1>3 DEF Next

\* Only the end of the shoot ManagedResource without keepObjects takes Traefik's
\* objects away; a ForceDelete that is past its KeepShootObjects has seen to it
\* that there is none.
LEMMA StepKeepsTraefik ==
    ASSUME IInv, Next, traefik # "absent", traefik' = "absent"
    PROVE  /\ phase = "deleting" /\ Removal(shootMR)
           /\ op = "ForceDelete" => pc \in DNSSteps \cup {"keepShoot"}
<1>1. FinishShootMR
  <2>1. traefik' # traefik
    OBVIOUS
  <2>2. CASE LandscapeNext /\ UNCHANGED workerVars
    BY <2>2
       DEF LandscapeNext, CreateExtension, RestoreExtension, MigrateExtension,
           DeleteShoot, ForceDeleteShoot, DestroyExtension, UpdateShoot,
           ToggleAPI, Settle, ApplyShootMR, ApplySeedMR, FinishSeedMR,
           PublishEntry, WithdrawEntry, AssignAddress, SyncCache, shootVars
  <2>3. CASE StartOperation \/ WorkerStep \/ CallFails \/ Crash
    BY <2>3
       DEF StartOperation, WorkerStep, CallFails, Crash, GetCluster, Deploy,
           LookUpExternalRecord, GetService, DeployDNSRecord, KeepSeedObjects,
           DeleteSeedMR, WaitSeedMRDeleted, GetDNSRecord, ConfirmDNSRecord,
           DeleteDNSRecordObject, KeepShootObjects, DeleteShootMR,
           WaitShootMRDeleted, CompleteOperation, landscapeVars, shootVars
  <2> QED
    BY <2>2, <2>3 DEF Next
<1>2. shootMR.deleting /\ ~shootMR.keep
  BY <1>1 DEF FinishShootMR
<1>3. shootMR.exists
  BY <1>2 DEF IInv, AnyReadInv, TypeOK, LandscapeTypeOK, MRTyped, NoMR
<1>4. op = "ForceDelete" => pc \in DNSSteps \cup {"keepShoot"}
  <2>1. pc \notin {"deleteShoot", "waitShoot", "succeeded"} \/ op # "ForceDelete"
    BY <1>2, <1>3 DEF IInv, AnyReadInv, Requests
  <2>2. op = "ForceDelete" => pc # "idle" /\ pc \notin ReconcileSteps
    BY DEF IInv, AnyReadInv, StepsBelongToOperations
  <2>3. pc \in Step \cup {"idle"}
    BY DEF IInv, AnyReadInv, TypeOK, WorkerTypeOK
  <2> QED
    BY <2>1, <2>2, <2>3 DEF Step, ShootSteps
<1> QED
  BY <1>2, <1>3, <1>4 DEF IInv, DeletionsAreOwned, Removal

\* Only the DNS provider extension writes the entry, and after a success it finds
\* no DNSRecord to publish.
LEMMA StepStaysSilent ==
    ASSUME IInv, Next, dnsEntry' # dnsEntry, phase \in {"deleted", "migrated"}
    PROVE  dnsEntry' = NoAddress
<1>1. PublishEntry \/ WithdrawEntry
  <2>1. CASE LandscapeNext /\ UNCHANGED workerVars
    BY <2>1
       DEF LandscapeNext, CreateExtension, RestoreExtension, MigrateExtension,
           DeleteShoot, ForceDeleteShoot, DestroyExtension, UpdateShoot,
           ToggleAPI, Settle, ApplyShootMR, FinishShootMR, ApplySeedMR,
           FinishSeedMR, AssignAddress, SyncCache, dnsVars
  <2>2. CASE StartOperation \/ WorkerStep \/ CallFails \/ Crash
    BY <2>2
       DEF StartOperation, WorkerStep, CallFails, Crash, GetCluster, Deploy,
           LookUpExternalRecord, GetService, DeployDNSRecord, KeepSeedObjects,
           DeleteSeedMR, WaitSeedMRDeleted, GetDNSRecord, ConfirmDNSRecord,
           DeleteDNSRecordObject, KeepShootObjects, DeleteShootMR,
           WaitShootMRDeleted, CompleteOperation, landscapeVars, dnsVars
  <2> QED
    BY <2>1, <2>2 DEF Next
<1>2. ~PublishEntry
  BY DEF IInv, CleanAfterSuccess, RecordOnItsWayOut, PublishEntry
<1> QED
  BY <1>1, <1>2 DEF WithdrawEntry

\* The surroundings have nothing to write that they have not written already.
LEMMA LandscapeKeepsSettled ==
    ASSUME AnyReadInv, Settled, LandscapeNext, UNCHANGED workerVars
    PROVE  Settled'
<1> USE DEF Settled, Serviceable, workerVars, extensionVars, shootVars, mrVars,
            dnsVars
<1>1. CASE CreateExtension \/ RestoreExtension \/ MigrateExtension
  BY <1>1 DEF CreateExtension, RestoreExtension, MigrateExtension
<1>2. CASE DeleteShoot \/ ForceDeleteShoot \/ DestroyExtension
  BY <1>2 DEF DeleteShoot, ForceDeleteShoot, DestroyExtension
<1>3. CASE UpdateShoot \/ ToggleAPI \/ Settle
  BY <1>3 DEF UpdateShoot, ToggleAPI, Settle
<1>4. CASE ApplyShootMR \/ FinishShootMR
  BY <1>4 DEF ApplyShootMR, FinishShootMR
<1>5. CASE ApplySeedMR
  BY <1>5 DEF ApplySeedMR, AppliedRecord
<1>6. CASE FinishSeedMR
  BY <1>6 DEF FinishSeedMR
<1>7. CASE PublishEntry
  BY <1>7 DEF PublishEntry
<1>8. CASE WithdrawEntry
  BY <1>8 DEF WithdrawEntry
<1>9. CASE AssignAddress \/ SyncCache
  BY <1>9 DEF AssignAddress, SyncCache
<1> QED
  BY <1>1, <1>2, <1>3, <1>4, <1>5, <1>6, <1>7, <1>8, <1>9 DEF LandscapeNext

\* Only Reconcile or Restore can be running, and they write what is there.
LEMMA WorkerKeepsSettled ==
    ASSUME AnyReadInv, Settled, StartOperation \/ WorkerStep \/ CallFails \/ Crash
    PROVE  Settled'
<1>1. op \notin Cleanup
  BY DEF Settled, Serviceable, AnyReadInv, OperationsBelongToPhases, Cleanup
<1>2. pc \notin DNSSteps \cup ShootSteps
  BY <1>1 DEF AnyReadInv, StepsBelongToOperations
<1> USE DEF Settled, Serviceable, landscapeVars, workerVars, extensionVars,
            shootVars, mrVars, dnsVars, Goto, Stop, Fail, Cleanup
<1>3. CASE StartOperation
  BY <1>3 DEF StartOperation, FirstStep
<1>4. CASE GetCluster
  BY <1>1, <1>4 DEF GetCluster
<1>5. CASE Deploy
  BY <1>5 DEF Deploy, Created, AnyReadInv, TypeOK, LandscapeTypeOK, MRTyped,
              ManagedResource
<1>6. CASE LookUpExternalRecord
  BY <1>6 DEF LookUpExternalRecord
<1>7. CASE GetService
  BY <1>7 DEF GetService
<1>8. CASE DeployDNSRecord
  BY <1>8 DEF DeployDNSRecord, Created, AnyReadInv, TypeOK, LandscapeTypeOK,
              MRTyped, ManagedResource
<1>9. CASE CompleteOperation
  BY <1>1, <1>9 DEF CompleteOperation, Outcome
<1>10. CASE CallFails \/ Crash
  BY <1>10 DEF CallFails, Crash
<1>11. CASE WorkerStep
  BY <1>2, <1>4, <1>5, <1>6, <1>7, <1>8, <1>9, <1>11
     DEF WorkerStep, DNSSteps, ShootSteps, KeepSeedObjects, DeleteSeedMR,
         WaitSeedMRDeleted, GetDNSRecord, ConfirmDNSRecord,
         DeleteDNSRecordObject, KeepShootObjects, DeleteShootMR,
         WaitShootMRDeleted
<1> QED
  BY <1>3, <1>10, <1>11

LEMMA NextKeepsSettled == AnyReadInv /\ Settled /\ [Next]_vars => Settled'
<1> SUFFICES ASSUME AnyReadInv, Settled, [Next]_vars PROVE Settled'
  OBVIOUS
<1>1. CASE LandscapeNext /\ UNCHANGED workerVars
  BY <1>1, LandscapeKeepsSettled
<1>2. CASE StartOperation \/ WorkerStep \/ CallFails \/ Crash
  BY <1>2, WorkerKeepsSettled
<1>3. CASE UNCHANGED vars
  BY <1>3
     DEF Settled, Serviceable, vars, landscapeVars, workerVars, extensionVars,
         shootVars, mrVars, dnsVars
<1> QED
  BY <1>1, <1>2, <1>3 DEF Next

-----------------------------------------------------------------------------
\* Every reachable state is well typed, for any addresses, any shoot settings,
\* and reads that lag or do not.
THEOREM TypeCorrect == Spec => []TypeOK
<1>1. Init => TypeOK
  BY InitAnyReadInv DEF AnyReadInv
<1> QED
  BY <1>1, NextKeepsTypes, PTL DEF Spec

\* However far the cached ManagedResources and DNSRecord lag: at every call of
\* every operation, what was released, requested and protected so far still is
\* (deployer.go:167-197, 258-302).
THEOREM AnyReadInvHolds == Spec => []AnyReadInv
  BY InitAnyReadInv, NextKeepsAnyReadInv, PTL DEF Spec

\* However old the answers of the cache are, what a Delete or Migrate that
\* succeeded has left is on its way out, and resource-manager will not take
\* more with it than it should (deployer.go:172-197, 261-269).
THEOREM ReleasedWhateverRead == Spec => []ReleasedAfterSuccess
<1>1. AnyReadInv => ReleasedAfterSuccess
  BY DEF AnyReadInv
<1> QED
  BY <1>1, AnyReadInvHolds, PTL

\* The inductive invariant, when reads do not lag.
THEOREM InvariantHolds ==
    ASSUME StaleReads = FALSE
    PROVE  Spec => []IInv
  BY InitInvariant, NextKeepsInvariant, PTL DEF Spec

\* A Delete or Migrate that succeeded has released everything it had to
\* (actuator.go:333-362, 419-446).
THEOREM CleanupIsComplete ==
    ASSUME StaleReads = FALSE
    PROVE  Spec => []CleanAfterSuccess
<1>1. IInv => CleanAfterSuccess
  BY DEF IInv
<1> QED
  BY <1>1, InvariantHolds, PTL

\* The DNSRecord is handed over before the actuator touches it
\* (deployer.go:251-303).
THEOREM DNSRecordHandover ==
    ASSUME StaleReads = FALSE
    PROVE  Spec => []HandedOver
<1>1. IInv => HandedOver
  BY DEF IInv
<1> QED
  BY <1>1, InvariantHolds, PTL

\* By the time the actuator deletes the DNSRecord, the webhook no longer rejects
\* that, although the patch may have been empty (deployer.go:282-302).
THEOREM DeletionAccepted ==
    ASSUME StaleReads = FALSE
    PROVE  Spec => []DeletionNotBlocked
<1>1. IInv => DeletionNotBlocked
  BY DEF IInv
<1> QED
  BY <1>1, InvariantHolds, PTL

\* The DNSRecord goes before Traefik does (actuator.go:346-357, 431-441).
THEOREM DeletionOrder ==
    ASSUME StaleReads = FALSE
    PROVE  Spec => []DNSFirst
<1>1. IInv => DNSFirst
  BY DEF IInv
<1> QED
  BY <1>1, InvariantHolds, PTL

\* A forced deletion leaves no shoot ManagedResource behind
\* (actuator.go:385-394).
THEOREM NothingLeftOfForced ==
    ASSUME StaleReads = FALSE
    PROVE  Spec => []ForcedLeavesNoShootMR
<1>1. IInv => ForcedLeavesNoShootMR
  BY DEF IInv
<1> QED
  BY <1>1, InvariantHolds, PTL

\* No DNSRecord ever has anything but an address of the Service's as its target
\* (actuator.go:278-281).
THEOREM AddressesOnly == Spec => []TargetsAreAddresses
<1>1. AnyReadInv => TargetsAreAddresses
  BY DEF AnyReadInv
<1> QED
  BY <1>1, AnyReadInvHolds, PTL

\* Traefik is only removed from the shoot because a regular Delete asked for it,
\* and not past the point where a ForceDelete has stopped that, whatever is
\* interrupted and repeated in whatever order (actuator.go:390-394, 437-441).
THEOREM TraefikSurvives ==
    ASSUME StaleReads = FALSE
    PROVE  Spec => OnlyDeleteRemovesTraefik
<1>1. IInv /\ [Next]_vars =>
        [/\ Removal(shootMR') /\ ~Removal(shootMR) => op = "Delete"
         /\ traefik # "absent" /\ traefik' = "absent" =>
                /\ phase = "deleting" /\ Removal(shootMR)
                /\ op = "ForceDelete" => pc \in DNSSteps \cup {"keepShoot"}]_vars
  BY StepAsksForRemoval, StepKeepsTraefik
<1> QED
  BY <1>1, InvariantHolds, PTL DEF Spec, OnlyDeleteRemovesTraefik

\* An address that has settled in the DNS zone stays there for as long as the
\* surroundings are quiet, however many Reconciles follow, with any cache: the
\* half of DNSConverges that is not liveness (actuator.go:243-286).
THEOREM SettledStays == Spec => NeverUnsettled
<1>1. AnyReadInv /\ [Next]_vars => [Settled => Settled']_vars
  BY NextKeepsSettled
<1> QED
  BY <1>1, AnyReadInvHolds, PTL DEF Spec, NeverUnsettled

\* The same, said of whole behaviours.
THEOREM SettledForEver == Spec => [](Settled => []Settled)
  BY NextKeepsSettled, AnyReadInvHolds, PTL DEF Spec

\* A seed that has been left, by deletion or migration, never publishes again
\* (actuator.go:346-350, 432-436).
THEOREM LeftSeedIsSilent ==
    ASSUME StaleReads = FALSE
    PROVE  Spec => SilentAfterwards
<1>1. IInv /\ [Next]_vars =>
        [dnsEntry' # dnsEntry /\ phase \in {"deleted", "migrated"}
           => dnsEntry' = NoAddress]_vars
  BY StepStaysSilent
<1> QED
  BY <1>1, InvariantHolds, PTL DEF Spec, SilentAfterwards
================================================================================
