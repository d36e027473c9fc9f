------------------------------- MODULE Actuator -------------------------------
(***************************************************************************)
(* The extension's actuator (pkg/actuator) together with the part of its   *)
(* deployer (pkg/traefik) that talks to the seed: Reconcile, Restore,      *)
(* Delete, ForceDelete and Migrate, one action for each API call they make.*)
(* An operation may fail or die at every call; whoever runs next starts    *)
(* from what was left behind.                                              *)
(***************************************************************************)
EXTENDS Landscape

VARIABLES
    op,     \* the operation in progress, "none" when idle
    pc,     \* the call it makes next
    addr    \* lbAddress: what Reconcile read from the Service

workerVars == <<op, pc, addr>>
vars == <<landscapeVars, workerVars>>

DNSSteps   == {"keepSeed", "deleteSeed", "waitSeed", "getRecord",
               "confirmRecord", "reconfirmRecord", "deleteRecord"}
ShootSteps == {"keepShoot", "deleteShoot", "waitShoot"}
ReconcileSteps == {"getCluster", "deploy", "externalRef", "getService",
                   "deployDNS"}
Step == DNSSteps \cup ShootSteps \cup ReconcileSteps \cup {"succeeded"}
Operation == {"Reconcile", "Restore", "Delete", "ForceDelete", "Migrate"}

WorkerTypeOK ==
    /\ op \in Operation \cup {"none"}
    /\ pc \in Step \cup {"idle"}
    /\ addr \in AnyAddress

WorkerInit == op = "none" /\ pc = "idle" /\ addr = NoAddress

Goto(step) == pc' = step /\ UNCHANGED <<op, addr>>
Stop == op' = "none" /\ pc' = "idle" /\ addr' = NoAddress

\* Seeded fault: an error of DeleteDNSRecord is only logged, in every operation.
FailIgnoringDNSErrors == IF pc \in DNSSteps
                         THEN Goto(IF op = "Delete" THEN "deleteShoot"
                                                    ELSE "keepShoot")
                         ELSE Stop

\* Seeded fault: ForceDelete carries on like Delete does.
FailLikeDelete == IF op = "ForceDelete" /\ pc \in DNSSteps
                  THEN Goto("deleteShoot")
                  ELSE Stop

\* A call returns an error.  Only ForceDelete carries on, and only when the
\* error comes out of its best-effort DeleteDNSRecord.
Fail == IF op = "ForceDelete" /\ pc \in DNSSteps
        THEN Goto("keepShoot")
        ELSE Stop

-----------------------------------------------------------------------------
(* The extension library's reconciler: it runs one operation at a time for *)
(* an Extension, picks it by the state of the Extension, and runs it again *)
(* after an error or, for Reconcile, after the resync period.              *)

Requested ==
    CASE phase = "live"      -> {"Reconcile"}
      [] phase = "restoring" -> {"Restore"}
      [] phase = "migrating" -> {"Migrate"}
      [] phase = "deleting"  -> {IF stage = "forced" THEN "ForceDelete"
                                                     ELSE "Delete"}
      [] OTHER               -> {}

\* Seeded fault: the shoot half first, the DNSRecord never.
ShootFirst(o) ==
    CASE o \in {"Reconcile", "Restore"} -> "getCluster"
      [] o = "Delete"                   -> "deleteShoot"
      [] OTHER                          -> "keepShoot"

FirstStep(o) == IF o \in {"Reconcile", "Restore"} THEN "getCluster"
                                                  ELSE "keepSeed"

StartOperation ==
    /\ pc = "idle"
    /\ op' \in Requested
    /\ pc' = FirstStep(op')
    /\ finalizer' = (finalizer \/ op' \in {"Reconcile", "Restore"})
    /\ UNCHANGED <<phase, stage, addr, shootVars, mrVars, dnsVars, cached, calm>>

\* What the reconciler records when the operation returned nil.
Outcome ==
    CASE op = "Delete"      -> "deleted"
      [] op = "ForceDelete" -> "forceDeleted"
      [] op = "Migrate"     -> "migrated"
      [] op = "Restore" /\ phase = "restoring" -> "live"
      [] OTHER              -> phase

CompleteOperation ==
    /\ pc = "succeeded"
    /\ phase' = Outcome
    /\ finalizer' = (finalizer /\ op \in {"Reconcile", "Restore"})
    /\ Stop
    /\ UNCHANGED <<stage, shootVars, mrVars, dnsVars, cached, calm>>

-----------------------------------------------------------------------------
(* Reconcile and Restore, which is the same.                               *)

\* GetCluster and the merge of the provider config: a shoot that is being
\* deleted or hibernates is skipped, a bad log level is an error.
GetCluster ==
    /\ pc = "getCluster"
    /\ IF stage # "active" \/ shoot.hibernated THEN Goto("succeeded")
       ELSE IF ~shoot.valid THEN Fail
       ELSE Goto("deploy")
    /\ UNCHANGED landscapeVars

\* Deployer.Deploy: create or update the shoot ManagedResource.
Deploy ==
    /\ pc = "deploy"
    /\ shootMR' = Created(shootMR, NoAddress)
    /\ Goto("externalRef")
    /\ UNCHANGED <<extensionVars, shootVars, seedMR, dnsVars, cached, calm>>

\* reconcileDNSRecord: nothing to do without a domain, and nothing yet
\* without the external DNSRecord; both count as success.
LookUpExternalRecord ==
    /\ pc = "externalRef"
    /\ Goto(IF shoot.domain /\ shoot.external THEN "getService"
                                              ELSE "succeeded")
    /\ UNCHANGED landscapeVars

\* Seeded fault: a load balancer that is still pending is not an error.
GetServicePending ==
    /\ pc = "getService"
    /\ IF apiUp /\ traefik # "absent"
       THEN addr' = lb /\ pc' = "deployDNS" /\ op' = op
       ELSE Fail
    /\ UNCHANGED landscapeVars

\* Reads the Service from the shoot.  No API server, no Service and a load
\* balancer without an address are errors.
GetService ==
    /\ pc = "getService"
    /\ IF apiUp /\ traefik # "absent" /\ lb # NoAddress
       THEN addr' = lb /\ pc' = "deployDNS" /\ op' = op
       ELSE Fail
    /\ UNCHANGED landscapeVars

\* Seeded fault: creates the seed ManagedResource but never updates it.
CreateDNSRecordOnly ==
    /\ pc = "deployDNS"
    /\ seedMR' = IF seedMR.exists THEN seedMR
                 ELSE Created(NoMR, addr)
    /\ pc' = "succeeded" /\ addr' = NoAddress /\ op' = op
    /\ UNCHANGED <<extensionVars, shootVars, shootMR, dnsVars, cached, calm>>

\* Seeded fault: what is there is deleted, for the next Reconcile to create anew.
ReplaceDNSRecord ==
    /\ pc = "deployDNS"
    /\ seedMR' = IF seedMR.exists THEN Condemned(Kept(seedMR))
                 ELSE Created(seedMR, addr)
    /\ pc' = "succeeded" /\ addr' = NoAddress /\ op' = op
    /\ UNCHANGED <<extensionVars, shootVars, shootMR, dnsVars, cached, calm>>

\* DeployDNSRecord: create or update the seed ManagedResource with the address
\* that was read, which need not be the Service's address any more.
DeployDNSRecord ==
    /\ pc = "deployDNS"
    /\ seedMR' = Created(seedMR, addr)
    /\ pc' = "succeeded" /\ addr' = NoAddress /\ op' = op
    /\ UNCHANGED <<extensionVars, shootVars, shootMR, dnsVars, cached, calm>>

-----------------------------------------------------------------------------
(* DeleteDNSRecord, the first half of Delete, ForceDelete and Migrate.     *)

\* Seeded fault: the DNSRecord is deleted under a live ManagedResource.
KeepSeedAndGetRecord ==
    /\ pc = "keepSeed"
    /\ seedMR' = Kept(seedMR)
    /\ Goto("getRecord")
    /\ UNCHANGED <<extensionVars, shootVars, shootMR, dnsVars, cached, calm>>

KeepSeedObjects ==
    /\ pc = "keepSeed"
    /\ seedMR' = Kept(seedMR)
    /\ Goto("deleteSeed")
    /\ UNCHANGED <<extensionVars, shootVars, shootMR, dnsVars, cached, calm>>

DeleteSeedMR ==
    /\ pc = "deleteSeed"
    /\ seedMR' = Condemned(seedMR)
    /\ Goto("waitSeed")
    /\ UNCHANGED <<extensionVars, shootVars, shootMR, dnsVars, cached, calm>>

\* Seeded fault: does not wait for the seed ManagedResource.
SkipSeedWait == pc = "waitSeed" /\ Goto("getRecord") /\ UNCHANGED landscapeVars

\* WaitUntilDeleted polls until the ManagedResource is gone or two minutes
\* have passed.
WaitSeedMRDeleted ==
    /\ pc = "waitSeed"
    /\ IF Seen.seedMR THEN Fail ELSE Goto("getRecord")
    /\ UNCHANGED landscapeVars

\* Seeded fault: Migrate and ForceDelete delete like Delete does.
AfterDNSRecordDelete == "deleteShoot"

\* What follows a DeleteDNSRecord that returned nil.
AfterDNSRecord == IF op = "Delete" THEN "deleteShoot" ELSE "keepShoot"

\* Seeded fault: the DNSRecord is left to the ManagedResource's deletion.
LeaveDNSRecord ==
    pc = "getRecord" /\ Goto(AfterDNSRecord) /\ UNCHANGED landscapeVars

\* Keeps the copy it gets: the patch is what the annotation adds to that copy.
GetDNSRecord ==
    /\ pc = "getRecord"
    /\ Goto(CASE Seen.record = "absent"      -> AfterDNSRecord
              [] Seen.record = "unconfirmed" -> "confirmRecord"
              [] Seen.record = "confirmed"   -> "reconfirmRecord")
    /\ UNCHANGED landscapeVars

\* Patches the confirmation annotation, which adds nothing when the copy already
\* has it; a DNSRecord that vanished after the Get is an error.
ConfirmDNSRecord ==
    /\ pc \in {"confirmRecord", "reconfirmRecord"}
    /\ IF record.exists
       THEN /\ record' = IF pc = "confirmRecord"
                         THEN [record EXCEPT !.confirmed = TRUE] ELSE record
            /\ Goto("deleteRecord")
       ELSE /\ record' = record
            /\ Fail
    /\ UNCHANGED <<extensionVars, shootVars, mrVars, dnsEntry, cached, calm>>

\* Deletes it; the cr-deletion-protection webhook rejects the call when the
\* confirmation is no longer there.  A vanished DNSRecord is fine this time.
DeleteDNSRecordObject ==
    /\ pc = "deleteRecord"
    /\ IF record.exists /\ ~record.confirmed
       THEN /\ record' = record
            /\ Fail
       ELSE /\ record' = Condemned(record)
            /\ Goto(AfterDNSRecord)
    /\ UNCHANGED <<extensionVars, shootVars, mrVars, dnsEntry, cached, calm>>

-----------------------------------------------------------------------------
(* Deployer.Delete and DeleteKeepingObjects, the second half.              *)

KeepShootObjects ==
    /\ pc = "keepShoot"
    /\ shootMR' = Kept(shootMR)
    /\ Goto("deleteShoot")
    /\ UNCHANGED <<extensionVars, shootVars, seedMR, dnsVars, cached, calm>>

DeleteShootMR ==
    /\ pc = "deleteShoot"
    /\ shootMR' = Condemned(shootMR)
    /\ Goto("waitShoot")
    /\ UNCHANGED <<extensionVars, shootVars, seedMR, dnsVars, cached, calm>>

\* Seeded fault: returns without waiting.
SkipShootWait ==
    pc = "waitShoot" /\ Goto("succeeded") /\ UNCHANGED landscapeVars

\* Seeded fault: waits without a timeout.
WaitForever ==
    pc = "waitShoot" /\ ~Seen.shootMR /\ Goto("succeeded") /\ UNCHANGED landscapeVars

WaitShootMRDeleted ==
    /\ pc = "waitShoot"
    /\ IF Seen.shootMR THEN Fail ELSE Goto("succeeded")
    /\ UNCHANGED landscapeVars

-----------------------------------------------------------------------------
\* Any call may return an error.  A write that took effect although its answer
\* was lost is the write followed by this step.
CallFails ==
    /\ ~calm
    /\ pc \in Step \ {"succeeded"}
    /\ Fail
    /\ UNCHANGED landscapeVars

\* The process dies or loses its lease between two calls.
Crash ==
    /\ ~calm
    /\ pc # "idle"
    /\ Stop
    /\ UNCHANGED landscapeVars

WorkerStep ==
    \/ GetCluster \/ Deploy \/ LookUpExternalRecord \/ GetService
    \/ DeployDNSRecord
    \/ KeepSeedObjects \/ DeleteSeedMR \/ WaitSeedMRDeleted
    \/ GetDNSRecord \/ ConfirmDNSRecord \/ DeleteDNSRecordObject
    \/ KeepShootObjects \/ DeleteShootMR \/ WaitShootMRDeleted
    \/ CompleteOperation

Init == LandscapeInit /\ WorkerInit

Next ==
    \/ LandscapeNext /\ UNCHANGED workerVars
    \/ StartOperation
    \/ WorkerStep
    \/ CallFails
    \/ Crash

\* The workqueue hands out a request that is due, and a running operation
\* makes its next call.
Fairness ==
    /\ LandscapeFairness
    /\ WF_vars(StartOperation)
    /\ WF_vars(WorkerStep)

Spec == Init /\ [][Next]_vars
FairSpec == Spec /\ Fairness


-----------------------------------------------------------------------------
(* Properties.                                                             *)

\* Every variable has its type, and an object that does not exist carries no flag.
TypeOK == LandscapeTypeOK /\ WorkerTypeOK

\* While the actuator reads, confirms and deletes the DNSRecord itself, the
\* seed ManagedResource is gone, so resource-manager no longer manages the
\* record (deployer.go:261-278), whatever failed before and however often the
\* operation was retried.
HandedOver ==
    pc \in {"getRecord", "confirmRecord", "reconfirmRecord", "deleteRecord"} =>
        ~seedMR.exists

\* When the actuator deletes the DNSRecord, its confirmation annotation is
\* still there, also when an earlier attempt had set it: the
\* cr-deletion-protection webhook never rejects the call
\* (deployer.go:254-257, 282-294).  Only for current reads: the patch computed
\* from an old copy may be empty.
DeletionNotBlocked ==
    pc = "deleteRecord" /\ record.exists => record.confirmed

RecordOnItsWayOut == record.exists => record.deleting

\* When Delete or Migrate has succeeded, neither ManagedResource is left, the
\* DNSRecord is gone or being deleted, and resource-manager has let go of
\* Traefik's objects (actuator.go:333-362, 419-446).
CleanAfterSuccess ==
    phase \in {"deleted", "migrated"} =>
        ~seedMR.exists /\ ~shootMR.exists /\ RecordOnItsWayOut
                       /\ traefik # "managed"

\* Even when the actuator's reads lag behind: whatever ManagedResource is left
\* after a success is on its way out, in the right way - the seed's without
\* touching the DNSRecord, a migrated shoot's without touching Traefik
\* (deployer.go:172-197, 261-269).
ReleasedAfterSuccess ==
    phase \in {"deleted", "migrated"} =>
        /\ seedMR.exists => seedMR.deleting /\ seedMR.keep
        /\ shootMR.exists => shootMR.deleting
        /\ shootMR.exists /\ phase = "migrated" => shootMR.keep

\* A finished force-deletion leaves no shoot ManagedResource for gardenlet's
\* "Waiting until shoot managed resources have been deleted" to trip over
\* (deployer.go:161-164).
ForcedLeavesNoShootMR == phase = "forceDeleted" => ~shootMR.exists

\* Delete and Migrate take the DNSRecord away before they touch Traefik
\* (actuator.go:346-357, 431-441); only a force-deletion may go on without.
DNSFirst ==
    shootMR.deleting /\ stage # "forced" => ~seedMR.exists /\ RecordOnItsWayOut

\* No DNSRecord is ever deployed for a Service without an address
\* (actuator.go:278-281).
TargetsAreAddresses ==
    /\ seedMR.exists => seedMR.addr \in Address
    /\ record.exists => record.addr \in Address

\* resource-manager has been told to take Traefik out of the shoot.
Removal(mr) == mr.exists /\ mr.deleting /\ ~mr.keep

\* Traefik disappears from the shoot only because a regular Delete asked for it:
\* no Reconcile, Restore, Migrate or ForceDelete, in whatever order they were
\* interrupted and repeated, ever does, and a ForceDelete stops what an earlier
\* Delete has asked for before it goes on (actuator.go:437-441, 390-394).
OnlyDeleteRemovesTraefik ==
    [][/\ Removal(shootMR') /\ ~Removal(shootMR) => op = "Delete"
       /\ traefik # "absent" /\ traefik' = "absent" =>
              /\ phase = "deleting" /\ Removal(shootMR)
              /\ op = "ForceDelete" => pc \in DNSSteps \cup {"keepShoot"}]_vars

\* A deletion comes to an end, also when it was forced because the shoot's API
\* server never answers again (deployer.go:172-197).
DeletionCompletes ==
    (calm /\ phase = "deleting") ~> (phase \in {"deleted", "forceDeleted"})

\* A migration comes to an end although the shoot's API server may be down.
MigrationCompletes == (calm /\ phase = "migrating") ~> (phase = "migrated")

\* After a regular deletion the entry disappears from the DNS zone
\* (actuator.go:346-350).
EntryWithdrawn == (calm /\ phase = "deleted") ~> (dnsEntry = NoAddress)

Serviceable ==
    /\ phase \in {"live", "restoring"} /\ stage = "active" /\ apiUp
    /\ ~shoot.hibernated /\ shoot.domain /\ shoot.external /\ shoot.valid

\* The entry, the DNSRecord and what resource-manager and a running Reconcile
\* would write into them all agree with the Service.
Settled ==
    /\ calm /\ Serviceable
    /\ lb # NoAddress /\ dnsEntry = lb
    /\ record.exists /\ ~record.deleting /\ record.addr = lb
    /\ seedMR.exists /\ ~seedMR.deleting /\ seedMR.addr = lb
    /\ ~shootMR.deleting
    /\ pc = "deployDNS" => addr = lb

\* Once the surroundings are quiet, the DNS entry of a serviceable shoot settles
\* on the Service's address, however addresses, faults, migrations and
\* deletions followed each other before (actuator.go:243-286).
DNSConverges == (calm /\ Serviceable) ~> []Settled

\* What has settled is never unsettled again by the Reconciles, time-outs and
\* resyncs that go on, also with old reads (actuator.go:243-286).
NeverUnsettled == [][Settled => Settled']_vars

\* After a deletion or a migration that succeeded, nothing on this seed publishes
\* an address any more: the entry is withdrawn or left alone, so that it cannot
\* take the place of what another seed publishes (actuator.go:346-350, 432-436).
SilentAfterwards ==
    [][dnsEntry' # dnsEntry /\ phase \in {"deleted", "migrated"}
         => dnsEntry' = NoAddress]_vars

-----------------------------------------------------------------------------
(* What comments of the code say and the code does not do.                 *)

\* actuator.go:346-347: Delete waits "for the DNS extension to clean up the
\* actual DNS record".
EntryGoneWhenDeleted == phase = "deleted" => dnsEntry = NoAddress

\* actuator.go:369-370, of ForceDelete: "The seed DNS record is still cleaned
\* up normally."
ForceDeleteCleansDNS ==
    phase = "forceDeleted" => ~seedMR.exists /\ RecordOnItsWayOut

\* actuator.go:329-331, of Delete: "resource-manager cleanly removes the Traefik
\* objects from the shoot cluster".
TraefikGoneWhenDeleted == phase = "deleted" => traefik = "absent"
===============================================================================
