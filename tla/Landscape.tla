------------------------------ MODULE Landscape ------------------------------
(***************************************************************************)
(* The surroundings of the Traefik extension for ONE shoot on ONE seed:    *)
(* the objects in the shoot's control-plane namespace and the actors that  *)
(* write them while the extension's own process runs.  None of these       *)
(* actors is code of this repository; each is modelled from how the        *)
(* repository's code and comments use it.                                  *)
(***************************************************************************)
CONSTANTS
    Address,      \* addresses a cloud may assign to the Traefik Service
    NoAddress,    \* a pending load balancer, or no address at all
    ShootStates,  \* the states of the shoot's settings a model explores
    StaleReads    \* TRUE: the ManagedResources and the DNSRecord are read from
                  \* an informer cache that lags

VARIABLES
    phase,      \* life cycle of the Extension resource (gardenlet's view)
    finalizer,  \* the Extension carries the extension's finalizer
    stage,      \* the Shoot itself: active, deleting or force-deleted
    shoot,      \* settings of the shoot the extension reads
    apiUp,      \* the shoot's kube-apiserver answers
    shootMR,    \* ManagedResource "extension-traefik" (class shoot)
    seedMR,     \* ManagedResource of the DNSRecord (class seed)
    record,     \* the DNSRecord "extension-traefik-ingress-dns" object
    dnsEntry,   \* the address the real DNS zone answers with
    traefik,    \* Traefik's objects inside the shoot
    lb,         \* status.loadBalancer of the Traefik Service
    cached,     \* what the process's informer cache knows of these objects
    calm        \* no more faults, outages or user requests from here on

extensionVars == <<phase, finalizer, stage>>
shootVars     == <<shoot, apiUp, traefik, lb>>
mrVars        == <<shootMR, seedMR>>
dnsVars       == <<record, dnsEntry>>
landscapeVars == <<extensionVars, shootVars, mrVars, dnsVars, cached, calm>>

ShootState == [hibernated : BOOLEAN,  \* spec.hibernation.enabled
               domain     : BOOLEAN,  \* spec.dns.domain is set
               external   : BOOLEAN,  \* "<shoot>-external" DNSRecord exists
               valid      : BOOLEAN]  \* providerConfig passes the checks

\* NoAddress is not an address a cloud assigns, and every explored shoot state
\* is one a shoot can be in.
ASSUME LandscapeAssumption ==
    /\ NoAddress \notin Address
    /\ ShootStates \subseteq ShootState
    /\ StaleReads \in BOOLEAN

AnyAddress == Address \cup {NoAddress}

ManagedResource == [exists : BOOLEAN, deleting : BOOLEAN, keep : BOOLEAN,
                    addr : AnyAddress]
DNSRecord == [exists : BOOLEAN, deleting : BOOLEAN, confirmed : BOOLEAN,
              addr : AnyAddress, synced : BOOLEAN]

NoMR     == [exists |-> FALSE, deleting |-> FALSE, keep |-> FALSE,
             addr |-> NoAddress]
NoRecord == [exists |-> FALSE, deleting |-> FALSE, confirmed |-> FALSE,
             addr |-> NoAddress, synced |-> FALSE]

\* An object that does not exist has no content and no flags.
MRTyped(mr) == mr \in ManagedResource /\ (~mr.exists => mr = NoMR)
RecordTyped(r) == r \in DNSRecord /\ (~r.exists => r = NoRecord)

\* What a Get tells the caller of a DNSRecord: is there one, and does the copy
\* carry the confirmation annotation?
Copy == {"absent", "unconfirmed", "confirmed"}
CopyOf(r) == IF ~r.exists THEN "absent"
             ELSE IF r.confirmed THEN "confirmed" ELSE "unconfirmed"

Phase == {"none", "live", "restoring", "migrating", "migrated",
          "deleting", "deleted", "forceDeleted"}

LandscapeTypeOK ==
    /\ phase \in Phase
    /\ finalizer \in BOOLEAN
    /\ stage \in {"active", "deleting", "forced"}
    /\ shoot \in ShootState
    /\ apiUp \in BOOLEAN
    /\ MRTyped(shootMR)
    /\ MRTyped(seedMR)
    /\ RecordTyped(record)
    /\ dnsEntry \in AnyAddress
    /\ traefik \in {"absent", "managed", "kept"}
    /\ lb \in AnyAddress
    /\ cached \in [seedMR : BOOLEAN, shootMR : BOOLEAN, record : Copy]
    /\ calm \in BOOLEAN

LandscapeInit ==
    /\ phase = "none"
    /\ finalizer = FALSE
    /\ stage = "active"
    /\ shoot \in ShootStates
    /\ apiUp = TRUE
    /\ shootMR = NoMR
    /\ seedMR = NoMR
    /\ record = NoRecord
    /\ dnsEntry = NoAddress
    /\ traefik = "absent"
    /\ lb = NoAddress
    /\ cached = [seedMR |-> FALSE, shootMR |-> FALSE, record |-> "absent"]
    /\ calm = FALSE

-----------------------------------------------------------------------------
(* The library's managedresources package and the client's Delete.         *)

\* CreateForShoot and CreateForSeed with keepObjects=false; neither revives an
\* object that is being deleted.
Created(mr, a) == [mr EXCEPT !.exists = TRUE, !.keep = FALSE, !.addr = a]

\* SetKeepObjects(true) and Delete, whose callers ignore a missing object.
Kept(mr) == IF mr.exists THEN [mr EXCEPT !.keep = TRUE] ELSE mr
Condemned(object) ==
    IF object.exists THEN [object EXCEPT !.deleting = TRUE] ELSE object

-----------------------------------------------------------------------------
(* gardenlet and the owner of the shoot.                                   *)

\* The extension is enabled (again) in the Shoot.
CreateExtension ==
    /\ ~calm
    /\ phase \in {"none", "deleted"}
    /\ stage = "active"
    /\ phase' = "live"
    /\ UNCHANGED <<finalizer, stage, shootVars, mrVars, dnsVars, cached, calm>>

\* The control plane comes (back) to this seed after a migration.
RestoreExtension ==
    /\ ~calm
    /\ phase = "migrated"
    /\ stage = "active"
    /\ phase' = "restoring"
    /\ UNCHANGED <<finalizer, stage, shootVars, mrVars, dnsVars, cached, calm>>

\* The control plane is to leave this seed.
MigrateExtension ==
    /\ ~calm
    /\ phase = "live"
    /\ stage = "active"
    /\ phase' = "migrating"
    /\ UNCHANGED <<finalizer, stage, shootVars, mrVars, dnsVars, cached, calm>>

\* The owner deletes the Shoot, and may then force the deletion.
DeleteShoot ==
    /\ ~calm
    /\ stage = "active" /\ phase \notin {"migrating", "migrated"}
    /\ stage' = "deleting"
    /\ UNCHANGED <<phase, finalizer, shootVars, mrVars, dnsVars, cached, calm>>

ForceDeleteShoot ==
    /\ ~calm
    /\ stage = "deleting"
    /\ stage' = "forced"
    /\ UNCHANGED <<phase, finalizer, shootVars, mrVars, dnsVars, cached, calm>>

\* gardenlet deletes the Extension resource, because the Shoot is deleted or
\* because the extension was disabled.  Without a finalizer it is gone at once.
DestroyExtension ==
    /\ ~calm
    /\ phase = "live" \/ (phase = "restoring" /\ finalizer)
    /\ phase' = IF finalizer THEN "deleting" ELSE "deleted"
    /\ UNCHANGED <<finalizer, stage, shootVars, mrVars, dnsVars, cached, calm>>

\* Hibernation, provider config and external DNSRecord change; the domain of
\* a shoot never does.
UpdateShoot ==
    /\ ~calm
    /\ shoot' \in {s \in ShootStates : s.domain = shoot.domain}
    /\ shoot' # shoot
    /\ UNCHANGED <<extensionVars, apiUp, traefik, lb, mrVars, dnsVars, cached,
                   calm>>

ToggleAPI ==
    /\ ~calm
    /\ apiUp' = ~apiUp
    /\ UNCHANGED <<extensionVars, shoot, traefik, lb, mrVars, dnsVars, cached,
                   calm>>

\* From here on the surroundings are quiet.  gardenlet keeps the API server of
\* a normally deleted shoot running until the Extension is gone
\* (lifecycle.delete: BeforeKubeAPIServer).
Settle ==
    /\ ~calm
    /\ phase = "deleting" /\ stage # "forced" => apiUp
    /\ calm' = TRUE
    /\ UNCHANGED <<extensionVars, shootVars, mrVars, dnsVars, cached>>

-----------------------------------------------------------------------------
(* gardener-resource-manager, one instance for each ManagedResource class. *)

\* Applies Traefik's objects to the shoot, adopting kept ones.
ApplyShootMR ==
    /\ shootMR.exists /\ ~shootMR.deleting /\ apiUp
    /\ traefik # "managed"
    /\ traefik' = "managed"
    /\ UNCHANGED <<extensionVars, shoot, apiUp, lb, mrVars, dnsVars, cached,
                   calm>>

\* Finishes the deletion: removes the objects, or leaves them when the
\* ManagedResource says keepObjects, which needs no shoot API server.
FinishShootMR ==
    /\ shootMR.deleting
    /\ shootMR' = NoMR
    /\ \/ /\ shootMR.keep
          /\ traefik' = IF traefik = "managed" THEN "kept" ELSE traefik
          /\ lb' = lb
       \/ /\ ~shootMR.keep /\ apiUp
          /\ traefik' = "absent"
          /\ lb' = NoAddress
    /\ UNCHANGED <<extensionVars, shoot, apiUp, seedMR, dnsVars, cached, calm>>

\* The DNSRecord as the ManagedResource describes it: applying it reverts a
\* confirmation annotation it does not know, and cannot undo a deletion.
AppliedRecord ==
    [exists    |-> TRUE,
     deleting  |-> record.deleting,
     confirmed |-> FALSE,
     addr      |-> seedMR.addr,
     synced    |-> record.synced /\ record.addr = seedMR.addr]

ApplySeedMR ==
    /\ seedMR.exists /\ ~seedMR.deleting
    /\ record # AppliedRecord
    /\ record' = AppliedRecord
    /\ UNCHANGED <<extensionVars, shootVars, mrVars, dnsEntry, cached, calm>>

\* With keepObjects the DNSRecord stays.  Without, resource-manager would have to
\* delete it first, and the cr-deletion-protection webhook rejects that for good.
FinishSeedMR ==
    /\ seedMR.deleting
    /\ seedMR.keep \/ ~record.exists
    /\ seedMR' = NoMR
    /\ UNCHANGED <<extensionVars, shootVars, shootMR, dnsVars, cached, calm>>

-----------------------------------------------------------------------------
(* The DNS provider extension, the cloud and the informer cache.           *)

PublishEntry ==
    /\ record.exists /\ ~record.deleting /\ ~record.synced
    /\ dnsEntry' = record.addr
    /\ record' = [record EXCEPT !.synced = TRUE]
    /\ UNCHANGED <<extensionVars, shootVars, mrVars, cached, calm>>

\* Removes the entry and then the finalizer of the deleted DNSRecord.
WithdrawEntry ==
    /\ record.deleting
    /\ dnsEntry' = NoAddress
    /\ record' = NoRecord
    /\ UNCHANGED <<extensionVars, shootVars, mrVars, cached, calm>>

\* The cloud gives the Service an address, and may change it later.
AssignAddress ==
    /\ traefik # "absent"
    /\ lb = NoAddress \/ ~calm
    /\ lb' \in Address /\ lb' # lb
    /\ UNCHANGED <<extensionVars, shoot, apiUp, traefik, mrVars, dnsVars,
                   cached, calm>>

Known == [seedMR |-> seedMR.exists, shootMR |-> shootMR.exists,
          record |-> CopyOf(record)]

\* The informers catch up, each kind of object on its own.
SyncCache ==
    /\ StaleReads
    /\ \E mrs, records \in BOOLEAN :
          /\ mrs \/ records
          /\ cached' = [seedMR  |-> IF mrs THEN Known.seedMR ELSE cached.seedMR,
                        shootMR |-> IF mrs THEN Known.shootMR ELSE cached.shootMR,
                        record  |-> IF records THEN Known.record
                                               ELSE cached.record]
    /\ cached' # cached
    /\ UNCHANGED <<extensionVars, shootVars, mrVars, dnsVars, calm>>

\* What a Get of one of these objects through the process's client reports.
Seen == IF StaleReads THEN cached ELSE Known

LandscapeNext ==
    \/ CreateExtension \/ RestoreExtension \/ MigrateExtension
    \/ DeleteShoot \/ ForceDeleteShoot \/ DestroyExtension
    \/ UpdateShoot \/ ToggleAPI \/ Settle
    \/ ApplyShootMR \/ FinishShootMR \/ ApplySeedMR \/ FinishSeedMR
    \/ PublishEntry \/ WithdrawEntry \/ AssignAddress \/ SyncCache

\* The other controllers keep working through their queues, the cloud answers
\* and watches deliver.  Nothing makes a user or an outage do anything.
LandscapeFairness ==
    /\ WF_landscapeVars(ApplyShootMR) /\ WF_landscapeVars(FinishShootMR)
    /\ WF_landscapeVars(ApplySeedMR) /\ WF_landscapeVars(FinishSeedMR)
    /\ WF_landscapeVars(PublishEntry) /\ WF_landscapeVars(WithdrawEntry)
    /\ WF_landscapeVars(AssignAddress) /\ WF_landscapeVars(SyncCache)
=============================================================================
