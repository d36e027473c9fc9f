# Verification of gardener-extension-shoot-traefik

TLA+ models of the Gardener extension that runs Traefik as the ingress
controller of shoot clusters, the TLC runs that check them, and TLAPS proofs
about them. Everything below `src/` in a reference means the repository.

## The system

| Component | State it keeps | Operations | What makes it correct |
|---|---|---|---|
| Actuator (`pkg/actuator/actuator.go`) | none of its own; everything lives in the control-plane namespace | `Reconcile`, `Restore`, `Delete`, `ForceDelete`, `Migrate` | cleans up completely, in the right order, however often it is interrupted; never takes Traefik away when it must stay |
| Deployer (`pkg/traefik/deployer.go`), cluster part | shoot ManagedResource, seed ManagedResource, DNSRecord | `Deploy`, `Delete`, `DeleteKeepingObjects`, `DeployDNSRecord`, `DeleteDNSRecord` | hands the DNSRecord over from resource-manager before it deletes it; never waits for ever |
| Deployer, generated objects | none | `generateResources` and one function per object | the objects fit together for every config |
| Provider config (`pkg/apis/config`) | `TraefikConfigSpec` | decoding, defaults, merge | a change rolls out completely; bad values do not |
| Controller registration (`pkg/controller`) | options | `New`, `SetupWithManager` | what it is told reaches the library: resync, predicates, operation annotation |
| Manager (`pkg/mgr`) | options | `New`, `With...` | an option given is an option in force |
| Processes (`cmd/extension-traefik`) | flags; the library's queue and workers | `manager`, `webhook` commands | one active replica; nobody is worked on twice, forgotten, or kept waiting |
| Admission (`pkg/admission/validator`) | none | `Validate` | only evaluation shoots use the extension, and none is kept from going |
| Heartbeat (`pkg/heartbeat`) | lease | `SetupWithManager` | renews in time |

They interact through the API server of the seed. gardenlet writes the
Extension resource; the extension library's reconciler runs one operation of
the actuator at a time for it; the actuator writes two ManagedResources;
gardener-resource-manager turns the first into Traefik's objects in the shoot
and the second into a DNSRecord in the seed; the DNS provider extension
publishes the record; the cloud gives Traefik's Service the address that goes
into it. Reads of the actuator are answered by the manager's informer cache.
Several replicas of the manager command elect a leader, whose workqueue decides
which Extension the actuator works on; the webhook command answers the garden
cluster's API server about Shoots.

The hard behaviours: five independent actors act on the same four objects; each
operation of the actuator is a sequence of up to ten API calls, any of which
may fail and after any of which the process may die; the waits time out after
two minutes and are retried; requests (migrate, delete, force-delete,
hibernate) arrive in the middle of an operation; the cache lags; a replica dies
after it has taken a request off the Extension and before it has done anything
about it; the webhook is restarted while a Shoot is on its way out.
`PROJECT.json` lists the hazards line by line.

## Modules

| Module | Models |
|---|---|
| `Landscape` | the objects of one shoot on one seed and the actors that are not code of this repository |
| `Actuator` | EXTENDS `Landscape`: the operations, one action per API call, errors and crashes; properties at the end |
| `ActuatorInvariant` | the inductive invariants: `AnyReadInv`, however far the cache lags, and `IInv`, when reads do not lag |
| `ActuatorProofs` | TLAPS proofs about `Actuator` |
| `MCActuator` | small instances of `Actuator` |
| `Handover`, `HandoverProofs` | the abstract promise: who keeps the DNSRecord and Traefik's objects, and in which order they change hands |
| `ActuatorHandover`, `ActuatorHandoverProofs` | the refinement mapping from `Actuator` to `Handover`, and the proof that every step maps to a step |
| `Dispatch` | the abstract reconciler: which operation runs for an Extension, when, and one at a time |
| `ControllerPool`, `ControllerPoolProofs`, `MCControllerPool` | the replicas of the manager command, leader election, workqueue, workers, predicates, resync; the mapping to `Dispatch` and the proof that it is implemented |
| `Admission`, `AdmissionProofs`, `MCAdmission` | the validator, the webhook command, and the life of a Shoot it sees |
| `TraefikConfig`, `TraefikConfigProofs`, `MCTraefikConfig` | the merge of the provider config, the generated objects, and the rollout of a changed config |
| `Heartbeat`, `HeartbeatProofs`, `MCHeartbeat` | the renewal of the heartbeat lease, in half seconds |
| `MgrOptions`, `MgrOptionsProofs`, `MCMgrOptions` | `mgr.New` and its options, and the options of the two commands |

### `Landscape` and `Actuator`

A ManagedResource is a record: does it exist, has it a deletion timestamp,
`keepObjects`, and (for the seed's) the address it carries. The DNSRecord has
`confirmed` (the confirmation annotation) and `synced` (the DNS provider
extension has published it as it is). `traefik` says whether the objects in the
shoot are absent, managed, or kept, that is left there without a
ManagedResource. `phase` is the life of the Extension resource. `pc` is the
next API call of the operation `op`; `addr` is the only value an operation
carries from one call to another.

| Action | Code |
|---|---|
| `GetCluster` | `Reconcile`, up to the merged config (the early returns included) |
| `Deploy` | `Deployer.Deploy` |
| `LookUpExternalRecord`, `GetService`, `DeployDNSRecord` | `reconcileDNSRecord` |
| `KeepSeedObjects`, `DeleteSeedMR`, `WaitSeedMRDeleted`, `GetDNSRecord`, `ConfirmDNSRecord`, `DeleteDNSRecordObject` | `DeleteDNSRecord`, call by call |
| `KeepShootObjects`, `DeleteShootMR`, `WaitShootMRDeleted` | `DeleteKeepingObjects`, `Delete` |
| `FirstStep`, `AfterDNSRecord`, `Fail` | how `Delete`, `ForceDelete` and `Migrate` put those together and treat errors |
| `StartOperation`, `CompleteOperation` | the library's reconciler: finalizer, choice of the operation, retry |
| `CallFails`, `Crash` | any call returns an error; the process dies between two calls |

With `StaleReads`, a Get of a ManagedResource or of the DNSRecord returns what
`cached` holds, and `SyncCache` lets that catch up at any time: whether the object
exists and, of the DNSRecord, whether the copy carries the confirmation. The copy
matters, since the patch in `DeleteDNSRecord` is the difference to it
(`deployer.go:282-290`): from a copy that is already confirmed the patch is empty
(`reconfirmRecord`), and confirms nothing if resource-manager has reverted the
annotation meanwhile. Reads of the Cluster, the external DNSRecord and the Service
do not lag in the model; the address a Reconcile has read may be old all the same.

A wait is its `pc`: it ends when the ManagedResource is seen gone and may time
out as long as it is seen. A write whose answer is lost is the write followed by
`CallFails`. `Restore` is `Reconcile`, as in the code.

What the surroundings are assumed to do, from the comments and calls in the
code: resource-manager reverts a DNSRecord's annotations as long as it manages
it (`deployer.go:254-257`); it drops a ManagedResource with keepObjects without
reaching the shoot (`actuator.go:366-369`), and needs the shoot's API server
otherwise; the webhook rejects the deletion of an unconfirmed DNSRecord; the DNS
provider extension publishes a DNSRecord when it is created and when its address
changes, and removes the entry before it lets a deleted one go. gardenlet
finishes a migration before it deletes, and a migrated Extension may come back
to the same seed.

### `Handover`, implemented by `Actuator`

`Handover` knows no operations, calls or retries. It says who keeps each of the
two things that are deployed (nobody, resource-manager, resource-manager while
it lets go, resource-manager while it removes) and allows a change only where
the comments of the code promise it: the DNSRecord is confirmed and deleted only
once nobody keeps it, Traefik's objects are released only after that, and the
Extension ends only when nobody keeps anything. `forced` lifts the order, as
`ForceDelete` does.

`ActuatorHandover` maps `Actuator` to it. The one step that is not obvious:
`Handover` still counts an Extension as serving while a Reconcile that began
before its end was requested is running, since that Reconcile may still create
both ManagedResources. With lagging reads the mapping fails, because `Delete` may
release a DNSRecord it never saw; the theorem and the run therefore assume
`StaleReads = FALSE`.

### `ControllerPool`

What lies between the command line and the actuator. `proc` and `parts` follow
`runManager` and `getManager` of each replica; `work` is the workqueue with its
delayed items, and what each worker is doing; `ext` are the Extensions, of which
the model keeps the phase, the operation annotation, whether the last operation
succeeded, and whether the latest change of the spec has been applied. An Extension
is `Unattended` when a change is left, no replica has it, and the list a new leader
starts from would not bring it back.

| Action | Code |
|---|---|
| `CreateManager`, `SetUpController`, `SetUpFails` | `getManager`, `runManager` and its error returns |
| `Lead`, `Crash` | leader election; loss of the lease ends the process, as a crash does |
| `Change`, `Annotate`, `Delete` | gardenlet |
| `Take`, `BeginReconcile`, `BeginDelete`, `FinishReconcile`, `FinishDelete`, `NothingToDo`, `Fail` | the library's reconciler, one step per write to the Extension |
| `TimeOut` | the two-minute limit of the deployer's waits |
| `Due` | the queue's delay after an error, or the resync interval |

`Dispatch` is what all of this amounts to for the actuator: of each Extension, no
queue, replica or lease, only its life (absent, new, live, leaving) and the
operation that runs for it. A Reconcile starts only before the end is requested
and a cleanup only after, one operation runs at a time, and the Extension goes
away only before its first operation or at the end of a cleanup. `ControllerPool`
implements it (`KeepsToDispatch`); the mapping has a value `several` for two
replicas with an operation for one Extension, which `Dispatch` never allows.
`Actuator` is built on it: for its one Extension, the guard of `StartOperation`
is that of `StartReconcile` and `StartCleanup`, where a migration counts as a
cleanup, and `CompleteOperation` and `Stop` end an operation as `FinishCleanup`
and `Dispatch`'s `Stop` do. That correspondence is by reading, not by proof.

`Controller` is what `controller.New` makes of the options `runManager` gives it;
`Passes` decides with it which events reach the queue. `PoolAssumption` says that
several replicas come only with leader election. Those are the chart's defaults;
`replicaCount` and `leader_election.enabled` are independent values
(`values.yaml:4,50`), and a deployment that turns the second off and keeps several
replicas is outside the model.

Three things the model shows about the code are no contradiction of a promise but
good to know. The library takes gardenlet's annotation off before it has worked on
the Extension; if the leader goes down in between, a retry after an error included,
nobody knows of the request until gardenlet repeats it. `OnlyCrashesForget` says
that a request is lost in no other way, and `EveryoneServed` counts on gardenlet to
repeat it (`Annotate`). After a failover the new leader does not take up Extensions whose
last operation succeeded, so their resync stops until gardenlet annotates them
again. And the comment at `controller.go:58-62` says the controller reconciles
only with the annotation; resync, a deletion, and an unsuccessful last operation
found at start-up all do without it.

### `Admission`

`stage` and `up` follow the webhook command's replicas: created, started, and
which of the parts behind its readiness checks have come up. `registered` says
that the API server knows the webhook, which outlives the process; from then on a
write without a ready replica is refused. `spec` is the Shoot's list of
extensions and its purpose. `Validate` is `validateShoot`. The webhook sees
creations and every update, the one that confirms a deletion and the one that
takes the finalizer off included, but no DELETE.

### `TraefikConfig`

`Merged` is the merge in `Reconcile`; `Deployment`, `ClusterRole`,
`IngressClass` and the others keep of each object what depends on the config or
refers to another object. The rollout applies a manifest one object at a time
and removes an IngressClass that is no longer in it last. Whether a raw provider
config decodes is an input.

### `Heartbeat`

`renewInterval` is the field of that name. The extension library has one
reconcile request in its queue: `Renew` and `RenewFails` are what becomes of it,
`Tick` lets time pass. `RenewIntervalSeconds` is the conversion in
`SetupWithManager`; the library is modelled from what it is given there. An
interval below a second becomes zero seconds, which asks the library for no
further renewal, so the properties speak of intervals of a second or more.

### `MgrOptions`

One action per kind of option, applied in any order, then one action per step of
`New`; an option may return an error, and so may each of those steps. `settings` says for every field of `mgr` whether
it still has New's default, what the caller gave, or the zero value of a struct
the caller gave. `collected`, `registered` and `attached` follow what options
add. The same option given twice, and the order of runnables among themselves,
are left out.

## Runs

| Run | Shows |
|---|---|
| `actuator` | all safety properties, that only a regular `Delete` has Traefik taken out of the shoot, that `Handover` is implemented, and that a seed which was left publishes nothing any more, with errors and crashes at every call, outages, changed addresses, hibernation, bad config, missing external record or domain, migration and return, deletion, forced deletion; two addresses, five shoot states. `IInv` contains the type invariant |
| `actuator_live` | deletions and migrations end, the entry is withdrawn, and the DNS entry settles on the Service's address and is never unsettled again; two addresses, a usable shoot |
| `actuator_stale` | with a lagging cache `AnyReadInv` holds: whatever ManagedResource is left after a success is on its way out, in the right way |
| `traefik_config` | the objects fit together, a rollout converges, settles on a served class, and never changes a class's controller |
| `heartbeat` | with an interval of a second or more the lease is as fresh as failed renewals allow and is renewed for ever; half a second to three and a half, three failures in a row |
| `mgr_options` | any three options in any order: only five pairs clash, the commands use none of them, types reach the scheme and parts the manager that is returned |
| `controller_pool` | no Extension is worked on twice at a time or kept waiting for ever behind one that cannot be deleted; the leader keeps track of whatever shows that a pass is due, and only a leader that goes down loses a request; `Dispatch` is implemented; the heartbeat is honest; resync goes on |
| `admission` | only Shoots written before the webhook was known break the rule, and the webhook keeps no Shoot from being deleted that meets the rule, or that can still be repaired: one whose deletion was not confirmed before the webhook came |
| `entry_outlives_delete`, `force_delete_leaves_dns`, `restore_skipped`, `unknown_provider` | each finds the code doing something else than a comment of its own says; see `findings` in `PROJECT.json`. `restore_skipped` runs without failing calls and crashes (`FaultlessSpec`), so that what it finds is a Restore skipped for a hibernated shoot and not one that was interrupted |

Bounds. One shoot on one seed is what one run of the actuator ever touches: the
namespaces of different shoots share nothing. Two addresses are enough to tell
a stale one from the current one. The shoot states are a usable shoot and every
reason to stop early on its own, since `Reconcile` stops at the first. Nothing
else of the actuator is bounded: errors, crashes, retries and requests may
happen any number of times. Deadlock is not checked for `Actuator`: once the
Extension is gone and the surroundings are quiet, the system has nothing left
to do. The heartbeat's intervals lie on both sides of each full second up to
three, and its delays are long enough to be seen next to them. Options clash in
pairs, so three at a time show every clash and whether a third option makes
one; a rejected heartbeat and a manager that was returned have nothing left to
do either. The pool has two replicas and two Extensions, one of which never gets
rid of its ManagedResource: with one worker (what the library makes of zero) it
occupies all there are. The other command line has two workers, so two
Extensions are worked on at once, no resync, and ignores the operation
annotation. A third replica or Extension would be one more of the same, and the
safety properties are proved for any number. The Shoot of the admission has no
entry of the type, one that is on or off, alone or on either side of another,
with each kind of purpose.

Fairness. A running operation makes its next call, a request that is due is
handed out by the workqueue, and resource-manager, DNS provider extension,
cloud and watches do what they can do for good (weak fairness each). Users and
outages have none. The liveness properties are about what follows once `calm`
holds: no more errors, crashes, outages, requests and address changes. Timeouts
go on after that. `Settle` assumes what lifecycle.delete=BeforeKubeAPIServer
promises, that a regularly deleted shoot keeps its API server; a forced
deletion must end without it. That an operation is started at all for a
live Extension rests on resync and on gardenlet's maintenance. In the pool,
replicas start, workers take what is queued, and of each Extension the pass goes
on or ends, its delay runs out, or gardenlet asks again, all of it only once
`calm` holds; nothing is assumed about crashes before, nor about which Extension
is first in the queue. For the admission, containers are restarted and an owner
who wants a Shoot gone goes on asking. The heartbeat needs that its queue hands
out due requests and that time passes; `MaxFailures` says that failures stop.

Findings that a reader of the code may want to weigh. Traefik's objects stay in
the shoot after a Restore that was skipped; that matters for an extension that is
disabled on a shoot that lives on. With a cache that lags for as long as
resource-manager takes to release a ManagedResource, the Get in `DeleteDNSRecord`
can miss the DNSRecord, which then counts as deleted; this is why `HandedOver`,
`CleanAfterSuccess`, `DNSFirst` and the hand-over hold only without lag, while
`AnyReadInv` and what follows from it hold with any. `DeletionNotBlocked` needs
current reads as well: after an empty patch the webhook may reject the deletion,
which is an error, and the next attempt gets a copy that has caught up. `WithWebhookCertDir` does nothing after `WithWebhookPort`, one of the
five clashes of `MgrOptions`; neither command combines them. A Shoot that broke
the rule before the webhook was installed and is being deleted cannot be
finished: the removal of its finalizer is an update the validator refuses, and
its spec can no longer be changed. Since the webhook is not asked about the
DELETE, that is also where a Shoot ends whose deletion was only confirmed before
the webhook came and requested afterwards. `DeletionCompletes` leaves out these
two, confirmed or under way and offending; every other Shoot meets the rule or is
stopped at the confirmation, where it can still be repaired.

Two seeds are not modelled side by side. gardenlet is taken to finish with the
old seed's namespace, DNSRecord included, before it restores on the new one, so
that the DNS extensions of the two do not race for the entry. What the old seed
contributes is `SilentAfterwards`: after a migration that succeeded it publishes
no address any more, it only withdraws its entry. `MigrationCompletes` and
`DNSConverges` are checked for the seed the actuator runs on, migration and
return included.

## Proofs

`ActuatorProofs` proves for every set of addresses and shoot states:

- `TypeCorrect`: the type invariant.
- `AnyReadInvHolds`: `AnyReadInv`, and from it `AddressesOnly` and
  `ReleasedWhateverRead`. They hold however far the cached ManagedResources and
  DNSRecord lag.
- `InvariantHolds`: `IInv`, when reads do not lag (`StaleReads = FALSE`; with
  lagging reads several of its parts are false), and from it
  `CleanupIsComplete`, `DNSRecordHandover`, `DeletionAccepted`, `DeletionOrder`
  and `NothingLeftOfForced`.
- `TraefikSurvives` and `LeftSeedIsSilent`: action properties, from `IInv` and a
  look at the actions that ask for Traefik's removal, remove it, or change the
  entry. The first says that only a `Delete` ever asks, and that a `ForceDelete`
  which takes over keeps the objects before it goes on. For the second it
  matters that after a success no DNSRecord is left that is not being deleted.
- `SettledStays` and `SettledForEver`: no step, of a Reconcile that read an old
  address, of resource-manager, of a time-out or of a resync, leaves `Settled`.
  TLC checks that `Settled` is reached (`DNSConverges`); that it then lasts is
  proved, also with lagging reads.

None of the properties is inductive. `AnyReadInv` gets by without saying how old
a cached object may be, because it speaks only of what the operation has written
itself: once it has set keepObjects and deleted a ManagedResource, that object is
gone or being deleted in that way, whatever a later Get reports, until a
`Reconcile` writes it again. `Requests` says so for every call, `Forsaken` that it
lasts after the operation has ended, and for that `Protection` says that the
finalizer outlives every operation that may write.

What `IInv` adds is what the waits achieve when their reads are current: how far
an operation has got (`Progress`), that a ManagedResource under deletion is never
one a running `Reconcile` works on (`DeletionsAreOwned`), and that an Extension
that goes away without its finalizer has nothing deployed (`NothingUnprotected`).
Both need that an operation is only at its own calls and in the phase it belongs
to (`StepsBelongToOperations`, `OperationsBelongToPhases`). The proofs are by
action, first for the types, then for `AnyReadInv`, then for the rest of `IInv`.
The only assumption on the constants is `LandscapeAssumption`.

`HeartbeatProofs` proves `LeaseStaysFresh` for every interval, delay and number
of failures: `LeaseFresh` needs the time a request still has to wait, which
`Scheduled` adds to the age; `AllowanceGrows` keeps the products out of the steps.
`Scheduled` by itself is `AlwaysScheduled`; the types are a lemma for both, and not
checked on their own, since nothing in the code could break them.

`ActuatorHandoverProofs` proves `PromiseKept`: under the mapping, initial states
are initial states of `Handover` and every step is one of its steps or a stutter.
The surroundings' steps and the worker's are two lemmas, by action; `IInv` of the
state before and after supplies what the mapping needs (a deletion in progress
always keeps the DNSRecord; an operation belongs to its phase). `HandoverProofs`
then proves of the abstract specification alone, in a few lines, what that
amounts to: an Extension that has ended, unless by force, leaves nothing that is
kept or that nobody will delete (`PromiseDischarged`).

`ControllerPoolProofs` proves `OneWorker`, `NobodyForgotten`, `HeartbeatIsHonest`
and `TypeCorrect` for any replicas, finite set of Extensions, and command lines.
`PoolInv` adds to `NothingForgotten` that at most one replica leads, that only a
leader has work, and that no replica is past its set-up without its controller.
A first group of lemmas says what each operation on the queue keeps; they, not
the queue, are used in the steps. `NothingForgotten` is about what the Extension
shows: a request whose annotation is off and whose pass has not reached the status
shows nothing. `RequestsOutliveErrors` proves `OnlyCrashesForget` for those: each
step that is about one Extension leaves it attended to (`Attends`, in the lemma of
that step) and takes nothing away from the others (`Bystanders`), and of the steps
of whole replicas only the end of a leader does (`OnlyLeadersLose`). The clause of
`NothingForgotten` about changes made during a pass is what the end of a pass needs.

`DispatchKept`, in the same module, is the refinement of `Dispatch`. `Footprint`
reduces every step to what `Dispatch` can see of it: it stops operations, asks for
something, begins one operation, or ends one deletion. The mapping needs
`PoolInv`, for one operation at a time, and `Attached` (`NeverDetached`), for what
the replica and the Extension agree on: while a deletion is worked on, the
Extension waits for it, and no operation outlives its Extension.

`AdmissionProofs` proves `RuleEnforced` and `TypeCorrect` for any set of specs
and replicas; `ValidatorIsExact` shows that the loop's first match decides the
same as the rule, given that an extension type occurs once per Shoot
(`SpecsAssumption`, which the API server enforces).

`TraefikConfigProofs` proves `ObjectsFit`, `SettledRolloutServes` and
`ControllersFixed` for every provider config. The invariant is that a manifest
always comes out of the merge, which repairs replicas and an empty provider
(`MergeRepairs`), and that every class in the shoot has the controller its name
stands for.

`MgrOptionsProofs` proves all five invariants of `MgrOptions` for every catalogue
of options and any number of them, where the run stops at three. `EachHeeded`
is the heart of it: each option given so far is in force or a clashing one has
been given; `WhoChanged` says which options can have made a webhook server or
emptied the controller's struct.

Only model-checked: liveness, which TLAPS cannot prove under fairness
(`DeletionCompletes`, `MigrationCompletes`, `EntryWithdrawn`, `DNSConverges`,
`RolloutConverges`, `BeatsForEver`, `EveryoneServed`, `ResyncGoesOn`, and
`DeletionCompletes` of `Admission`). What the code does against its own comments
is shown by the runs that expect a violation.

## Not modelled

Encoding and decoding of objects, CRDs, security contexts, resource requests, the
backing Secret of a ManagedResource as an object of its own: no property here
depends on them. Of the command lines, the parsing of flags and their
environment variables, the logger, the certificates and the source cluster's
client of the webhook command: declarations and calls into the library, whose
results are inputs of `ControllerPool` and `Admission`. Metrics, version, image
lookup and generated API code have no behaviour anything depends on. Of
`pkg/controller`, the watch builder, which the command does not use. Migration between two seeds as a module of its own, for the reason
given above.
