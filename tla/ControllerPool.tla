----------------------------- MODULE ControllerPool -----------------------------
(***************************************************************************)
(* The replicas of the manager command (cmd/extension-traefik/internal/    *)
(* manager) and the controller each of them registers (pkg/controller):    *)
(* start-up, leader election, the watch's predicates, the workqueue and    *)
(* its workers.  What an operation does to the cluster is Actuator's; here *)
(* it succeeds, fails, or runs into the deployer's time limit.             *)
(***************************************************************************)
EXTENDS Integers, Sequences, FiniteSets, Functions

CONSTANTS
    Replicas,     \* processes running the manager command
    Extensions,   \* Extension resources of type shoot-traefik on the seed
    Stuck,        \* those whose shoot ManagedResource cannot be deleted
    Flags         \* command lines the replicas may be given

(* Several replicas only together with leader election, as in the chart's   *)
(* defaults.  The two are independent values: nothing enforces it.          *)
ASSUME PoolAssumption ==
    /\ IsFiniteSet(Extensions)
    /\ Flags \subseteq [ leaderElection: BOOLEAN, maxConcurrentReconciles: Int,
                         resync: BOOLEAN, ignoreOperationAnnotation: BOOLEAN ]
    /\ \A f \in Flags : f.leaderElection \/ \A r, s \in Replicas : r = s

VARIABLES
    flags,   \* the command line, the same for all replicas
    proc,    \* how far a replica's runManager has come
    parts,   \* what has been set up with a replica's manager
    work,    \* a replica's workqueue and workers
    ext,     \* the Extension resources
    calm     \* no more requests, errors and crashes

vars == <<flags, proc, parts, work, ext, calm>>

Phases == {"absent", "new", "live", "deleting"}   \* "new" has no finalizer yet

(* change: has the latest spec been applied ("none" is left to do), not yet *)
(* been picked up ("unseen"), or been picked up by a running pass ("seen")? *)
ExtensionState == [ phase: Phases, annotated: BOOLEAN, succeeded: BOOLEAN,
                    change: {"none", "unseen", "seen"} ]

NoExtension == [ phase |-> "absent", annotated |-> FALSE, succeeded |-> FALSE,
                 change |-> "none" ]

WorkState == [ queue: Seq(Extensions),
               busy: [Extensions -> {"no", "taken", "reconcile", "delete"}],
               again: SUBSET Extensions,      \* changed while a worker has it
               waiting: SUBSET Extensions ]   \* requeued after a delay

NoWork == [ queue |-> <<>>, busy |-> [x \in Extensions |-> "no"],
            again |-> {}, waiting |-> {} ]

-----------------------------------------------------------------------------
(* What the flags become.                                                   *)

\* Zero and negative numbers mean the library's default of one worker.
Workers(n) == IF n > 0 THEN n ELSE 1

\* Seeded fault: the flag never reaches the manager.
ManagerAlone(f) == [ leaderElection |-> FALSE,
                     workers |-> Workers(f.maxConcurrentReconciles) ]

\* The manager's options that matter here; MgrOptions has all of them.
Manager(f) == [ leaderElection |-> f.leaderElection,
                workers |-> Workers(f.maxConcurrentReconciles) ]

\* controller.New: what it insists on, and what it defaults to if not given.
Required == {"actuator", "name", "extensionType", "extensionClass"}

Given(options, o, zero) == IF o \in DOMAIN options THEN options[o] ELSE zero

NewController(options) ==
    [ complete |-> Required \subseteq DOMAIN options,
      finalizerSuffix |-> Given(options, "finalizerSuffix", options.name),
      resync |-> Given(options, "resync", FALSE),
      predicates |-> Given(options, "predicates", {}),
      ignoring |-> Given(options, "ignoreOperationAnnotation", FALSE) ]

TraefikActuator ==
    [ name |-> "traefik", extensionType |-> "shoot-traefik",
      finalizerSuffix |-> "gardener-extension-shoot-traefik",
      extensionClass |-> "shoot" ]

\* Seeded fault: the resync interval is not passed on.
RunOptionsNoResync(f) ==
    [ actuator |-> TraefikActuator, name |-> TraefikActuator.name,
      extensionType |-> TraefikActuator.extensionType,
      finalizerSuffix |-> TraefikActuator.finalizerSuffix,
      extensionClass |-> TraefikActuator.extensionClass,
      ignoreOperationAnnotation |-> f.ignoreOperationAnnotation ]

\* Seeded fault: the wrong one of two flags of the same type.
RunOptionsMixedUp(f) ==
    [ actuator |-> TraefikActuator, name |-> TraefikActuator.name,
      extensionType |-> TraefikActuator.extensionType,
      finalizerSuffix |-> TraefikActuator.finalizerSuffix,
      extensionClass |-> TraefikActuator.extensionClass,
      ignoreOperationAnnotation |-> f.leaderElection, resync |-> f.resync ]

\* The options runManager gives to controller.New.
RunOptions(f) ==
    [ actuator |-> TraefikActuator, name |-> TraefikActuator.name,
      extensionType |-> TraefikActuator.extensionType,
      finalizerSuffix |-> TraefikActuator.finalizerSuffix,
      extensionClass |-> TraefikActuator.extensionClass,
      ignoreOperationAnnotation |-> f.ignoreOperationAnnotation,
      resync |-> f.resync ]

\* The controller each command line ends in, and the one there is.
Controllers == [f \in Flags |-> NewController(RunOptions(f))]

Controller == Controllers[flags]

\* The library's predicates: do they let an event through?  An object is listed
\* when the watch starts, and updated after that.
DefaultPredicates(c, e, event) ==
    IF c.ignoring
    THEN event \in {"listed", "spec"}
    ELSE \/ e.annotated
         \/ e.phase = "deleting"
         \/ event = "listed" /\ ~e.succeeded

\* SetupWithManager falls back on them when no predicate is given (a set of
\* events it lets through); several have to agree.
Passes(e, event) ==
    IF Controller.predicates = {} THEN DefaultPredicates(Controller, e, event)
    ELSE \A p \in Controller.predicates : event \in p

-----------------------------------------------------------------------------
(* The workqueue of a replica.                                              *)

\* Seeded fault: an item that is queued is queued once more.
EnqueueTwice(w, x) ==
    IF w.busy[x] # "no" THEN [w EXCEPT !.again = @ \union {x}]
                        ELSE [w EXCEPT !.queue = Append(@, x)]

\* An item is never queued twice, nor handed out while a worker has it.
Enqueue(w, x) ==
    IF w.busy[x] # "no" THEN [w EXCEPT !.again = @ \union {x}]
    ELSE IF x \in Range(w.queue) THEN w
    ELSE [w EXCEPT !.queue = Append(@, x)]

Busy(w) == {x \in Extensions : w.busy[x] # "no"}

\* The worker is done with x, and the queue has it again if it changed meanwhile.
Done(w, x) ==
    [ w EXCEPT !.busy[x] = "no", !.again = @ \ {x},
               !.queue = IF x \in w.again THEN Append(@, x) ELSE @ ]

Requeued(w, x) == [Done(w, x) EXCEPT !.waiting = @ \union {x}]

Resumed(w, x) == [Enqueue(w, x) EXCEPT !.waiting = @ \ {x}]

Watching(r) == proc[r] = "leading" /\ "extensions" \in parts[r]

\* x becomes e, and every controller that watches gets the event.
Publish(x, e, event, w) ==
    /\ ext' = [ext EXCEPT ![x] = e]
    /\ work' = [ r \in Replicas |-> IF Watching(r) /\ Passes(e, event)
                                    THEN Enqueue(w[r], x) ELSE w[r] ]

-----------------------------------------------------------------------------
(* Start-up: getManager, runManager, and the manager's Start.               *)

Init ==
    /\ flags \in Flags
    /\ proc = [r \in Replicas |-> "down"]
    /\ parts = [r \in Replicas |-> {}]
    /\ work = [r \in Replicas |-> NoWork]
    /\ ext = [x \in Extensions |-> NoExtension]
    /\ calm = FALSE

\* getManager: the manager, with the heartbeat already set up with it.
CreateManager(r) ==
    /\ proc[r] = "down"
    /\ proc' = [proc EXCEPT ![r] = "created"]
    /\ parts' = [parts EXCEPT ![r] = {"heartbeat"}]
    /\ UNCHANGED <<flags, work, ext, calm>>

\* The controller is set up as well, and the manager started.
SetUpController(r) ==
    /\ proc[r] = "created"
    /\ Controller.complete
    /\ proc' = [proc EXCEPT ![r] = "standby"]
    /\ parts' = [parts EXCEPT ![r] = @ \union {"extensions"}]
    /\ UNCHANGED <<flags, work, ext, calm>>

\* Seeded fault: the error is logged, and runManager goes on.
SetUpFailsUnnoticed(r) ==
    /\ proc[r] = "created"
    /\ ~calm
    /\ proc' = [proc EXCEPT ![r] = "standby"]
    /\ UNCHANGED <<flags, parts, work, ext, calm>>

\* An error of the actuator, the controller or its set-up ends the process.
SetUpFails(r) ==
    /\ proc[r] = "created"
    /\ ~calm
    /\ proc' = [proc EXCEPT ![r] = "down"]
    /\ parts' = [parts EXCEPT ![r] = {}]
    /\ UNCHANGED <<flags, work, ext, calm>>

\* The Extensions the watch lists when it starts.
Listed(r) == { x \in Extensions : /\ "extensions" \in parts[r]
                                  /\ ext[x].phase # "absent"
                                  /\ Passes(ext[x], "listed") }

\* The manager runs its controllers once it is elected, or at once when it takes
\* no part in an election.  The order of the list is arbitrary.
Lead(r) ==
    /\ proc[r] = "standby"
    /\ Manager(flags).leaderElection => \A s \in Replicas : proc[s] # "leading"
    /\ proc' = [proc EXCEPT ![r] = "leading"]
    /\ \E q \in Bijection(1..Cardinality(Listed(r)), Listed(r)) :
         work' = [work EXCEPT ![r].queue = q]
    /\ UNCHANGED <<flags, parts, ext, calm>>

\* The process dies, is restarted, or loses its lease, which ends it.
Crash(r) ==
    /\ proc[r] # "down"
    /\ ~calm
    /\ proc' = [proc EXCEPT ![r] = "down"]
    /\ parts' = [parts EXCEPT ![r] = {}]
    /\ work' = [work EXCEPT ![r] = NoWork]
    /\ ext' = [ x \in Extensions |->
                  IF ext[x].change = "seen" /\ work[r].busy[x] # "no"
                  THEN [ext[x] EXCEPT !.change = "unseen"] ELSE ext[x] ]
    /\ UNCHANGED <<flags, calm>>

-----------------------------------------------------------------------------
(* gardenlet.                                                               *)

\* Creates the Extension or changes its spec, and asks for a reconciliation, as
\* it does for an unchanged one in the maintenance window.
Change(x) ==
    /\ ~calm
    /\ ext[x].phase # "deleting"
    /\ Publish(x, [ ext[x] EXCEPT !.phase = IF @ = "absent" THEN "new" ELSE @,
                                  !.annotated = TRUE, !.change = "unseen" ],
               "spec", work)
    /\ UNCHANGED <<flags, proc, parts, calm>>

\* Asks once more when the change has not been applied after a while.
Annotate(x) ==
    /\ ext[x].phase \in {"new", "live"}
    /\ ext[x].change = "unseen" /\ ~ext[x].annotated
    /\ Publish(x, [ext[x] EXCEPT !.annotated = TRUE], "metadata", work)
    /\ UNCHANGED <<flags, proc, parts, calm>>

\* Without a finalizer the Extension is gone at once.
Delete(x) ==
    /\ ~calm
    /\ ext[x].phase \in {"new", "live"}
    /\ Publish(x, IF ext[x].phase = "new" THEN NoExtension
                  ELSE [ext[x] EXCEPT !.phase = "deleting"], "spec", work)
    /\ UNCHANGED <<flags, proc, parts, calm>>

-----------------------------------------------------------------------------
(* The library's reconciler.                                                *)

Popped(r) == [work EXCEPT ![r].queue = Tail(@)]

\* A worker takes the head of the queue and the annotation off the Extension.
Take(r, x) ==
    /\ proc[r] = "leading"
    /\ work[r].queue # <<>> /\ x = Head(work[r].queue)
    /\ Cardinality(Busy(work[r])) < Manager(flags).workers
    /\ IF ext[x].phase = "absent"
       THEN work' = Popped(r) /\ UNCHANGED ext
       ELSE LET w == [Popped(r) EXCEPT ![r].busy[x] = "taken"]
            IN  IF ext[x].annotated
                THEN Publish(x, [ext[x] EXCEPT !.annotated = FALSE],
                             "metadata", w)
                ELSE work' = w /\ UNCHANGED ext
    /\ UNCHANGED <<flags, proc, parts, calm>>

\* Seeded fault: an Extension that is being deleted is reconciled once more.
BeginReconcileAlways(r, x) ==
    /\ work[r].busy[x] = "taken"
    /\ ext[x].phase \in {"new", "live", "deleting"}
    /\ Publish(x, [ ext[x] EXCEPT !.phase = IF @ = "new" THEN "live" ELSE @,
                      !.succeeded = FALSE,
                      !.change = IF @ = "unseen" THEN "seen" ELSE @ ],
               "metadata", [work EXCEPT ![r].busy[x] = "reconcile"])
    /\ UNCHANGED <<flags, proc, parts, calm>>

\* The finalizer and the status "Processing"; then the actuator is called.
BeginReconcile(r, x) ==
    /\ work[r].busy[x] = "taken"
    /\ ext[x].phase \in {"new", "live"}
    /\ Publish(x, [ ext[x] EXCEPT !.phase = "live", !.succeeded = FALSE,
                      !.change = IF @ = "unseen" THEN "seen" ELSE @ ],
               "metadata", [work EXCEPT ![r].busy[x] = "reconcile"])
    /\ UNCHANGED <<flags, proc, parts, calm>>

BeginDelete(r, x) ==
    /\ work[r].busy[x] = "taken"
    /\ ext[x].phase = "deleting"
    /\ Publish(x, [ext[x] EXCEPT !.succeeded = FALSE], "metadata",
               [work EXCEPT ![r].busy[x] = "delete"])
    /\ UNCHANGED <<flags, proc, parts, calm>>

\* It vanished between the two reads.
NothingToDo(r, x) ==
    /\ work[r].busy[x] = "taken"
    /\ ext[x].phase = "absent"
    /\ work' = [work EXCEPT ![r] = Done(@, x)]
    /\ UNCHANGED <<flags, proc, parts, ext, calm>>

FinishReconcile(r, x) ==
    /\ work[r].busy[x] = "reconcile"
    /\ Publish(x, [ ext[x] EXCEPT !.succeeded = TRUE,
                      !.change = IF @ = "seen" THEN "none" ELSE @ ],
               "metadata",
               [work EXCEPT ![r] = IF Controller.resync THEN Requeued(@, x)
                                                        ELSE Done(@, x)])
    /\ UNCHANGED <<flags, proc, parts, calm>>

FinishDelete(r, x) ==
    /\ work[r].busy[x] = "delete"
    /\ x \notin Stuck
    /\ ext' = [ext EXCEPT ![x] = NoExtension]
    /\ work' = [work EXCEPT ![r] = Done(@, x)]
    /\ UNCHANGED <<flags, proc, parts, calm>>

\* Seeded fault: an error ends the pass for good.
AbandonForGood(r, x) ==
    /\ Publish(x, [ ext[x] EXCEPT !.change = IF @ = "seen" THEN "unseen" ELSE @ ],
               "metadata", [work EXCEPT ![r] = Done(@, x)])
    /\ UNCHANGED <<flags, proc, parts, calm>>

\* An error ends the pass; it is repeated after a delay.
Abandon(r, x) ==
    /\ Publish(x, [ ext[x] EXCEPT !.change = IF @ = "seen" THEN "unseen" ELSE @ ],
               "metadata", [work EXCEPT ![r] = Requeued(@, x)])
    /\ UNCHANGED <<flags, proc, parts, calm>>

Fail(r, x) ==
    /\ work[r].busy[x] # "no"
    /\ ~calm
    /\ Abandon(r, x)

\* Seeded fault: the deletion is waited for without a limit.
TimeOutNever(r, x) == FALSE /\ Abandon(r, x)

\* The deployer waits two minutes for a deletion and then returns an error.
TimeOut(r, x) ==
    /\ work[r].busy[x] = "delete"
    /\ x \in Stuck
    /\ Abandon(r, x)

Due(r, x) ==
    /\ x \in work[r].waiting
    /\ work' = [work EXCEPT ![r] = Resumed(@, x)]
    /\ UNCHANGED <<flags, proc, parts, ext, calm>>

Settle ==
    /\ ~calm
    /\ calm' = TRUE
    /\ UNCHANGED <<flags, proc, parts, work, ext>>

-----------------------------------------------------------------------------
Pass(r, x) ==
    \/ BeginReconcile(r, x) \/ BeginDelete(r, x) \/ NothingToDo(r, x)
    \/ FinishReconcile(r, x) \/ FinishDelete(r, x) \/ TimeOut(r, x)

Boot(r) == CreateManager(r) \/ SetUpController(r) \/ Lead(r)

Next ==
    \/ \E r \in Replicas : Boot(r) \/ SetUpFails(r) \/ Crash(r)
    \/ \E x \in Extensions : Change(x) \/ Annotate(x) \/ Delete(x)
    \/ \E r \in Replicas, x \in Extensions :
         Take(r, x) \/ Pass(r, x) \/ Fail(r, x) \/ Due(r, x)
    \/ Settle

Spec == Init /\ [][Next]_vars

(* Once no more faults happen, replicas start and hand out what is          *)
(* queued, and for every Extension its pass goes on, ends or times out, its *)
(* delay passes, or gardenlet asks again.                                   *)
Serve(r) == Boot(r) \/ \E x \in Extensions : Take(r, x)

Proceed(x) == Annotate(x) \/ \E r \in Replicas : Pass(r, x) \/ Due(r, x)

FairSpec ==
    /\ Spec
    /\ WF_vars(calm /\ \E r \in Replicas : Serve(r))
    /\ \A x \in Extensions : WF_vars(calm /\ Proceed(x))

-----------------------------------------------------------------------------
(* Properties.                                                              *)

WellFormed(w) == IsInjective(w.queue) /\ Range(w.queue) \intersect Busy(w) = {}

(* Types; and no item is queued twice or both queued and with a worker.     *)
TypeOK ==
    /\ flags \in Flags
    /\ proc \in [Replicas -> {"down", "created", "standby", "leading"}]
    /\ parts \in [Replicas -> SUBSET {"heartbeat", "extensions"}]
    /\ work \in [Replicas -> WorkState]
    /\ ext \in [Extensions -> ExtensionState]
    /\ calm \in BOOLEAN
    /\ \A r \in Replicas : WellFormed(work[r])

(* Two operations of the actuator never run for one Extension at a time,    *)
(* with any number of replicas and workers, through crashes and failovers:  *)
(* Actuator and the deployer hold no lock and rely on it.                   *)
OneWorkerPerExtension ==
    \A x \in Extensions, r, s \in Replicas :
        (work[r].busy[x] # "no" /\ work[s].busy[x] # "no") => r = s

Pending(w, x) == x \in Range(w.queue) \union w.again

Tracked(w, x) == Pending(w, x) \/ x \in w.waiting \/ w.busy[x] # "no"

Remembered(w, e, x) ==
    /\ (e.annotated /\ ~flags.ignoreOperationAnnotation) => Pending(w, x)
    /\ ~e.succeeded => Tracked(w, x)
    /\ e.phase = "deleting" => \/ Pending(w, x) \/ x \in w.waiting
                                \/ w.busy[x] \in {"taken", "delete"}
    /\ e.change = "unseen" /\ w.busy[x] = "reconcile" => Pending(w, x)

(* The replica that leads forgets nobody who shows that a pass is due: an   *)
(* Extension that carries gardenlet's annotation, whose last operation did  *)
(* not succeed, or that is to be deleted is queued, waits for its retry or  *)
(* is being worked on, and a change made during a pass gets a pass of its   *)
(* own.  A request whose annotation is already off shows nothing any more   *)
(* when a crash loses it: that is OnlyCrashesForget's.                      *)
NothingForgotten ==
    \A r \in Replicas, x \in Extensions :
        (proc[r] = "leading" /\ ext[x].phase # "absent")
            => Remembered(work[r], ext[x], x)

\* x has a change to apply, but no replica has it and the next leader's list
\* would not bring it back.
Unattended(x) ==
    /\ ext[x].phase \in {"new", "live"} /\ ext[x].change # "none"
    /\ ~Passes(ext[x], "listed")
    /\ \A r \in Replicas : ~Tracked(work[r], x)

(* A request is lost in one way only: the leading replica goes down between *)
(* taking the annotation off and showing the pass in the status, retries    *)
(* included.  Errors, time-outs, standbys that die and changes that come in *)
(* during a pass, under any flags, lose none.                               *)
OnlyCrashesForget ==
    [][\A x \in Extensions :
          Unattended(x)' /\ ~Unattended(x) =>
              \E r \in Replicas : proc[r] = "leading" /\ proc'[r] = "down"
                                  /\ Tracked(work[r], x)]_vars

(* The heartbeat lease tells Gardener that the extension is alive: no       *)
(* replica renews it without also serving Extensions, although getManager   *)
(* sets the heartbeat up before the controller.                             *)
HeartbeatMeansService ==
    \A r \in Replicas :
        (proc[r] = "leading" /\ "heartbeat" \in parts[r])
            => "extensions" \in parts[r]

LifeOf(e) == IF e.phase = "deleting" THEN "leaving" ELSE e.phase

\* The replicas in which the actuator is working on x.
Operating(w, x) == {r \in Replicas : w[r].busy[x] \in {"reconcile", "delete"}}

\* Dispatch has no "several": there must never be two.
RunningFor(w, x) ==
    IF Operating(w, x) = {} THEN "none"
    ELSE IF \E r, s \in Operating(w, x) : r # s THEN "several"
    ELSE IF \E r \in Replicas : w[r].busy[x] = "delete" THEN "cleanup"
                                                         ELSE "reconcile"

Dispatched == INSTANCE Dispatch WITH
    life    <- [x \in Extensions |-> LifeOf(ext[x])],
    running <- [x \in Extensions |-> RunningFor(work, x)]

(* However many replicas and workers there are and whichever die, what they *)
(* run for an Extension is what Dispatch allows: no Reconcile begins once   *)
(* the deletion is requested, and no Extension goes away, or comes back,    *)
(* under a running operation.  That is all that Actuator builds on.         *)
KeepsToDispatch == Dispatched!Spec

Waits(x) ==
    \/ ext[x].phase \in {"new", "live"} /\ ext[x].change # "none"
    \/ ext[x].phase = "deleting" /\ x \notin Stuck

(* Deletions that run into the deployer's time limit, even as many as there *)
(* are workers, do not keep the changes and deletions of others waiting for *)
(* ever, and neither does a crash at any point of a pass.                   *)
EveryoneServed ==
    \A x \in Extensions : (calm /\ Waits(x)) ~> ~Waits(x)

Reconciling(x) == \E r \in Replicas : work[r].busy[x] = "reconcile"

(* With a resync interval, an Extension that has been reconciled is         *)
(* reconciled again and again, next to others whose deletion never ends.    *)
(* That repairs a DNS record whose address changed: actuator.go relies on   *)
(* it where it returns early.                                               *)
ResyncGoesOn ==
    \A x \in Extensions \ Stuck :
        <>(calm /\ flags.resync /\ ext[x].phase = "live" /\ Reconciling(x))
            => []<>Reconciling(x)
=================================================================================
