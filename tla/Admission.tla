------------------------------- MODULE Admission -------------------------------
(***************************************************************************)
(* The admission of Shoots (pkg/admission/validator) and the webhook       *)
(* command that serves it (cmd/extension-traefik/webhook): what the API    *)
(* server lets through while the webhook is installed, restarted and       *)
(* upgraded under a Shoot that is created, changed and deleted.  A Shoot's *)
(* deletion takes updates too, and the webhook sees every one of them.     *)
(***************************************************************************)
EXTENDS Integers, FiniteSets

CONSTANTS
    Replicas,   \* processes running the webhook command
    Specs       \* what the Shoot's specification may be

ExtensionType == "shoot-traefik"

Purposes == {"nil", "evaluation", "production"}

(* The API server's own validation admits an extension type once per Shoot. *)
ASSUME SpecsAssumption ==
    \A s \in Specs :
        /\ s.purpose \in Purposes
        /\ \A i \in DOMAIN s.extensions : s.extensions[i].disabled \in BOOLEAN
        /\ \A i, j \in DOMAIN s.extensions :
             s.extensions[i].type = s.extensions[j].type => i = j

VARIABLES
    stage,        \* how far a replica's runWebhookServer has come
    up,           \* the parts of a replica's manager that are up
    registered,   \* the API server knows the webhook
    phase,        \* the Shoot: "absent", "live", "confirmed" or "deleting"
    spec,         \* its specification
    vetted,       \* its last write went through the webhook
    wanted,       \* its owner wants it deleted
    calm          \* no more requests of the owner and crashes

shootVars == <<phase, spec, vetted, wanted>>

vars == <<stage, up, registered, shootVars, calm>>

-----------------------------------------------------------------------------
(* The validator.                                                           *)

Traefiks(s) == {i \in DOMAIN s.extensions : s.extensions[i].type = ExtensionType}

\* Seeded fault: a purpose that is not set is not looked at.
ValidateSetPurposes(s) ==
    \/ Traefiks(s) = {}
    \/ s.purpose \in {"nil", "evaluation"}
    \/ \E i \in Traefiks(s) : /\ s.extensions[i].disabled
                              /\ \A j \in Traefiks(s) : i <= j

\* Seeded fault: an entry that is disabled is treated like any other.
ValidateDisabled(s) == Traefiks(s) = {} \/ s.purpose = "evaluation"

\* The first entry of the type decides.
Validate(s) ==
    \/ Traefiks(s) = {}
    \/ s.purpose = "evaluation"
    \/ \E i \in Traefiks(s) : /\ s.extensions[i].disabled
                              /\ \A j \in Traefiks(s) : i <= j

-----------------------------------------------------------------------------
(* The webhook command.                                                     *)

\* What the manager starts: the server (once it has its certificates), and the
\* caches of the source cluster, a runnable of its own, and of the target.
Parts == {"webhook-server", "source-informer-sync", "informer-sync"}

ReadyzChecks == {"webhook-server", "source-informer-sync", "informer-sync"}

\* A request of the API server goes to a replica that is ready.
Ready(r) == stage[r] = "started" /\ ReadyzChecks \subseteq up[r]

\* Without an answer the API server refuses a request.
Admits(s) == registered => (\E r \in Replicas : Ready(r)) /\ Validate(s)

Init ==
    /\ stage = [r \in Replicas |-> "down"]
    /\ up = [r \in Replicas |-> {}]
    /\ registered = FALSE
    /\ phase = "absent" /\ spec \in Specs /\ vetted = FALSE
    /\ wanted = FALSE
    /\ calm = FALSE

\* getManager: the manager with its webhook server, checks and runnables.
CreateManager(r) ==
    /\ stage[r] = "down"
    /\ stage' = [stage EXCEPT ![r] = "created"]
    /\ UNCHANGED <<up, registered, shootVars, calm>>

\* The validator is added to the manager, and the manager started.
RunWebhookServer(r) ==
    /\ stage[r] = "created"
    /\ stage' = [stage EXCEPT ![r] = "started"]
    /\ UNCHANGED <<up, registered, shootVars, calm>>

\* Seeded fault: parts do not wait for the manager to be started.
ComeUpEarly(r, part) ==
    /\ part \notin up[r]
    /\ up' = [up EXCEPT ![r] = @ \union {part}]
    /\ UNCHANGED <<stage, registered, shootVars, calm>>

ComeUp(r, part) ==
    /\ stage[r] = "started"
    /\ part \notin up[r]
    /\ up' = [up EXCEPT ![r] = @ \union {part}]
    /\ UNCHANGED <<stage, registered, shootVars, calm>>

\* The library's reconciler installs the webhook once a replica has started; it
\* stays when the process goes.
Register(r) ==
    /\ stage[r] = "started"
    /\ ~registered
    /\ registered' = TRUE
    /\ UNCHANGED <<stage, up, shootVars, calm>>

\* An error while it starts, a crash or a rolling update ends the process.
Crash(r) ==
    /\ stage[r] # "down"
    /\ ~calm
    /\ stage' = [stage EXCEPT ![r] = "down"]
    /\ up' = [up EXCEPT ![r] = {}]
    /\ UNCHANGED <<registered, shootVars, calm>>

-----------------------------------------------------------------------------
(* The Shoot: its owner, and Gardener.                                      *)

Enabled(s) == \E i \in Traefiks(s) : ~s.extensions[i].disabled

Offends(s) == Enabled(s) /\ s.purpose # "evaluation"

Disabled(s) == [ s EXCEPT !.extensions =
                   [ i \in DOMAIN @ |-> IF i \in Traefiks(s)
                                        THEN [@[i] EXCEPT !.disabled = TRUE]
                                        ELSE @[i] ] ]

ASSUME DisabledAssumption == \A s \in Specs : Disabled(s) \in Specs

\* A create or update request that leaves the Shoot as s.
Write(s) ==
    /\ Admits(s)
    /\ spec' = s
    /\ vetted' = registered
    /\ UNCHANGED <<stage, up, registered, calm>>

Create(s) == /\ phase = "absent" /\ ~calm
             /\ Write(s)
             /\ phase' = "live" /\ UNCHANGED wanted

\* Of a Shoot that is being deleted the specification cannot be changed.
Update(s) == /\ phase \in {"live", "confirmed"} /\ ~calm
             /\ Write(s)
             /\ UNCHANGED <<phase, wanted>>

Want == /\ phase = "live" /\ ~calm
        /\ wanted' = TRUE
        /\ UNCHANGED <<stage, up, registered, phase, spec, vetted, calm>>

\* An owner who cannot delete a Shoot disables the extension.
Repair == /\ wanted /\ phase \in {"live", "confirmed"}
          /\ Offends(spec)
          /\ Write(Disabled(spec))
          /\ UNCHANGED <<phase, wanted>>

\* The annotation that confirms a deletion is an update like any other.
Confirm == /\ wanted /\ phase = "live"
           /\ Write(spec)
           /\ phase' = "confirmed" /\ UNCHANGED wanted

\* The webhook is not asked about DELETE requests.
Delete == /\ wanted /\ phase = "confirmed"
          /\ phase' = "deleting"
          /\ UNCHANGED <<stage, up, registered, spec, vetted, wanted, calm>>

\* Gardener is done with the deletion and takes its finalizer off the Shoot.
RemoveFinalizer == /\ phase = "deleting"
                   /\ Write(spec)
                   /\ phase' = "absent" /\ wanted' = FALSE

Settle ==
    /\ ~calm
    /\ calm' = TRUE
    /\ UNCHANGED <<stage, up, registered, shootVars>>

-----------------------------------------------------------------------------
Boot(r) == \/ CreateManager(r) \/ RunWebhookServer(r) \/ Register(r)
           \/ \E part \in Parts : ComeUp(r, part)

Next ==
    \/ \E r \in Replicas : Boot(r) \/ Crash(r)
    \/ \E s \in Specs : Create(s) \/ Update(s)
    \/ Want \/ Repair \/ Confirm \/ Delete \/ RemoveFinalizer
    \/ Settle

Spec == Init /\ [][Next]_vars

(* Containers are restarted, an owner goes on with a deletion, Gardener     *)
(* finishes it, and faults end.                                             *)
FairSpec ==
    /\ Spec
    /\ \A r \in Replicas : WF_vars(Boot(r))
    /\ WF_vars(Repair) /\ WF_vars(Confirm) /\ WF_vars(Delete)
    /\ WF_vars(RemoveFinalizer)
    /\ WF_vars(Settle)

-----------------------------------------------------------------------------
(* Properties.                                                              *)

(* Types; and nothing of a manager is up before it is started.              *)
TypeOK ==
    /\ stage \in [Replicas -> {"down", "created", "started"}]
    /\ up \in [Replicas -> SUBSET Parts]
    /\ registered \in BOOLEAN
    /\ phase \in {"absent", "live", "confirmed", "deleting"}
    /\ spec \in Specs
    /\ vetted \in BOOLEAN /\ wanted \in BOOLEAN
    /\ calm \in BOOLEAN
    /\ \A r \in Replicas : up[r] # {} => stage[r] = "started"

(* The rule of the validator's comment, "if the Traefik extension is        *)
(* enabled, the shoot must have purpose evaluation": whatever order         *)
(* requests, restarts and the installation come in, only a Shoot that was   *)
(* last written before the webhook was known breaks it.                     *)
OnlyLegacyOffends == (phase # "absent" /\ vetted) => ~Offends(spec)

(* A deletion takes updates, each of them validated like any other, and     *)
(* still ends: a Shoot that meets the rule is never kept, and one that      *)
(* predates the webhook and breaks it can be disabled and deleted - unless  *)
(* its deletion was confirmed, or under way, before the webhook came: then  *)
(* nobody asks the webhook about the DELETE, and it refuses the removal of  *)
(* the finalizer.                                                           *)
DeletionCompletes ==
    (\/ phase = "live" /\ wanted /\ registered
     \/ phase = "confirmed" /\ registered /\ ~Offends(spec)
     \/ phase = "deleting" /\ ~Offends(spec)) ~> phase = "absent"
================================================================================
