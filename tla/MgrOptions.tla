------------------------------ MODULE MgrOptions ------------------------------
(***************************************************************************)
(* How mgr.New puts a controller-runtime manager together from functional  *)
(* options (pkg/mgr/mgr.go), and the options the two commands give it.     *)
(* An option is a pair of its name and, if it adds something, of what it   *)
(* adds.  Of a setting the model keeps who determined its value.           *)
(***************************************************************************)
EXTENDS Integers, FiniteSets, Sequences

CONSTANTS
    Catalogue,    \* the options New may be given
    MaxOptions    \* bound: how many of them at once

ASSUME MaxOptionsAssumption == MaxOptions \in Nat

VARIABLES
    given,        \* the options applied so far
    settings,     \* the fields of mgr: "default", "given", or "zero"
    collected,    \* addToSchemes, installSchemes, checks, handlers, runnables
    registered,   \* what was registered, and on which scheme
    manager,      \* the settings the manager was created with
    attached,     \* what was added to the manager
    stage         \* how far New is

vars == <<given, settings, collected, registered, manager, attached, stage>>

-----------------------------------------------------------------------------
(* The options.                                                            *)

\* Options that only assign a field.
ConnectionField == [WithConfig |-> "restConfig", WithScheme |-> "scheme"]

LeaderElectionField ==
    [WithLeaderElection |-> "leaderElectionEnabled",
     WithLeaderElectionID |-> "leaderElectionID",
     WithLeaderElectionNamespace |-> "leaderElectionNamespace",
     WithLeaderElectionConfig |-> "leaderElectionConfig",
     WithContext |-> "baseCtxFunc"]

ProbeField ==
    [WithHealthProbeAddress |-> "healthProbeAddr",
     WithLogger |-> "logger",
     WithPprofAddress |-> "pprofAddr"]

ClientField ==
    [WithClientOptions |-> "clientOpts",
     WithCacheOptions |-> "cacheOpts",
     WithConnectionConfiguration |-> "clientConnConfig"]

PlainOptions == DOMAIN ConnectionField \cup DOMAIN LeaderElectionField
                    \cup DOMAIN ProbeField \cup DOMAIN ClientField

Field == [o \in PlainOptions |->
             CASE o \in DOMAIN ConnectionField -> ConnectionField[o]
               [] o \in DOMAIN LeaderElectionField -> LeaderElectionField[o]
               [] o \in DOMAIN ProbeField -> ProbeField[o]
               [] o \in DOMAIN ClientField -> ClientField[o]]

\* Options that may clash with one another, and the field each is about.
SharedField ==
    [WithMetricsOptions |-> "metricsOther",
     WithMetricsAddress |-> "metricsBindAddress",
     WithControllerOptions |-> "recoverPanic",
     WithMaxConcurrentReconciles |-> "maxConcurrentReconciles",
     WithWebhookServer |-> "webhookOther",
     WithWebhookPort |-> "webhookPort",
     WithWebhookCertDir |-> "webhookCertDir"]

\* The fields of the structs they write to.
MetricsFields == {"metricsBindAddress", "metricsOther"}
ControllerFields == {"maxConcurrentReconciles", "recoverPanic"}
WebhookFields == {"webhookPort", "webhookCertDir", "webhookOther"}

Fields == {Field[o] : o \in PlainOptions}
              \cup MetricsFields \cup ControllerFields \cup WebhookFields

\* Options that add something, to the scheme or to the manager, in the order in
\* which New goes through them.
RegisterOrder == [WithAddToScheme |-> 1, WithInstallScheme |-> 2]
AttachOrder ==
    [WithHealthzCheck |-> 1, WithReadyzCheck |-> 2,
     WithExtraMetricsHandler |-> 3, WithRunnable |-> 4]

Init ==
    /\ given = {} /\ collected = {} /\ registered = {} /\ attached = {}
    /\ settings = [f \in Fields |-> "default"]
    /\ manager = <<>>
    /\ stage = "options"

Option(o) ==
    /\ stage = "options"
    /\ o \in Catalogue \ given
    /\ Cardinality(given) < MaxOptions
    /\ given' = given \cup {o}
    /\ UNCHANGED <<manager, attached, stage>>

Assign(f) == settings' = [settings EXCEPT ![f] = "given"]

\* The caller's struct takes the place of the whole struct f belongs to.
Replace(struct, f) ==
    settings' = [g \in Fields |-> CASE g = f -> "given"
                                    [] g \in struct \ {f} -> "zero"
                                    [] OTHER -> settings[g]]

SetField(o) ==
    /\ Option(o)
    /\ o[1] \in PlainOptions
    /\ Assign(Field[o[1]])
    /\ UNCHANGED <<collected, registered>>

\* WithMetricsOptions replaces the options WithMetricsAddress writes to.
SetMetrics(o) ==
    /\ Option(o)
    /\ \/ o[1] = "WithMetricsOptions" /\ Replace(MetricsFields, "metricsOther")
       \/ o[1] = "WithMetricsAddress" /\ Assign("metricsBindAddress")
    /\ UNCHANGED <<collected, registered>>

\* Seeded fault: a struct literal instead of an assignment to its field.
SetControllerAlone(o) ==
    /\ Option(o)
    /\ o[1] \in {"WithControllerOptions", "WithMaxConcurrentReconciles"}
    /\ Replace(ControllerFields, SharedField[o[1]])
    /\ UNCHANGED <<collected, registered>>

\* WithControllerOptions replaces what WithMaxConcurrentReconciles writes to.
SetController(o) ==
    /\ Option(o)
    /\ \/ /\ o[1] = "WithControllerOptions"
          /\ Replace(ControllerFields, "recoverPanic")
       \/ /\ o[1] = "WithMaxConcurrentReconciles"
          /\ Assign("maxConcurrentReconciles")
    /\ UNCHANGED <<collected, registered>>

NoWebhookServer == \A f \in WebhookFields : settings[f] = "default"

\* WithWebhookServer brings a server of its own; the others only create one
\* when there is none, and leave one that is there as it is.
SetWebhook(o) ==
    /\ Option(o)
    /\ \/ o[1] = "WithWebhookServer" /\ Replace(WebhookFields, "webhookOther")
       \/ /\ o[1] \in {"WithWebhookPort", "WithWebhookCertDir"}
          /\ \/ NoWebhookServer /\ Assign(SharedField[o[1]])
             \/ ~NoWebhookServer /\ UNCHANGED settings
    /\ UNCHANGED <<collected, registered>>

\* Seeded fault: types go to the scheme at hand, not to the final one.
CollectTypesAtOnce(o) ==
    /\ Option(o)
    /\ o[1] \in DOMAIN RegisterOrder
    /\ registered' = registered \cup {<<settings["scheme"], o>>}
    /\ UNCHANGED <<settings, collected>>

CollectTypes(o) ==
    /\ Option(o)
    /\ o[1] \in DOMAIN RegisterOrder
    /\ collected' = collected \cup {o}
    /\ UNCHANGED <<settings, registered>>

CollectParts(o) ==
    /\ Option(o)
    /\ o[1] \in DOMAIN AttachOrder
    /\ collected' = collected \cup {o}
    /\ UNCHANGED <<settings, registered>>

-----------------------------------------------------------------------------
(* The rest of New.                                                        *)

EndOptions ==
    /\ stage = "options"
    /\ stage' = "schemes"
    /\ UNCHANGED <<given, settings, collected, registered, manager, attached>>

ToRegister ==
    {o \in collected : /\ o[1] \in DOMAIN RegisterOrder
                       /\ <<settings["scheme"], o>> \notin registered}

\* Types go to the scheme that is in force after the last option.
Register(o) ==
    /\ stage = "schemes"
    /\ o \in ToRegister
    /\ \A p \in ToRegister : RegisterOrder[o[1]] <= RegisterOrder[p[1]]
    /\ registered' = registered \cup {<<settings["scheme"], o>>}
    /\ UNCHANGED <<given, settings, collected, manager, attached, stage>>

CreateManager ==
    /\ stage = "schemes"
    /\ ToRegister = {}
    /\ manager' = settings
    /\ stage' = "created"
    /\ UNCHANGED <<given, settings, collected, registered, attached>>

ToAttach == {o \in collected \ attached : o[1] \in DOMAIN AttachOrder}

Attach(o) ==
    /\ stage = "created"
    /\ o \in ToAttach
    /\ \A p \in ToAttach : AttachOrder[o[1]] <= AttachOrder[p[1]]
    /\ attached' = attached \cup {o}
    /\ UNCHANGED <<given, settings, collected, registered, manager, stage>>

\* An option returns an error; an AddToScheme fails; there is no rest.Config and
\* none in the environment, or the manager cannot be created; a part cannot be
\* attached.
MayFail ==
    \/ stage = "options"
    \/ /\ stage = "schemes"
       /\ ToRegister = {} \/ \E o \in ToRegister : o[1] = "WithAddToScheme"
    \/ stage = "created" /\ ToAttach # {}

\* Seeded fault: an error ends the loop it happens in, not New.
StopLoop ==
    /\ MayFail
    /\ stage' = IF stage = "created" THEN "returned" ELSE "failed"
    /\ UNCHANGED <<given, settings, collected, registered, manager, attached>>

\* The caller gets an error and no manager.
Fail ==
    /\ MayFail
    /\ stage' = "failed"
    /\ UNCHANGED <<given, settings, collected, registered, manager, attached>>

Return ==
    /\ stage = "created"
    /\ ToAttach = {}
    /\ stage' = "returned"
    /\ UNCHANGED <<given, settings, collected, registered, manager, attached>>

Next ==
    \/ \E o \in Catalogue : \/ SetField(o) \/ SetMetrics(o) \/ SetController(o)
                            \/ SetWebhook(o) \/ CollectTypes(o) \/ CollectParts(o)
                            \/ Register(o) \/ Attach(o)
    \/ EndOptions \/ CreateManager \/ Fail \/ Return

Spec == Init /\ [][Next]_vars

-----------------------------------------------------------------------------
(* The options of the two commands.                                        *)

Plain(names) == {<<n, "">> : n \in names}

CommonOptions ==
    Plain({"WithContext", "WithMetricsAddress", "WithHealthProbeAddress",
           "WithLeaderElection", "WithLeaderElectionID",
           "WithLeaderElectionNamespace", "WithPprofAddress",
           "WithConnectionConfiguration"})
    \cup {<<"WithAddToScheme", "clientgo">>, <<"WithInstallScheme", "config">>,
          <<"WithHealthzCheck", "healthz">>, <<"WithReadyzCheck", "readyz">>}

\* Seeded fault: the command also sets RecoverPanic, with the struct it is in.
ManagerOptionsRecover ==
    CommonOptions
    \cup Plain({"WithMaxConcurrentReconciles", "WithControllerOptions"})

ManagerOptions ==
    CommonOptions
    \cup Plain({"WithMaxConcurrentReconciles"})
    \cup {<<"WithAddToScheme", t>> : t \in {"extensions", "resources", "gardencore"}}

WebhookOptions ==
    CommonOptions
    \cup Plain({"WithConfig", "WithLeaderElectionConfig", "WithWebhookServer"})
    \cup {<<"WithInstallScheme", "gardencore">>,
          <<"WithReadyzCheck", "webhook-server">>,
          <<"WithReadyzCheck", "source-informer-sync">>,
          <<"WithRunnable", "source-cluster">>}

-----------------------------------------------------------------------------
(* Correctness.                                                            *)

TypeOK ==
    /\ given \subseteq Catalogue /\ Cardinality(given) <= MaxOptions
    /\ settings \in [Fields -> {"default", "given", "zero"}]
    /\ collected \subseteq given
    /\ registered \subseteq {"default", "given"} \X collected
    /\ manager \in {<<>>, settings}
    /\ attached \subseteq collected
    /\ stage \in {"options", "schemes", "created", "returned", "failed"}

Named == [o \in PlainOptions \cup DOMAIN SharedField |->
             IF o \in PlainOptions THEN Field[o] ELSE SharedField[o]]

InForce(o) == o[1] \in DOMAIN Named => manager[Named[o[1]]] = "given"

Returned == stage = "returned"

\* The pairs of options of which one may undo the other, or be ignored for it.
Clashes ==
    {{"WithMetricsOptions", "WithMetricsAddress"},
     {"WithControllerOptions", "WithMaxConcurrentReconciles"},
     {"WithWebhookServer", "WithWebhookPort"},
     {"WithWebhookServer", "WithWebhookCertDir"},
     {"WithWebhookPort", "WithWebhookCertDir"}}

\* An option that clashes with no other is in force whatever the order they were
\* given in, and a default of New's is only lost with its struct (mgr.go:57-78).
SettingsInForce ==
    Returned =>
        /\ \A o \in given :
               InForce(o) \/ \E p \in given : {o[1], p[1]} \in Clashes
        /\ (\E f \in ControllerFields : manager[f] = "zero")
               => \E o \in given : o[1] = "WithControllerOptions"

\* The commands' own options never get in each other's way
\* (manager.go:72-93, webhook.go:126-149).
CommandsInForce ==
    Returned /\ (given \subseteq ManagerOptions \/ given \subseteq WebhookOptions)
        => \A o \in given : InForce(o)

\* The manager's scheme knows every type, even if WithScheme replaced the scheme
\* after the types were asked for (mgr.go:80-89).
TypesOnScheme ==
    Returned => \A o \in given : o[1] \in DOMAIN RegisterOrder
                                    => <<manager["scheme"], o>> \in registered

\* New never returns a manager that lacks a check, a handler or a runnable
\* (mgr.go:127-151).
PartsAttached ==
    Returned => \A o \in given : o[1] \in DOMAIN AttachOrder => o \in attached
===============================================================================
