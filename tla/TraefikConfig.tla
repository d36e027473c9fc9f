----------------------------- MODULE TraefikConfig -----------------------------
(***************************************************************************)
(* What Traefik is deployed with: the merge of the provider config into    *)
(* the defaults (pkg/actuator) and the Kubernetes objects generated from   *)
(* it (pkg/traefik), together with the rollout of a changed config.        *)
(* resource-manager applies the objects of a ManagedResource one by one    *)
(* and only then removes those that are no longer part of it.              *)
(***************************************************************************)
EXTENDS Integers, FiniteSets

CONSTANTS
    Strings,         \* the strings a provider config may hold
    ProviderConfigs  \* the provider configs that are tried

KubernetesIngress == "KubernetesIngress"
KubernetesIngressNGINX == "KubernetesIngressNGINX"
KnownProviders == {KubernetesIngress, KubernetesIngressNGINX}

ValidLogLevels == {"Debug", "Info", "Warn", "Error", "Fatal", "Panic"}

ProviderConfig == [decodes   : BOOLEAN,
                   replicas  : Int,
                   provider  : Strings,
                   logLevel  : Strings,
                   dashboard : BOOLEAN]

\* The empty string is an omitted field.
ASSUME ConfigAssumption ==
    /\ ProviderConfigs \subseteq ProviderConfig
    /\ "" \notin ValidLogLevels

NoProviderConfig == [given |-> FALSE]

-----------------------------------------------------------------------------
(* The merge in Actuator.Reconcile.                                        *)

DefaultConfig == [replicas |-> 2, provider |-> KubernetesIngress,
                  logLevel |-> "Info", dashboard |-> FALSE]

Usable(pc) == pc # NoProviderConfig /\ pc.decodes

\* Only the log level is checked.
Rejected(pc) == Usable(pc) /\ pc.logLevel \notin ValidLogLevels \cup {""}

\* Seeded fault: takes any number of replicas.
MergedUnchecked(pc) ==
    IF ~Usable(pc) THEN DefaultConfig
    ELSE [replicas  |-> pc.replicas,
          provider  |-> IF pc.provider = "" THEN DefaultConfig.provider
                                            ELSE pc.provider,
          logLevel  |-> IF pc.logLevel = "" THEN DefaultConfig.logLevel
                                            ELSE pc.logLevel,
          dashboard |-> pc.dashboard]

\* A config that does not decode is logged and counts as none.
Merged(pc) ==
    IF ~Usable(pc) THEN DefaultConfig
    ELSE [replicas  |-> IF pc.replicas > 0 THEN pc.replicas
                                           ELSE DefaultConfig.replicas,
          provider  |-> IF pc.provider = "" THEN DefaultConfig.provider
                                            ELSE pc.provider,
          logLevel  |-> IF pc.logLevel = "" THEN DefaultConfig.logLevel
                                            ELSE pc.logLevel,
          dashboard |-> pc.dashboard]

-----------------------------------------------------------------------------
(* The generated objects; what no property tells apart is left out.        *)

SelectorLabels == {"name=traefik", "instance=traefik"}
PodLabels == SelectorLabels \cup {"component=ingress-controller",
                                  "managed-by=gardener", "to-apiserver=allowed",
                                  "to-dns=allowed"}

IngressClassName(c) ==
    IF c.provider = KubernetesIngressNGINX THEN "nginx" ELSE "traefik"

\* Seeded fault: the controller of the class does not follow the provider.
FixedClass(c) == [name |-> "traefik", controller |->
    IF c.provider = KubernetesIngressNGINX THEN "k8s.io/ingress-nginx"
    ELSE "traefik.io/ingress-controller"]

IngressClass(c) ==
    [name       |-> IngressClassName(c),
     controller |-> IF c.provider = KubernetesIngressNGINX
                    THEN "k8s.io/ingress-nginx"
                    ELSE "traefik.io/ingress-controller"]

\* Traefik's ingress providers the arguments switch on, with the class each
\* serves.
EnabledProviders(c) ==
    (IF c.provider \in {KubernetesIngress, ""}
     THEN {[provider |-> "kubernetesingress", class |-> IngressClassName(c)]}
     ELSE {})
    \cup
    (IF c.provider = KubernetesIngressNGINX
     THEN {[provider |-> "kubernetesingressnginx", class |-> IngressClassName(c)]}
     ELSE {})

EntryPoints(c) ==
    {<<"web", 8000>>, <<"websecure", 8443>>, <<"metrics", 9100>>}
    \cup (IF c.dashboard THEN {<<"traefik", 9000>>} ELSE {})

ContainerPorts(c) ==
    {<<"web", 8000>>, <<"websecure", 8443>>, <<"metrics", 9100>>}
    \cup (IF c.dashboard THEN {<<"traefik", 9000>>} ELSE {})

Deployment(c) ==
    [replicas         |-> c.replicas,
     selector         |-> SelectorLabels,
     labels           |-> PodLabels,
     serviceAccount   |-> "traefik",
     enabled          |-> EnabledProviders(c),
     publishedService |-> "kube-system/traefik",
     insecureAPI      |-> c.dashboard,
     logLevel         |-> c.logLevel,
     entryPoints      |-> EntryPoints(c),
     ports            |-> ContainerPorts(c),
     pingEntryPoint   |-> "web",
     probePort        |-> 8000,
     scrapePort       |-> 9100]

\* Seeded fault: the rules do not follow the provider.
ClusterRoleFixed(c) ==
    {<<r, "watch">> : r \in {"services", "endpoints", "secrets", "nodes",
                             "endpointslices", "ingresses", "ingressclasses",
                             "traefik.io"}}
    \cup {<<"ingresses/status", "update">>}

ClusterRole(c) ==
    {<<r, "watch">> : r \in {"services", "endpoints", "secrets", "nodes",
                             "endpointslices", "ingresses", "ingressclasses",
                             "traefik.io"}}
    \cup {<<"ingresses/status", "update">>}
    \cup (IF c.provider = KubernetesIngressNGINX
          THEN {<<"namespaces", "watch">>, <<"pods", "get">>} ELSE {})

ClusterRoleBinding == [role |-> "traefik-ingress-controller",
                       subject |-> "traefik"]

Service == [name |-> "kube-system/traefik", selector |-> SelectorLabels,
            targets |-> {"web", "websecure"}]

NetworkPolicy == [selector |-> SelectorLabels, ingress |-> "any",
                  egress |-> "any pod"]

PodDisruptionBudget == [selector |-> SelectorLabels, minAvailable |-> 1]

\* generateResources: what depends on the config.
Manifest(c) == [class |-> IngressClass(c), deployment |-> Deployment(c),
                role |-> ClusterRole(c)]

-----------------------------------------------------------------------------
VARIABLES
    providerConfig, \* spec.providerConfig of the Extension
    manifest,       \* content of the shoot ManagedResource, or Nothing
    classes,        \* the extension's IngressClasses in the shoot
    deployment,     \* the Deployment in the shoot, or Nothing
    role            \* the rules of the ClusterRole in the shoot

vars == <<providerConfig, manifest, classes, deployment, role>>

Nothing == [none |-> TRUE]

Init ==
    /\ providerConfig = NoProviderConfig
    /\ manifest = Nothing
    /\ classes = {}
    /\ deployment = Nothing
    /\ role = {}

\* The owner of the shoot edits the provider config.
EditConfig ==
    /\ providerConfig' \in ProviderConfigs
    /\ UNCHANGED <<manifest, classes, deployment, role>>

\* Seeded fault: creates the objects but never updates them.
ReconcileOnce ==
    /\ ~Rejected(providerConfig)
    /\ manifest = Nothing
    /\ manifest' = Manifest(Merged(providerConfig))
    /\ UNCHANGED <<providerConfig, classes, deployment, role>>

\* A rejected config is an error before anything is written.
Reconcile ==
    /\ ~Rejected(providerConfig)
    /\ manifest' = Manifest(Merged(providerConfig))
    /\ UNCHANGED <<providerConfig, classes, deployment, role>>

\* resource-manager, object by object.  An IngressClass of the same name is
\* updated; its controller is immutable, which delete-on-invalid-update turns
\* into a deletion and a new object.
ApplyClass ==
    /\ manifest # Nothing
    /\ manifest.class \notin classes
    /\ classes' = {k \in classes : k.name # manifest.class.name}
                     \cup {manifest.class}
    /\ UNCHANGED <<providerConfig, manifest, deployment, role>>

ApplyDeployment ==
    /\ manifest # Nothing
    /\ deployment' = manifest.deployment
    /\ UNCHANGED <<providerConfig, manifest, classes, role>>

ApplyRole ==
    /\ manifest # Nothing
    /\ role' = manifest.role
    /\ UNCHANGED <<providerConfig, manifest, classes, deployment>>

\* Objects that left the ManagedResource go once all others are applied.
RemoveOldClasses ==
    /\ manifest # Nothing
    /\ manifest.class \in classes
    /\ deployment = manifest.deployment /\ role = manifest.role
    /\ classes' = {manifest.class}
    /\ UNCHANGED <<providerConfig, manifest, deployment, role>>

Next == \/ EditConfig \/ Reconcile
        \/ ApplyClass \/ ApplyDeployment \/ ApplyRole \/ RemoveOldClasses

Spec == Init /\ [][Next]_vars

\* Reconcile is retried and resynced; resource-manager keeps applying.
FairSpec ==
    /\ Spec
    /\ WF_vars(Reconcile) /\ WF_vars(ApplyClass) /\ WF_vars(ApplyDeployment)
    /\ WF_vars(ApplyRole) /\ WF_vars(RemoveOldClasses)

-----------------------------------------------------------------------------
(* Properties.                                                             *)

\* What Traefik's providers need beyond the common rules (deployer.go:478-479).
Needs(provider) == IF provider = "kubernetesingressnginx"
                   THEN {<<"namespaces", "watch">>, <<"pods", "get">>} ELSE {}

ControllerOf(provider) == IF provider = "kubernetesingressnginx"
                          THEN "k8s.io/ingress-nginx"
                          ELSE "traefik.io/ingress-controller"

\* The generated objects fit together for every config: selectors match the
\* pods, entry points, ports, probes and the Service agree, a dashboard has its
\* port, and the disruption budget leaves a running pod (deployer.go:542-887).
WiredTogether ==
    manifest # Nothing =>
        LET d == manifest.deployment IN
        /\ \A s \in {d.selector, Service.selector, NetworkPolicy.selector,
                     PodDisruptionBudget.selector} : s \subseteq d.labels
        /\ d.entryPoints = d.ports
        /\ \A t \in Service.targets : \E p \in d.ports : p[1] = t
        /\ <<d.pingEntryPoint, d.probePort>> \in d.ports
        /\ <<"metrics", d.scrapePort>> \in d.ports
        /\ d.insecureAPI <=> \E p \in d.ports : p[1] = "traefik"
        /\ d.publishedService = Service.name
        /\ ClusterRoleBinding.subject = d.serviceAccount
        /\ d.replicas >= PodDisruptionBudget.minAvailable

Settled ==
    \/ manifest = Nothing /\ Rejected(providerConfig)
    \/ /\ manifest # Nothing
       /\ Rejected(providerConfig) \/ manifest = Manifest(Merged(providerConfig))
       /\ classes = {manifest.class}
       /\ deployment = manifest.deployment /\ role = manifest.role

\* A rollout that has settled on a valid provider serves the one IngressClass
\* that is there, through a provider the class's controller belongs to, with
\* exactly the permissions it needs (deployer.go:108-114, 478-494, 577-594).
SettledServes ==
    Settled /\ manifest # Nothing /\ deployment.enabled # {} =>
        \E e \in deployment.enabled :
            /\ deployment.enabled = {e}
            /\ classes = {[name |-> e.class, controller |-> ControllerOf(e.provider)]}
            /\ role \cap {<<"namespaces", "watch">>, <<"pods", "get">>}
                   = Needs(e.provider)

\* No edit of the config ever changes the controller of an IngressClass, which
\* is immutable: Ingresses never lose their class to a deletion and a new
\* object (deployer.go:773-807).
ControllerNeverChanges ==
    [][\A k \in classes, l \in classes' : k.name = l.name => k = l]_vars

\* Unless the config is edited for ever, the shoot ends up with exactly what
\* the last config asks for (actuator.go:202-228).
RolloutConverges == []<><<EditConfig>>_vars \/ <>[]Settled

\* pkg/apis/config/types.go:30-32: "Valid values are" the two known providers.
\* What is deployed serves one of them.
DeploysValidProvider == manifest # Nothing => manifest.deployment.enabled # {}
================================================================================
