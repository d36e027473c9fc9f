-------------------------- MODULE TraefikConfigProofs --------------------------
(* Proofs about TraefikConfig, for every set of provider configs.           *)
EXTENDS TraefikConfig, TLAPS

AnyConfig == ProviderConfigs \cup {NoProviderConfig}

\* An IngressClass has the controller its name stands for.
ProperClass(k) ==
    \E nginx \in BOOLEAN :
        k = [name |-> IF nginx THEN "nginx" ELSE "traefik",
             controller |-> IF nginx THEN "k8s.io/ingress-nginx"
                            ELSE "traefik.io/ingress-controller"]

\* The inductive invariant: a manifest is always one generated from some config,
\* and no class in the shoot ever came from anywhere else.
ConfigInv ==
    /\ providerConfig \in AnyConfig
    /\ manifest # Nothing => \E pc \in AnyConfig : manifest = Manifest(Merged(pc))
    /\ \A k \in classes : ProperClass(k)

-----------------------------------------------------------------------------
\* The merge repairs the number of replicas and the provider, whatever the
\* config holds (actuator.go:202-223).
LEMMA MergeRepairs ==
    ASSUME NEW pc \in AnyConfig
    PROVE  /\ Merged(pc).replicas \in Int /\ Merged(pc).replicas >= 1
           /\ Merged(pc).provider # ""
           /\ Merged(pc).dashboard \in BOOLEAN
<1>1. CASE ~Usable(pc)
  BY <1>1 DEF Merged, DefaultConfig, KubernetesIngress
<1>2. CASE Usable(pc)
  <2>1. pc \in ProviderConfig
    BY <1>2, ConfigAssumption DEF Usable, AnyConfig
  <2>2. pc.replicas \in Int /\ pc.dashboard \in BOOLEAN
    BY <2>1 DEF ProviderConfig
  <2>3. Merged(pc).replicas = IF pc.replicas > 0 THEN pc.replicas ELSE 2
    BY <1>2 DEF Merged, DefaultConfig
  <2>4. Merged(pc).provider = IF pc.provider = "" THEN KubernetesIngress
                                                  ELSE pc.provider
    BY <1>2 DEF Merged, DefaultConfig
  <2>5. Merged(pc).dashboard = pc.dashboard
    BY <1>2 DEF Merged
  <2>6. Merged(pc).dashboard \in BOOLEAN
    BY <2>2, <2>5, Zenon
  <2>7. Merged(pc).replicas \in Int /\ Merged(pc).replicas >= 1
    BY <2>2, <2>3
  <2>8. Merged(pc).provider # ""
    BY <2>4 DEF KubernetesIngress
  <2> QED
    BY <2>6, <2>7, <2>8, Zenon
<1> QED
  BY <1>1, <1>2

LEMMA ClassIsProper ==
    ASSUME NEW c
    PROVE  ProperClass(IngressClass(c))
<1>1. CASE c.provider = KubernetesIngressNGINX
  BY <1>1 DEF ProperClass, IngressClass, IngressClassName
<1>2. CASE c.provider # KubernetesIngressNGINX
  BY <1>2 DEF ProperClass, IngressClass, IngressClassName
<1> QED
  BY <1>1, <1>2

\* Two classes of one name are one class.
LEMMA OneClassPerName ==
    ASSUME NEW k, NEW l, ProperClass(k), ProperClass(l), k.name = l.name
    PROVE  k = l
  BY DEF ProperClass

LEMMA InitConfig == Init => ConfigInv
  BY DEF Init, ConfigInv, AnyConfig

LEMMA NextConfig == ConfigInv /\ [Next]_vars => ConfigInv'
<1> SUFFICES ASSUME ConfigInv, [Next]_vars
             PROVE  ConfigInv'
  OBVIOUS
<1>1. CASE EditConfig
  BY <1>1 DEF EditConfig, ConfigInv, AnyConfig
<1>2. CASE Reconcile
  BY <1>2 DEF Reconcile, ConfigInv
<1>3. CASE ApplyClass
  <2>1. PICK pc \in AnyConfig : manifest = Manifest(Merged(pc))
    BY <1>3 DEF ApplyClass, ConfigInv
  <2>2. manifest.class = IngressClass(Merged(pc))
    BY <2>1 DEF Manifest
  <2>3. ProperClass(manifest.class)
    BY <2>2, ClassIsProper
  <2> QED
    BY <1>3, <2>3 DEF ApplyClass, ConfigInv
<1>4. CASE ApplyDeployment \/ ApplyRole \/ UNCHANGED vars
  BY <1>4 DEF ApplyDeployment, ApplyRole, vars, ConfigInv
<1>5. CASE RemoveOldClasses
  BY <1>5 DEF RemoveOldClasses, ConfigInv
<1> QED
  BY <1>1, <1>2, <1>3, <1>4, <1>5 DEF Next

LEMMA ConfigInvHolds == Spec => []ConfigInv
  BY InitConfig, NextConfig, PTL DEF Spec

-----------------------------------------------------------------------------
\* The generated objects fit together for every config that can be written,
\* whatever it holds (deployer.go:542-887).
THEOREM ObjectsFit == Spec => []WiredTogether
<1>1. ASSUME ConfigInv, manifest # Nothing
      PROVE  WiredTogether
  <2>1. PICK pc \in AnyConfig : manifest = Manifest(Merged(pc))
    BY <1>1 DEF ConfigInv
  <2> DEFINE c == Merged(pc)
             d == manifest.deployment
  <2>2. c.replicas \in Int /\ c.replicas >= 1 /\ c.dashboard \in BOOLEAN
    BY MergeRepairs
  <2>3. d = Deployment(c)
    BY <2>1 DEF Manifest
  <2> HIDE DEF c, d
  <2>4. \A s \in {d.selector, Service.selector, NetworkPolicy.selector,
                  PodDisruptionBudget.selector} : s \subseteq d.labels
    BY <2>3 DEF Deployment, Service, NetworkPolicy, PodDisruptionBudget, PodLabels
  <2>5. d.entryPoints = d.ports /\ d.ports = ContainerPorts(c)
    BY <2>3 DEF Deployment, EntryPoints, ContainerPorts
  <2>6. {<<"web", 8000>>, <<"websecure", 8443>>, <<"metrics", 9100>>} \subseteq d.ports
    BY <2>5 DEF ContainerPorts
  <2>7. \A t \in Service.targets : \E p \in d.ports : p[1] = t
    <3>1. <<"web", 8000>> \in d.ports /\ <<"websecure", 8443>> \in d.ports
      BY <2>6
    <3> QED
      BY <3>1 DEF Service
  <2>8. /\ <<d.pingEntryPoint, d.probePort>> \in d.ports
        /\ <<"metrics", d.scrapePort>> \in d.ports
    BY <2>3, <2>6 DEF Deployment
  <2>9. d.insecureAPI <=> \E p \in d.ports : p[1] = "traefik"
    <3>1. d.insecureAPI = c.dashboard
      BY <2>3, Zenon DEF Deployment
    <3>2. CASE c.dashboard = TRUE
      <4>1. <<"traefik", 9000>> \in d.ports
        BY <2>5, <3>2 DEF ContainerPorts
      <4>2. d.insecureAPI
        BY <3>1, <3>2, Zenon
      <4> QED
        BY <4>1, <4>2
    <3>3. CASE c.dashboard = FALSE
      <4>1. \A p \in d.ports : p[1] # "traefik"
        BY <2>5, <3>3 DEF ContainerPorts
      <4>2. ~d.insecureAPI
        BY <3>1, <3>3, Zenon
      <4> QED
        BY <4>1, <4>2
    <3> QED
      BY <2>2, <3>2, <3>3, Zenon
  <2>10. /\ d.publishedService = Service.name
         /\ ClusterRoleBinding.subject = d.serviceAccount
         /\ d.replicas >= PodDisruptionBudget.minAvailable
    BY <2>2, <2>3 DEF Deployment, Service, ClusterRoleBinding, PodDisruptionBudget
  <2> QED
    BY <2>4, <2>5, <2>7, <2>8, <2>9, <2>10 DEF WiredTogether, d
<1>2. ConfigInv => WiredTogether
  BY <1>1 DEF WiredTogether
<1> QED
  BY <1>2, ConfigInvHolds, PTL

\* A rollout that has settled on a known provider serves its one IngressClass
\* with exactly the permissions it needs (deployer.go:108-114, 478-494).
THEOREM SettledRolloutServes == Spec => []SettledServes
<1>1. ASSUME ConfigInv, Settled, manifest # Nothing, deployment.enabled # {}
      PROVE  SettledServes
  <2>1. PICK pc \in AnyConfig : manifest = Manifest(Merged(pc))
    BY <1>1 DEF ConfigInv
  <2> DEFINE c == Merged(pc)
  <2>2. c.provider # ""
    BY MergeRepairs
  <2>3. /\ classes = {IngressClass(c)} /\ role = ClusterRole(c)
        /\ deployment.enabled = EnabledProviders(c)
    BY <1>1, <2>1 DEF Settled, Manifest, Deployment
  <2> HIDE DEF c
  <2>4. CASE c.provider = KubernetesIngressNGINX
    BY <2>3, <2>4 DEF SettledServes, EnabledProviders, IngressClass, IngressClassName,
       ClusterRole, ControllerOf, Needs, KubernetesIngress, KubernetesIngressNGINX
  <2>5. CASE c.provider = KubernetesIngress
    BY <2>3, <2>5 DEF SettledServes, EnabledProviders, IngressClass, IngressClassName,
       ClusterRole, ControllerOf, Needs, KubernetesIngress, KubernetesIngressNGINX
  <2> QED
    BY <1>1, <2>2, <2>3, <2>4, <2>5 DEF EnabledProviders
<1>2. ConfigInv => SettledServes
  BY <1>1 DEF SettledServes
<1> QED
  BY <1>2, ConfigInvHolds, PTL

\* No edit of the config ever makes a rollout change the controller of an
\* IngressClass (deployer.go:773-807).
THEOREM ControllersFixed == Spec => ControllerNeverChanges
<1>1. ConfigInv /\ ConfigInv' =>
        [\A k \in classes, l \in classes' : k.name = l.name => k = l]_vars
  BY OneClassPerName DEF ConfigInv
<1>2. ConfigInv /\ [Next]_vars =>
        [\A k \in classes, l \in classes' : k.name = l.name => k = l]_vars
  BY <1>1, NextConfig
<1> QED
  BY <1>2, ConfigInvHolds, PTL DEF Spec, ControllerNeverChanges
================================================================================
