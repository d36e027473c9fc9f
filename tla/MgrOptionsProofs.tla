--------------------------- MODULE MgrOptionsProofs ---------------------------
(* Proofs about MgrOptions, for every catalogue of options.                  *)
EXTENDS MgrOptions, FiniteSetTheorems, TLAPS

Shared == MetricsFields \cup ControllerFields \cup WebhookFields

\* An option that assigns a field of its own has nothing to do with a struct
\* that others write to.
LEMMA PlainNames ==
    ASSUME NEW n \in PlainOptions
    PROVE  /\ n \in DOMAIN Named /\ Named[n] = Field[n]
           /\ Field[n] \in Fields \ Shared
           /\ n \notin DOMAIN RegisterOrder \cup DOMAIN AttachOrder
<1>1. n \in DOMAIN Named /\ Named[n] = Field[n] /\ Field[n] \in Fields
  BY DEF Named, Fields
<1> USE DEF Shared, MetricsFields, ControllerFields, WebhookFields
<1>2. CASE n \in DOMAIN ConnectionField
  <2>1. Field[n] = ConnectionField[n]
    BY <1>2 DEF Field, PlainOptions, ConnectionField, LeaderElectionField,
       ProbeField, ClientField
  <2> QED
    BY <1>1, <1>2, <2>1 DEF ConnectionField, RegisterOrder, AttachOrder
<1>3. CASE n \in DOMAIN LeaderElectionField
  <2>1. Field[n] = LeaderElectionField[n]
    BY <1>3 DEF Field, PlainOptions, ConnectionField, LeaderElectionField,
       ProbeField, ClientField
  <2> QED
    BY <1>1, <1>3, <2>1 DEF LeaderElectionField, RegisterOrder, AttachOrder
<1>4. CASE n \in DOMAIN ProbeField
  <2>1. Field[n] = ProbeField[n]
    BY <1>4 DEF Field, PlainOptions, ConnectionField, LeaderElectionField,
       ProbeField, ClientField
  <2> QED
    BY <1>1, <1>4, <2>1 DEF ProbeField, RegisterOrder, AttachOrder
<1>5. CASE n \in DOMAIN ClientField
  <2>1. Field[n] = ClientField[n]
    BY <1>5 DEF Field, PlainOptions, ConnectionField, LeaderElectionField,
       ProbeField, ClientField
  <2> QED
    BY <1>1, <1>5, <2>1 DEF ClientField, RegisterOrder, AttachOrder
<1> QED
  BY <1>2, <1>3, <1>4, <1>5 DEF PlainOptions

LEMMA SharedNames ==
    ASSUME NEW n \in DOMAIN SharedField
    PROVE  /\ n \in DOMAIN Named /\ Named[n] = SharedField[n]
           /\ n \notin PlainOptions \cup DOMAIN RegisterOrder \cup DOMAIN AttachOrder
           /\ SharedField[n] \in Shared
<1>1. n \notin PlainOptions \cup DOMAIN RegisterOrder \cup DOMAIN AttachOrder
  BY DEF SharedField, PlainOptions, ConnectionField, LeaderElectionField,
     ProbeField, ClientField, RegisterOrder, AttachOrder
<1>2. SharedField[n] \in Shared
  BY DEF SharedField, Shared, MetricsFields, ControllerFields, WebhookFields
<1> QED
  BY <1>1, <1>2 DEF Named

\* Every field an option is about is a field of mgr.
LEMMA NamesAreFields ==
    /\ \A n \in DOMAIN Named : Named[n] \in Fields
    /\ DOMAIN Named = PlainOptions \cup DOMAIN SharedField
    /\ Shared \subseteq Fields /\ "scheme" \in Fields \ Shared
<1>1. Shared \subseteq Fields
  BY DEF Shared, Fields
<1>2. DOMAIN Named = PlainOptions \cup DOMAIN SharedField
  BY DEF Named
<1>3. \A n \in DOMAIN Named : Named[n] \in Fields
  BY <1>1, <1>2, PlainNames, SharedNames
<1>4. "WithScheme" \in PlainOptions /\ Field["WithScheme"] = "scheme"
  <2>1. "WithScheme" \in PlainOptions
    BY DEF PlainOptions, ConnectionField
  <2>2. Field["WithScheme"] = ConnectionField["WithScheme"]
    BY <2>1 DEF Field, ConnectionField, LeaderElectionField, ProbeField,
       ClientField
  <2> QED
    BY <2>1, <2>2 DEF ConnectionField
<1>5. Field["WithScheme"] \in Fields \ Shared
  BY <1>4, PlainNames
<1>6. "scheme" \in Fields \ Shared
  BY <1>4, <1>5
<1> QED
  BY <1>1, <1>2, <1>3, <1>6, Zenon

-----------------------------------------------------------------------------
(* The inductive invariant.                                                  *)

Setting == {"default", "given", "zero"}

\* Each option so far is in force, or one that clashes with it has been given.
EachHeeded ==
    \A o \in given : o[1] \in DOMAIN Named =>
        \/ settings[Named[o[1]]] = "given"
        \/ \E p \in given : {o[1], p[1]} \in Clashes

\* Only options about the webhook server make one, and only the option that
\* replaces the controller's struct empties its fields.
WhoChanged ==
    /\ ~NoWebhookServer =>
          \E p \in given : p[1] \in {"WithWebhookServer", "WithWebhookPort",
                                     "WithWebhookCertDir"}
    /\ (\E f \in ControllerFields : settings[f] = "zero") =>
          \E p \in given : p[1] = "WithControllerOptions"

SettingsInv ==
    /\ settings \in [Fields -> Setting]
    /\ settings["scheme"] # "zero"
    /\ EachHeeded /\ WhoChanged

\* What options add is collected, and each stage of New leaves nothing undone.
StagesInv ==
    /\ \A o \in given : o[1] \in DOMAIN RegisterOrder \cup DOMAIN AttachOrder
                          => o \in collected
    /\ stage \in {"options", "schemes"} => manager = <<>>
    /\ stage \in {"created", "returned"} => manager = settings /\ ToRegister = {}
    /\ stage = "returned" => ToAttach = {}

MgrInv == TypeOK /\ IsFiniteSet(given) /\ SettingsInv /\ StagesInv

\* What an option may do to the settings.
LEMMA AssignKeeps ==
    ASSUME MgrInv, NEW o \in Catalogue, Option(o), o[1] \in DOMAIN Named,
           Assign(Named[o[1]])
    PROVE  SettingsInv'
<1> DEFINE f == Named[o[1]]
<1>1. settings \in [Fields -> Setting] /\ EachHeeded /\ WhoChanged
  BY DEF MgrInv, SettingsInv
<1>2. /\ settings' = [settings EXCEPT ![f] = "given"]
      /\ given' = given \cup {o} /\ f \in Fields
  BY NamesAreFields DEF Assign, Option
<1>3. settings' \in [Fields -> Setting] /\ settings'["scheme"] # "zero"
  BY <1>1, <1>2, NamesAreFields DEF MgrInv, SettingsInv, Setting
<1>4. settings'[f] = "given"
      /\ \A g \in Fields : settings[g] = "given" => settings'[g] = "given"
  BY <1>1, <1>2
<1>5. EachHeeded'
  BY <1>1, <1>2, <1>4, NamesAreFields DEF EachHeeded
<1>6. CASE f \in WebhookFields
  <2>1. f \in Shared
    BY <1>6 DEF Shared
  <2>2. o[1] \in DOMAIN SharedField /\ f = SharedField[o[1]]
    BY <2>1, NamesAreFields, PlainNames, SharedNames
  <2>3. o[1] \in {"WithWebhookServer", "WithWebhookPort", "WithWebhookCertDir"}
    BY <1>6, <2>2 DEF SharedField, WebhookFields
  <2>4. \A g \in ControllerFields : settings'[g] = settings[g]
    BY <1>1, <1>2, <1>6 DEF ControllerFields, WebhookFields, Fields
  <2> QED
    BY <1>1, <1>2, <1>3, <1>5, <2>3, <2>4 DEF WhoChanged, SettingsInv
<1>7. CASE f \notin WebhookFields
  <2>1. NoWebhookServer => NoWebhookServer'
    BY <1>1, <1>2, <1>7 DEF NoWebhookServer, WebhookFields, Fields
  <2>2. \A g \in ControllerFields : settings'[g] = "zero" => settings[g] = "zero"
    BY <1>1, <1>2 DEF ControllerFields, Fields
  <2> QED
    BY <1>1, <1>2, <1>3, <1>5, <2>1, <2>2 DEF WhoChanged, SettingsInv
<1> QED
  BY <1>6, <1>7

LEMMA ReplaceKeeps ==
    ASSUME MgrInv, NEW o \in Catalogue, Option(o), NEW struct,
           \/ o[1] = "WithMetricsOptions" /\ struct = MetricsFields
           \/ o[1] = "WithControllerOptions" /\ struct = ControllerFields
           \/ o[1] = "WithWebhookServer" /\ struct = WebhookFields,
           Replace(struct, SharedField[o[1]])
    PROVE  SettingsInv'
<1> DEFINE f == SharedField[o[1]]
<1>1. settings \in [Fields -> Setting] /\ EachHeeded /\ WhoChanged
  BY DEF MgrInv, SettingsInv
<1>2. /\ o[1] \in DOMAIN SharedField /\ Named[o[1]] = f
      /\ f \in struct /\ struct \subseteq Shared
  BY SharedNames DEF SharedField, MetricsFields, ControllerFields,
     WebhookFields, Shared
<1>3. given' = given \cup {o}
  BY DEF Option
<1>4. /\ settings' \in [Fields -> Setting]
      /\ settings'[f] = "given"
      /\ \A g \in struct \ {f} : settings'[g] = "zero"
      /\ \A g \in Fields \ struct : settings'[g] = settings[g]
  BY <1>1, <1>2, NamesAreFields DEF Replace, Setting
<1>5. settings'["scheme"] # "zero"
  BY <1>2, <1>4, NamesAreFields DEF MgrInv, SettingsInv
<1>6. \A n \in DOMAIN Named : Named[n] \in struct \ {f} => {n, o[1]} \in Clashes
  <2> SUFFICES ASSUME NEW n \in DOMAIN Named, Named[n] \in struct \ {f}
               PROVE  {n, o[1]} \in Clashes
    OBVIOUS
  <2>1. n \in DOMAIN SharedField /\ Named[n] = SharedField[n]
    BY <1>2, NamesAreFields, PlainNames, SharedNames
  <2> QED
    BY <2>1 DEF SharedField, MetricsFields, ControllerFields, WebhookFields, Clashes
<1>7. EachHeeded'
  <2> SUFFICES ASSUME NEW p \in given', p[1] \in DOMAIN Named
               PROVE  \/ settings'[Named[p[1]]] = "given"
                      \/ \E q \in given' : {p[1], q[1]} \in Clashes
    BY DEF EachHeeded
  <2>1. CASE Named[p[1]] \in struct
    BY <1>3, <1>4, <1>6, <2>1
  <2>2. CASE Named[p[1]] \notin struct
    <3>1. settings'[Named[p[1]]] = settings[Named[p[1]]]
      BY <1>4, <2>2, NamesAreFields
    <3>2. p \in given
      BY <1>2, <1>3, <2>2
    <3> QED
      BY <1>1, <1>3, <3>1, <3>2 DEF EachHeeded
  <2> QED
    BY <2>1, <2>2
<1>8. WhoChanged'
  <2>1. o[1] # "WithControllerOptions" =>
          \A g \in ControllerFields : settings'[g] = settings[g]
    BY <1>4, NamesAreFields DEF MetricsFields, ControllerFields, WebhookFields, Shared
  <2>2. o[1] # "WithWebhookServer" =>
          \A g \in WebhookFields : settings'[g] = settings[g]
    BY <1>4, NamesAreFields DEF MetricsFields, ControllerFields, WebhookFields, Shared
  <2> QED
    BY <1>1, <1>3, <2>1, <2>2 DEF WhoChanged, NoWebhookServer
<1> QED
  BY <1>4, <1>5, <1>7, <1>8 DEF SettingsInv

\* An option that finds a webhook server is lost to the one that brought it.
LEMMA IgnoredKeeps ==
    ASSUME MgrInv, NEW o \in Catalogue, Option(o), UNCHANGED settings,
           \/ o[1] \notin DOMAIN Named
           \/ ~NoWebhookServer /\ o[1] \in {"WithWebhookPort", "WithWebhookCertDir"}
    PROVE  SettingsInv'
<1>1. settings \in [Fields -> Setting] /\ EachHeeded /\ WhoChanged
  BY DEF MgrInv, SettingsInv
<1>2. given' = given \cup {o}
  BY DEF Option
<1>3. WhoChanged'
  BY <1>1, <1>2 DEF WhoChanged, NoWebhookServer
<1>4. o[1] \in DOMAIN Named =>
        \/ settings[Named[o[1]]] = "given"
        \/ \E p \in given : {o[1], p[1]} \in Clashes
  <2> SUFFICES ASSUME o[1] \in DOMAIN Named
               PROVE  \/ settings[Named[o[1]]] = "given"
                      \/ \E p \in given : {o[1], p[1]} \in Clashes
    OBVIOUS
  <2>1. PICK p \in given : p[1] \in {"WithWebhookServer", "WithWebhookPort",
                                     "WithWebhookCertDir"}
    BY <1>1 DEF WhoChanged
  <2>2. CASE p[1] = o[1]
    BY <1>1, <2>2 DEF EachHeeded
  <2>3. CASE p[1] # o[1]
    BY <2>1, <2>3 DEF Clashes
  <2> QED
    BY <2>2, <2>3
<1>5. EachHeeded'
  BY <1>1, <1>2, <1>4 DEF EachHeeded
<1> QED
  BY <1>1, <1>3, <1>5 DEF MgrInv, SettingsInv

\* An option leaves the rest of New as it was.
LEMMA OptionKeeps ==
    ASSUME MgrInv, NEW o \in Catalogue, Option(o), SettingsInv',
           registered' = registered,
           collected' \in {collected, collected \cup {o}},
           o[1] \in DOMAIN RegisterOrder \cup DOMAIN AttachOrder => o \in collected'
    PROVE  MgrInv'
<1>1. /\ given' = given \cup {o} /\ o \notin given
      /\ stage = "options" /\ stage' = "options"
      /\ manager' = manager /\ attached' = attached
  BY DEF Option
<1>2. IsFiniteSet(given') /\ Cardinality(given') <= MaxOptions
  <2>1. /\ Cardinality(given') = Cardinality(given) + 1 /\ IsFiniteSet(given')
    BY <1>1, FS_AddElement DEF MgrInv
  <2>2. Cardinality(given) \in Nat
    BY FS_CardinalityType DEF MgrInv
  <2> QED
    BY <2>1, <2>2, MaxOptionsAssumption DEF Option
<1>3. StagesInv'
  BY <1>1 DEF MgrInv, StagesInv
<1>4. TypeOK'
  <2>1. given' \subseteq Catalogue /\ collected' \subseteq given'
    BY <1>1 DEF MgrInv, TypeOK
  <2>2. /\ registered' \subseteq {"default", "given"} \X collected'
        /\ attached' \subseteq collected'
    BY <1>1 DEF MgrInv, TypeOK
  <2>3. manager' = <<>>
    BY <1>1 DEF MgrInv, StagesInv
  <2> QED
    BY <1>1, <1>2, <2>1, <2>2, <2>3 DEF SettingsInv, TypeOK, Setting
<1> QED
  BY <1>2, <1>3, <1>4 DEF MgrInv

LEMMA InitMgr == Init => MgrInv
<1> SUFFICES ASSUME Init PROVE MgrInv
  OBVIOUS
<1>1. IsFiniteSet(given) /\ Cardinality(given) <= MaxOptions
  BY FS_EmptySet, MaxOptionsAssumption DEF Init
<1>2. SettingsInv
  BY NamesAreFields DEF Init, SettingsInv, Setting, EachHeeded, WhoChanged,
     NoWebhookServer, WebhookFields, ControllerFields, Fields
<1>3. StagesInv
  BY DEF Init, StagesInv
<1>4. TypeOK
  BY <1>1 DEF Init, TypeOK
<1> QED
  BY <1>1, <1>2, <1>3, <1>4 DEF MgrInv

LEMMA NextMgr == MgrInv /\ [Next]_vars => MgrInv'
<1> SUFFICES ASSUME MgrInv, [Next]_vars
             PROVE  MgrInv'
  OBVIOUS
<1>1. ASSUME NEW o \in Catalogue, SetField(o) PROVE MgrInv'
  <2>1. o[1] \in DOMAIN Named /\ Named[o[1]] = Field[o[1]]
    BY <1>1, PlainNames DEF SetField
  <2>2. SettingsInv'
    BY <1>1, <2>1, AssignKeeps DEF SetField
  <2> QED
    BY <1>1, <2>2, PlainNames, OptionKeeps DEF SetField
<1>2. ASSUME NEW o \in Catalogue,
             SetMetrics(o) \/ SetController(o) \/ SetWebhook(o)
      PROVE  MgrInv'
  <2>1. Option(o) /\ UNCHANGED <<collected, registered>>
    BY <1>2 DEF SetMetrics, SetController, SetWebhook
  <2>2. o[1] \in DOMAIN SharedField
    BY <1>2 DEF SetMetrics, SetController, SetWebhook, SharedField
  <2>3. o[1] \in DOMAIN Named /\ Named[o[1]] = SharedField[o[1]]
    BY <2>2, SharedNames
  <2>4. Assign(SharedField[o[1]]) => SettingsInv'
    BY <1>2, <2>1, <2>3, AssignKeeps DEF Assign
  <2>5. ASSUME NEW struct,
               \/ o[1] = "WithMetricsOptions" /\ struct = MetricsFields
               \/ o[1] = "WithControllerOptions" /\ struct = ControllerFields
               \/ o[1] = "WithWebhookServer" /\ struct = WebhookFields,
               Replace(struct, SharedField[o[1]])
        PROVE  SettingsInv'
    BY <1>2, <2>1, <2>5, ReplaceKeeps
  <2>6. ASSUME ~NoWebhookServer, UNCHANGED settings,
               o[1] \in {"WithWebhookPort", "WithWebhookCertDir"}
        PROVE  SettingsInv'
    BY <1>2, <2>1, <2>6, IgnoredKeeps
  <2>7. SettingsInv'
    <3>1. SharedField[o[1]] =
            CASE o[1] = "WithMetricsOptions" -> "metricsOther"
              [] o[1] = "WithMetricsAddress" -> "metricsBindAddress"
              [] o[1] = "WithControllerOptions" -> "recoverPanic"
              [] o[1] = "WithMaxConcurrentReconciles" -> "maxConcurrentReconciles"
              [] o[1] = "WithWebhookServer" -> "webhookOther"
              [] o[1] = "WithWebhookPort" -> "webhookPort"
              [] o[1] = "WithWebhookCertDir" -> "webhookCertDir"
      BY <2>2 DEF SharedField
    <3>2. CASE SetMetrics(o)
      BY <2>4, <2>5, <3>1, <3>2 DEF SetMetrics, Assign, Replace
    <3>3. CASE SetController(o)
      BY <2>4, <2>5, <3>1, <3>3 DEF SetController, Assign, Replace
    <3>4. CASE SetWebhook(o)
      BY <2>4, <2>5, <2>6, <3>1, <3>4 DEF SetWebhook, Assign, Replace
    <3> QED
      BY <1>2, <3>2, <3>3, <3>4
  <2> QED
    BY <1>2, <2>1, <2>2, <2>7, SharedNames, OptionKeeps
<1>3. ASSUME NEW o \in Catalogue, CollectTypes(o) \/ CollectParts(o)
      PROVE  MgrInv'
  <2>1. /\ Option(o) /\ UNCHANGED <<settings, registered>>
        /\ collected' = collected \cup {o}
    BY <1>3 DEF CollectTypes, CollectParts
  <2>2. o[1] \notin DOMAIN Named
    BY <1>3, PlainNames, SharedNames, NamesAreFields DEF CollectTypes, CollectParts
  <2>3. SettingsInv'
    BY <2>1, <2>2, IgnoredKeeps
  <2> QED
    BY <2>1, <2>3, OptionKeeps
<1> DEFINE Kept == given' = given /\ settings' = settings /\ collected' = collected
<1>4. ASSUME Kept PROVE SettingsInv' /\ IsFiniteSet(given')
  BY <1>4 DEF MgrInv, SettingsInv, EachHeeded, WhoChanged, NoWebhookServer
<1>5. ASSUME NEW o \in Catalogue, Register(o) PROVE MgrInv'
  <2>1. settings["scheme"] \in {"default", "given"}
    BY NamesAreFields DEF MgrInv, SettingsInv, Setting
  <2>2. TypeOK'
    BY <1>5, <2>1 DEF Register, ToRegister, MgrInv, TypeOK
  <2>3. StagesInv'
    BY <1>5 DEF Register, MgrInv, StagesInv
  <2> QED
    BY <1>4, <1>5, <2>2, <2>3 DEF Register, MgrInv
<1>6. ASSUME NEW o \in Catalogue, Attach(o) PROVE MgrInv'
  <2>1. TypeOK'
    BY <1>6 DEF Attach, ToAttach, MgrInv, TypeOK
  <2>2. StagesInv'
    BY <1>6 DEF Attach, MgrInv, StagesInv, ToRegister
  <2> QED
    BY <1>4, <1>6, <2>1, <2>2 DEF Attach, MgrInv
<1>7. CASE EndOptions \/ CreateManager \/ Fail \/ Return \/ UNCHANGED vars
  <2>1. Kept /\ UNCHANGED <<registered, attached>>
    BY <1>7 DEF EndOptions, CreateManager, Fail, Return, vars
  <2>2. TypeOK'
    BY <1>7, <2>1 DEF EndOptions, CreateManager, Fail, Return, vars, MgrInv, TypeOK
  <2>3. ToRegister' = ToRegister /\ ToAttach' = ToAttach
    BY <2>1 DEF ToRegister, ToAttach
  <2>4. StagesInv'
    BY <1>7, <2>1, <2>3 DEF EndOptions, CreateManager, Fail, Return, vars,
       MgrInv, StagesInv
  <2> QED
    BY <1>4, <2>1, <2>2, <2>4 DEF MgrInv
<1> QED
  BY <1>1, <1>2, <1>3, <1>5, <1>6, <1>7 DEF Next

LEMMA MgrInvHolds == Spec => []MgrInv
  BY InitMgr, NextMgr, PTL DEF Spec

-----------------------------------------------------------------------------
\* Every reachable state of New is well typed.
THEOREM TypeCorrect == Spec => []TypeOK
<1>1. MgrInv => TypeOK
  BY DEF MgrInv
<1> QED
  BY <1>1, MgrInvHolds, PTL

LEMMA InForceOrClash ==
    MgrInv /\ Returned => \A o \in given :
        InForce(o) \/ \E p \in given : {o[1], p[1]} \in Clashes
  BY DEF MgrInv, StagesInv, SettingsInv, EachHeeded, InForce, Returned

\* Whatever options New is given, how many and in whatever order, each is in
\* force unless one of five known pairs clashes (mgr.go:57-78).
THEOREM OptionsInForce == Spec => []SettingsInForce
<1>1. MgrInv => SettingsInForce
  BY InForceOrClash DEF MgrInv, StagesInv, SettingsInv, WhoChanged,
     SettingsInForce, Returned
<1> QED
  BY <1>1, MgrInvHolds, PTL

\* Neither command uses such a pair (manager.go:72-93, webhook.go:126-149).
THEOREM CommandsGetWhatTheyAskFor == Spec => []CommandsInForce
<1> DEFINE Risky == {"WithMetricsOptions", "WithControllerOptions",
                     "WithWebhookPort", "WithWebhookCertDir"}
<1>1. \A c \in Clashes : \E n \in Risky : n \in c
  BY DEF Clashes
<1>2. \A o \in ManagerOptions \cup WebhookOptions : o[1] \notin Risky
  <2>1. ASSUME NEW names, NEW o \in Plain(names)
        PROVE  o[1] \in names
    <3>1. PICK n \in names : o = <<n, "">>
      BY DEF Plain
    <3> QED
      BY <3>1
  <2> HIDE DEF Risky
  <2>2. \A o \in CommonOptions : o[1] \notin Risky
    BY <2>1 DEF CommonOptions, Risky
  <2>3. \A o \in ManagerOptions : o[1] \notin Risky
    BY <2>1, <2>2 DEF ManagerOptions, Risky
  <2>4. \A o \in WebhookOptions : o[1] \notin Risky
    BY <2>1, <2>2 DEF WebhookOptions, Risky
  <2> QED
    BY <2>3, <2>4
<1>3. ASSUME MgrInv, Returned,
             given \subseteq ManagerOptions \/ given \subseteq WebhookOptions,
             NEW o \in given
      PROVE  InForce(o)
  <2>1. \A p \in given : {o[1], p[1]} \notin Clashes
    BY <1>1, <1>2, <1>3
  <2> QED
    BY <1>3, <2>1, InForceOrClash
<1>4. MgrInv => CommandsInForce
  BY <1>3 DEF CommandsInForce
<1> QED
  BY <1>4, MgrInvHolds, PTL

\* The manager's scheme knows every type asked for (mgr.go:80-89).
THEOREM TypesKnown == Spec => []TypesOnScheme
<1>1. MgrInv => TypesOnScheme
  BY DEF MgrInv, StagesInv, ToRegister, TypesOnScheme, Returned
<1> QED
  BY <1>1, MgrInvHolds, PTL

\* A manager that is returned lacks nothing (mgr.go:127-151).
THEOREM NothingLacks == Spec => []PartsAttached
<1>1. MgrInv => PartsAttached
  BY DEF MgrInv, StagesInv, ToAttach, PartsAttached, Returned
<1> QED
  BY <1>1, MgrInvHolds, PTL
===============================================================================
