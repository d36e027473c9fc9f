---------------------------- MODULE AdmissionProofs ----------------------------
(***************************************************************************)
(* Proofs about Admission, for every number of replicas of the webhook and *)
(* every set of Shoot specifications.                                      *)
(***************************************************************************)
EXTENDS Admission, TLAPS

(* What the validator lets through meets the rule: its search stops at the  *)
(* first entry, which is the only one.                                      *)
LEMMA ValidatorIsExact ==
    ASSUME NEW s \in Specs, Validate(s)
    PROVE  ~Offends(s)
<1>1. CASE Traefiks(s) = {} \/ s.purpose = "evaluation"
  BY <1>1 DEF Enabled, Offends
<1>2. CASE \E i \in Traefiks(s) : s.extensions[i].disabled
  <2>1. PICK i \in Traefiks(s) : s.extensions[i].disabled
    BY <1>2
  <2>2. \A j \in Traefiks(s) : j = i
    BY SpecsAssumption DEF Traefiks
  <2> QED
    BY <2>1, <2>2 DEF Enabled, Offends
<1> QED
  BY <1>1, <1>2 DEF Validate

(* A vetted write leaves a Shoot that meets the rule.                       *)
LEMMA VettedWrite ==
    ASSUME NEW s \in Specs, Write(s), TypeOK
    PROVE  /\ spec' \in Specs /\ vetted' \in BOOLEAN
           /\ vetted' => ~Offends(spec')
BY ValidatorIsExact DEF Write, Admits, TypeOK

SafetyInv == TypeOK /\ OnlyLegacyOffends

LEMMA StepKeepsSafety ==
    ASSUME SafetyInv, [Next]_vars
    PROVE  SafetyInv'
<1> USE DEF SafetyInv
<1>1. ASSUME NEW r \in Replicas, Boot(r) \/ Crash(r)
      PROVE  SafetyInv'
  <2>1. UNCHANGED shootVars
    BY <1>1 DEF Boot, CreateManager, RunWebhookServer, Register, ComeUp, Crash
  <2>2. OnlyLegacyOffends'
    BY <2>1 DEF OnlyLegacyOffends, shootVars
  <2>3. ASSUME CreateManager(r) PROVE TypeOK'
    BY <2>1, <2>3 DEF CreateManager, TypeOK, shootVars
  <2>4. ASSUME RunWebhookServer(r) PROVE TypeOK'
    BY <2>1, <2>4 DEF RunWebhookServer, TypeOK, shootVars
  <2>5. ASSUME Register(r) PROVE TypeOK'
    BY <2>1, <2>5 DEF Register, TypeOK, shootVars
  <2>6. ASSUME NEW part \in Parts, ComeUp(r, part)
        PROVE  TypeOK'
    BY <2>1, <2>6 DEF ComeUp, TypeOK, shootVars
  <2>7. ASSUME Crash(r) PROVE TypeOK'
    BY <2>1, <2>7 DEF Crash, TypeOK, shootVars
  <2>8. TypeOK'
    BY <1>1, <2>3, <2>4, <2>5, <2>6, <2>7 DEF Boot
  <2> QED
    BY <2>2, <2>8
<1>2. ASSUME NEW s \in Specs, Create(s) \/ Update(s)
      PROVE  SafetyInv'
  <2>1. Write(s) /\ phase' \in {"live", "confirmed"} /\ UNCHANGED wanted
    BY <1>2 DEF Create, Update
  <2> QED
    BY <2>1, VettedWrite DEF Write, TypeOK, OnlyLegacyOffends
<1>3. CASE Want \/ Delete \/ Settle
  <2>1. phase' \in {phase, "deleting"} /\ UNCHANGED <<spec, vetted>>
        /\ (phase' = "deleting" /\ phase' # phase => phase = "confirmed")
    BY <1>3 DEF Want, Delete, Settle, shootVars
  <2>2. OnlyLegacyOffends'
    BY <2>1 DEF OnlyLegacyOffends
  <2>3. UNCHANGED <<stage, up, registered>> /\ wanted' \in BOOLEAN
        /\ calm' \in BOOLEAN
    BY <1>3 DEF Want, Delete, Settle, shootVars, TypeOK
  <2>4. TypeOK'
    BY <2>1, <2>3 DEF TypeOK
  <2> QED
    BY <2>2, <2>4
<1>4. CASE Repair
  <2>1. Disabled(spec) \in Specs
    BY DisabledAssumption DEF TypeOK
  <2>2. Write(Disabled(spec)) /\ UNCHANGED <<phase, wanted>>
    BY <1>4 DEF Repair
  <2> QED
    BY <2>1, <2>2, VettedWrite DEF Write, TypeOK, OnlyLegacyOffends
<1>5. CASE Confirm \/ RemoveFinalizer
  <2>1. spec \in Specs /\ Write(spec) /\ wanted' \in BOOLEAN
        /\ phase' \in {"confirmed", "absent"}
    BY <1>5 DEF Confirm, RemoveFinalizer, TypeOK
  <2> QED
    BY <2>1, VettedWrite DEF Write, TypeOK, OnlyLegacyOffends
<1>6. CASE UNCHANGED vars
  BY <1>6 DEF vars, shootVars, TypeOK, OnlyLegacyOffends
<1> QED
  BY <1>1, <1>2, <1>3, <1>4, <1>5, <1>6 DEF Next

LEMMA SafetyHolds == Spec => []SafetyInv
<1>1. Init => SafetyInv
  BY DEF Init, SafetyInv, TypeOK, OnlyLegacyOffends
<1>2. SafetyInv /\ [Next]_vars => SafetyInv'
  BY StepKeepsSafety
<1> QED
  BY <1>1, <1>2, PTL DEF Spec

(* Every reachable state is well typed.                                     *)
THEOREM TypeCorrect == Spec => []TypeOK
<1>1. SafetyInv => TypeOK
  BY DEF SafetyInv
<1> QED
  BY <1>1, SafetyHolds, PTL

(* Whatever order requests, restarts and the installation of the webhook    *)
(* come in, a Shoot last written since then enables Traefik only with       *)
(* purpose "evaluation": the promise of the validator's comment.            *)
THEOREM RuleEnforced == Spec => []OnlyLegacyOffends
<1>1. SafetyInv => OnlyLegacyOffends
  BY DEF SafetyInv
<1> QED
  BY <1>1, SafetyHolds, PTL
===============================================================================
