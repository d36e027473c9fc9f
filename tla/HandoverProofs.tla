----------------------------- MODULE HandoverProofs -----------------------------
(* What follows from the hand-over alone, whoever implements it.            *)
EXTENDS Handover, TLAPS

\* Discharged is inductive: a released object is released in a cleanup, during
\* which nobody takes the DNSRecord back.
THEOREM PromiseDischarged == Spec => []Discharged
<1> USE DEF Discharged, RecordSettled, RecordOut, Cleaning
<1>1. Init => Discharged
  BY DEF Init
<1>2. Discharged /\ [Next]_vars => Discharged'
  <2> SUFFICES ASSUME Discharged, [Next]_vars, ~forced' PROVE Discharged'
    OBVIOUS
  <2> USE DEF recordVars, objectVars
  <2>1. CASE Enter \/ Leave \/ ForceRemoval \/ Retire
    BY <2>1 DEF Enter, Leave, ForceRemoval, Retire
  <2>2. CASE ManageRecord \/ WriteRecord \/ ReleaseRecord \/ LetRecordGo
    BY <2>2 DEF ManageRecord, WriteRecord, ReleaseRecord, LetRecordGo
  <2>3. CASE ConfirmRecord \/ DeleteRecord \/ RecordGone
    BY <2>3 DEF ConfirmRecord, DeleteRecord, RecordGone
  <2>4. CASE ManageObjects \/ WriteObjects \/ SpareObjects \/ FinishObjects
    BY <2>4 DEF ManageObjects, WriteObjects, SpareObjects, FinishObjects
  <2>5. CASE ReleaseObjects
    BY <2>5 DEF ReleaseObjects
  <2>6. CASE UNCHANGED vars
    BY <2>6 DEF vars
  <2> QED
    BY <2>1, <2>2, <2>3, <2>4, <2>5, <2>6 DEF Next
<1> QED
  BY <1>1, <1>2, PTL DEF Spec
=================================================================================
