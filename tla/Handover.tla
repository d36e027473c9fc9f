------------------------------- MODULE Handover -------------------------------
(***************************************************************************)
(* What the actuator promises, without its operations, calls, errors and   *)
(* retries: who keeps the two things it deploys - the DNSRecord in the     *)
(* seed and Traefik's objects in the shoot - and in which order they       *)
(* change hands.  ActuatorHandover shows that Actuator implements this.    *)
(*                                                                         *)
(*   serving   gardener-resource-manager keeps both; it may (re)apply them *)
(*   cleaning  each is first released by resource-manager; the DNSRecord   *)
(*             is deleted by the actuator once nobody keeps it, and only   *)
(*             then are Traefik's objects released or removed              *)
(***************************************************************************)
VARIABLES
    life,          \* of the Extension: "ended", "serving", "moving", "removing"
    forced,        \* the shoot is force-deleted: order no longer matters
    recordKeeper,  \* who keeps the DNSRecord: "nobody", "managing", "releasing"
    recordState,   \* "none", "present", "confirmed", "leaving"
    objectKeeper,  \* who keeps Traefik: also "removing"
    workload       \* Traefik is in the shoot

recordVars == <<recordKeeper, recordState>>
objectVars == <<objectKeeper, workload>>
vars == <<life, forced, recordVars, objectVars>>

Init ==
    /\ life = "ended" /\ forced = FALSE
    /\ recordKeeper = "nobody" /\ recordState = "none"
    /\ objectKeeper = "nobody" /\ workload = FALSE

RecordOut == recordState \in {"none", "leaving"}
RecordSettled == recordKeeper = "nobody" /\ RecordOut
Cleaning == life \in {"moving", "removing"}

-----------------------------------------------------------------------------
(* The life of the Extension.                                              *)

Enter ==
    /\ life = "ended" /\ ~forced
    /\ life' = "serving"
    /\ UNCHANGED <<forced, recordVars, objectVars>>

Leave ==
    /\ life = "serving"
    /\ life' \in {"moving", "removing"}
    /\ UNCHANGED <<forced, recordVars, objectVars>>

ForceRemoval ==
    /\ forced' = TRUE
    /\ UNCHANGED <<life, recordVars, objectVars>>

\* The Extension goes only when nobody keeps anything any more.
Retire ==
    /\ life # "ended"
    /\ life' = "ended"
    /\ objectKeeper = "nobody"
    /\ forced \/ RecordSettled
    /\ UNCHANGED <<forced, recordVars, objectVars>>

-----------------------------------------------------------------------------
(* The DNSRecord.                                                          *)

ManageRecord ==
    /\ life = "serving"
    /\ recordKeeper = "nobody"
    /\ recordKeeper' = "managing"
    /\ UNCHANGED <<life, forced, recordState, objectVars>>

\* resource-manager writes what it keeps, reverting a confirmation.
WriteRecord ==
    /\ recordKeeper = "managing"
    /\ recordState # "leaving"
    /\ recordState' = "present"
    /\ UNCHANGED <<life, forced, recordKeeper, objectVars>>

ReleaseRecord ==
    /\ Cleaning
    /\ recordKeeper = "managing"
    /\ recordKeeper' = "releasing"
    /\ UNCHANGED <<life, forced, recordState, objectVars>>

LetRecordGo ==
    /\ recordKeeper = "releasing"
    /\ recordKeeper' = "nobody"
    /\ UNCHANGED <<life, forced, recordState, objectVars>>

\* Only a DNSRecord that nobody keeps is confirmed and then deleted.
ConfirmRecord ==
    /\ Cleaning
    /\ recordKeeper = "nobody" /\ recordState = "present"
    /\ recordState' = "confirmed"
    /\ UNCHANGED <<life, forced, recordKeeper, objectVars>>

DeleteRecord ==
    /\ Cleaning
    /\ recordKeeper = "nobody" /\ recordState = "confirmed"
    /\ recordState' = "leaving"
    /\ UNCHANGED <<life, forced, recordKeeper, objectVars>>

RecordGone ==
    /\ recordState = "leaving"
    /\ recordState' = "none"
    /\ UNCHANGED <<life, forced, recordKeeper, objectVars>>

-----------------------------------------------------------------------------
(* Traefik's objects in the shoot.                                         *)

ManageObjects ==
    /\ life = "serving"
    /\ objectKeeper = "nobody"
    /\ objectKeeper' = "managing"
    /\ UNCHANGED <<life, forced, recordVars, workload>>

WriteObjects ==
    /\ objectKeeper = "managing"
    /\ workload' = TRUE
    /\ UNCHANGED <<life, forced, recordVars, objectKeeper>>

\* After the DNSRecord; a move releases the objects, a removal may remove them.
ReleaseObjects ==
    /\ Cleaning
    /\ objectKeeper = "managing"
    /\ forced \/ RecordSettled
    /\ objectKeeper' \in {"releasing"} \cup
                         (IF life = "removing" THEN {"removing"} ELSE {})
    /\ UNCHANGED <<life, forced, recordVars, workload>>

\* A forced deletion gives up a removal that cannot reach the shoot.
SpareObjects ==
    /\ forced /\ Cleaning
    /\ objectKeeper = "removing"
    /\ objectKeeper' = "releasing"
    /\ UNCHANGED <<life, forced, recordVars, workload>>

FinishObjects ==
    /\ objectKeeper \in {"releasing", "removing"}
    /\ objectKeeper' = "nobody"
    /\ workload' = (workload /\ objectKeeper = "releasing")
    /\ UNCHANGED <<life, forced, recordVars>>

-----------------------------------------------------------------------------
Next ==
    \/ Enter \/ Leave \/ ForceRemoval \/ Retire
    \/ ManageRecord \/ WriteRecord \/ ReleaseRecord \/ LetRecordGo
    \/ ConfirmRecord \/ DeleteRecord \/ RecordGone
    \/ ManageObjects \/ WriteObjects \/ ReleaseObjects \/ SpareObjects
    \/ FinishObjects

Spec == Init /\ [][Next]_vars

-----------------------------------------------------------------------------
\* What the promise amounts to: an Extension that is gone, not by force, has
\* left nothing behind that somebody keeps or that nobody will ever delete, and
\* Traefik's objects never leave before the DNSRecord that points at them
\* (actuator.go:344-357, 429-441).
Discharged ==
    ~forced =>
        /\ life = "ended" => RecordSettled /\ objectKeeper = "nobody"
        /\ objectKeeper \in {"releasing", "removing"} => Cleaning /\ RecordSettled
===============================================================================
