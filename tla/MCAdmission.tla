------------------------------ MODULE MCAdmission ------------------------------
(* Small instances of Admission for TLC. *)
EXTENDS Admission

Entry(type, disabled) == [type |-> type, disabled |-> disabled]

\* No entry, the extension alone, and before or after another one.
Lists == { <<>>, <<Entry("other", FALSE)>> }
         \union { <<Entry(ExtensionType, d)>> : d \in BOOLEAN }
         \union { <<Entry(ExtensionType, d), Entry("other", FALSE)>> : d \in BOOLEAN }
         \union { <<Entry("other", TRUE), Entry(ExtensionType, d)>> : d \in BOOLEAN }

MCSpecs == [ purpose: Purposes, extensions: Lists ]
================================================================================
