----------------------------- MODULE MCSmpBoot -----------------------------
(***************************************************************************)
(* MADTs for checking SmpBoot.  Entry lengths are the ACPI ones: Local    *)
(* APIC 8, I/O APIC 12, interrupt source override 10.                      *)
(***************************************************************************)
EXTENDS SmpBoot

LApic(id, enabled) == [type |-> 0, len |-> 8, id |-> id, flags |-> IF enabled THEN 1 ELSE 0]
IoApic == [type |-> 1, len |-> 12, id |-> 0, flags |-> 0]
Iso    == [type |-> 2, len |-> 10, id |-> 0, flags |-> 0]

\* Three processors with sparse APIC IDs (one per core, as with SMT off), a
\* disabled Local APIC between them, and the non-LAPIC entries a real MADT
\* interleaves; the BSP is entry 0.
MCMadtMixed == <<LApic(0, TRUE), IoApic, LApic(2, TRUE), LApic(3, FALSE), Iso,
                 LApic(4, TRUE)>>

\* Three processors with sparse APIC IDs, BSP first.
MCMadt3 == <<LApic(0, TRUE), LApic(2, TRUE), IoApic, LApic(4, TRUE)>>

\* Three enabled processors, one more than MCMaxCpus.
MCMadtOver == <<LApic(0, TRUE), LApic(1, TRUE), LApic(2, TRUE)>>

MCMaxCpus == 2
=============================================================================
