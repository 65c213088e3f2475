---------------------------- MODULE MCModularSmp ----------------------------
(***************************************************************************)
(* A machine for checking ModularSmp: three processors with sparse APIC   *)
(* IDs, the BSP first, an I/O APIC entry between them; the last AP may be *)
(* slower than smp_boot_aps()' 1000 ms wait.                               *)
(***************************************************************************)
EXTENDS ModularSmp

MCLApic(id) == [type |-> 0, len |-> 8, id |-> id, flags |-> 1]
MCIoApic    == [type |-> 1, len |-> 12, id |-> 0, flags |-> 0]

MCMadt == <<MCLApic(0), MCLApic(2), MCIoApic, MCLApic(4)>>
MCSlow == {4}
=============================================================================
