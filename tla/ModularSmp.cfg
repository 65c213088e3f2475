\* The old modular kernel (main.c, smp.c, acpi.c): does "[SUCCESS] All APs
\* booted and functional!" mean every CPU ran computation_task?
CONSTANTS
  Madt <- MCMadt
  BspApicId = 0
  Slow <- MCSlow
SPECIFICATION Spec
INVARIANT AllCpusComputed
\* kernel_main() ends in a halt loop, and a halted AP may never wake.
CHECK_DEADLOCK FALSE
