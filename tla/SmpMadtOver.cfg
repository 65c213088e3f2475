\* MAX_CPUS scaled down to 2 so that a MADT of three processors exceeds it.
CONSTANTS
  Madt <- MCMadtOver
  BspApicId = 0
  MaxCpus <- MCMaxCpus
  NoCpu = NoCpu
  SumTarget = 7
  Broken = {}
SPECIFICATION Spec
INVARIANT BootTargetsExact
CHECK_DEADLOCK FALSE
