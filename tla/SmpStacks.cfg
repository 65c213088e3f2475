CONSTANTS
  Madt <- MCMadt3
  BspApicId = 0
  MaxCpus = 16
  NoCpu = NoCpu
  SumTarget = 7
  Broken = {}
SPECIFICATION Spec
INVARIANT StacksNotShared
CHECK_DEADLOCK FALSE
