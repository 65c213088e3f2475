CONSTANTS
  Madt <- MCMadt3
  BspApicId = 0
  MaxCpus = 16
  NoCpu = NoCpu
  SumTarget = 7
  Broken = {4}
SPECIFICATION Spec
PROPERTY BspFinishes
CHECK_DEADLOCK FALSE
