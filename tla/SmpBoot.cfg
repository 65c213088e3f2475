CONSTANTS
  Madt <- MCMadtMixed
  BspApicId = 0
  MaxCpus = 16
  NoCpu = NoCpu
  SumTarget = 10
  Broken = {}
SPECIFICATION Spec
INVARIANTS TypeOK TimerGateReady SumCompleteAfterBarrier PhasesSeparated BootTargetsExact
PROPERTIES AllHalt RefinesBarrierSpec
\* Every CPU ends in "while (1) hlt": the final states are real stops.
CHECK_DEADLOCK FALSE
