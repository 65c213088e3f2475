\* A small Available region inside one bitmap byte.
CONSTANTS
  Maps <- HoleMaps
  MemCap <- MCMemCap
  KernelStart <- MCKernelStart
  KernelEnd <- MCKernelEnd
  MbEnd <- MCMbEnd
  Below4G <- MCBelow4G
  MaxOps = 0
SPECIFICATION Spec
INVARIANT FreeFramesAvailable
CHECK_DEADLOCK FALSE
