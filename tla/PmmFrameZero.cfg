\* The QEMU-shaped map, whose frame 0 is Available.
CONSTANTS
  Maps <- QemuMaps
  MemCap <- MCMemCap
  KernelStart <- MCKernelStart
  KernelEnd <- MCKernelEnd
  MbEnd <- MCMbEnd
  Below4G <- MCBelow4G
  MaxOps = 2
SPECIFICATION Spec
INVARIANT NoLeakedFrames
CHECK_DEADLOCK FALSE
