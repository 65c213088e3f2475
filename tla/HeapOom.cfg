\* kmalloc calls only, on the QEMU-shaped map.
CONSTANTS
  Maps <- QemuMaps
  MemCap <- MCMemCap
  KernelStart <- MCKernelStart
  KernelEnd <- MCKernelEnd
  MbEnd <- MCMbEnd
  Below4G <- MCBelow4G
  MaxOps = 0
  Word <- MCWord
  HEAP_SIZE <- MCHeapSize
  Sizes <- MCSizes
  K <- MCK
  CR3 <- MCCR3
  LoaderMem <- MCLoaderMem
  LoaderTables <- MCLoaderTables
  VAs <- MCVAs
  PAs <- MCPAs
  MaxMaps = 0
  MaxKmalloc = 3
SPECIFICATION MemSpec
INVARIANT HeapNoSpuriousOom
CHECK_DEADLOCK FALSE
