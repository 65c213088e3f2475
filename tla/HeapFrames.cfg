\* Enough pmm_alloc_page calls to exhaust low memory on the QEMU-shaped
\* map, and one kmalloc.
CONSTANTS
  Maps <- QemuMaps
  MemCap <- MCMemCap
  KernelStart <- MCKernelStart
  KernelEnd <- MCKernelEnd
  MbEnd <- MCMbEnd
  Below4G <- MCBelow4G
  MaxOps = 11
  Word <- MCWord
  HEAP_SIZE <- MCHeapSize
  Sizes <- MCSizes
  K <- MCK
  CR3 <- MCCR3
  LoaderMem <- MCLoaderMem
  LoaderTables <- MCLoaderTables
  VAs <- MCVAs
  PAs <- MCPAs
  MaxMaps = 0
  MaxKmalloc = 1
SPECIFICATION MemSpec
INVARIANT FramesAndHeapDisjoint
CHECK_DEADLOCK FALSE
