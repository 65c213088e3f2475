\* Memory bring-up, then allocator and kmalloc calls in any order.
CONSTANTS
  Maps <- PassMaps
  MemCap <- MCMemCap
  KernelStart <- MCKernelStart
  KernelEnd <- MCKernelEnd
  MbEnd <- MCMbEnd
  Below4G <- MCBelow4G
  MaxOps = 3
  Word <- MCWord
  HEAP_SIZE <- MCHeapSize
  Sizes <- MCSizes
  K <- MCK
  CR3 <- MCCR3
  LoaderMem <- MCLoaderMem
  LoaderTables <- MCLoaderTables
  VAs <- MCVAs
  PAs <- MCPAs
  MaxMaps = 2
  MaxKmalloc = 2
SPECIFICATION MemSpec
INVARIANTS
  MemTypeOK
  UsedPagesCount
  FreeFramesAvailable
  HeldFramesUsed
  HeapBlocksDisjoint
  TablesReserved
  RecursiveMapIntact
\* The model stops calling after MaxOps, MaxMaps and MaxKmalloc calls, and
\* an exception halts the BSP (exception_handler: while (1) hlt).
CHECK_DEADLOCK FALSE
