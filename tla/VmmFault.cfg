\* vmm_map_page / vmm_unmap_page / vmm_virt_to_phys against the spec.md 4.2
\* contract, after the memory bring-up.
CONSTANTS
  Maps <- PassMaps
  MemCap <- MCMemCap
  KernelStart <- MCKernelStart
  KernelEnd <- MCKernelEnd
  MbEnd <- MCMbEnd
  Below4G <- MCBelow4G
  MaxOps = 0
  Word <- MCWord
  HEAP_SIZE <- MCHeapSize
  Sizes <- MCSizes
  K <- MCK
  CR3 <- MCCR3
  LoaderMem <- MCLoaderMem
  LoaderTables <- MCLoaderTables
  VAs <- MCVAs
  PAs <- MCPAs
  MaxMaps = 2
  MaxKmalloc = 0
SPECIFICATION MemSpec
INVARIANTS
  VmmContract
\* The model stops calling after MaxOps, MaxMaps and MaxKmalloc calls, and
\* an exception halts the BSP (exception_handler: while (1) hlt).
CHECK_DEADLOCK FALSE
