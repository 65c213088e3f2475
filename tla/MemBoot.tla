------------------------------ MODULE MemBoot ------------------------------
(***************************************************************************)
(* The BSP's memory bring-up in kernel_main (minimal_step9.c 2024-2036):  *)
(* parse_multiboot_mmap, pmm_init, pmm_mark_free_regions, vmm_init, then  *)
(* heap_init, which places the heap window after the PMM bitmap.  After   *)
(* that, callers of pmm_alloc_page / pmm_free_page, vmm_map_page /        *)
(* vmm_unmap_page / vmm_virt_to_phys and kmalloc run in any order, all on *)
(* the BSP, until a fault halts it.                                        *)
(***************************************************************************)
EXTENDS Vmm

CONSTANTS Word, HEAP_SIZE, Sizes, MaxKmalloc

VARIABLES heap_start, heap_current, heap_end, live, last, kcalls,
  boot          \* which init call kernel_main has reached

H == INSTANCE Heap

heapState == <<heap_start, heap_current, heap_end, live, last, kcalls>>

pmmVars == <<phase, mmap, entry_i, total_memory, total_pages, bitmap_size,
             pmm_bitmap, bits, used_pages, held, handed, ops>>

allVars == <<pmmVars, vmmVars, heapState, boot>>

MemInit == Init /\ VmmInit /\ H!HeapInit /\ boot = "pmm"

PmmBoot == ParseMmap \/ PmmInit \/ MarkFreeEntry \/ MarkKernelUsed

\* vmm_init() once pmm_mark_free_regions() has returned.
VmmInitStep ==
  /\ boot = "pmm"
  /\ phase = "ready"
  /\ VmmSetup
  /\ boot' = "vmm"
  /\ UNCHANGED <<pmmVars, heapState>>

\* heap_init(): the window starts at PAGE_ALIGN(pmm_bitmap + bitmap_size).
HeapInitStep ==
  /\ boot = "vmm"
  /\ H!HeapSetup(pmm_bitmap + bitmap_size)
  /\ boot' = "run"
  /\ UNCHANGED <<pmmVars, vmmVars>>

\* the BSP has finished the init calls and no exception has halted it
Running == boot = "run" /\ ~fault

FrameCall == Running /\ (Alloc \/ Free)

MapCall == Running /\ \E va \in VAs, pa \in PAs : MapPage(va, pa)

UnmapCall == Running /\ \E va \in VAs : UnmapPage(va)

TranslateCall == Running /\ \E va \in VAs : TranslatePage(va)

KmallocCall == Running /\ \E s \in Sizes : H!Kmalloc(s)

MemNext ==
  \/ PmmBoot /\ UNCHANGED <<vmmVars, heapState, boot>>
  \/ VmmInitStep
  \/ HeapInitStep
  \/ FrameCall /\ UNCHANGED <<vmmVars, heapState, boot>>
  \/ MapCall /\ UNCHANGED <<heapState, boot>>
  \/ UnmapCall /\ UNCHANGED <<pmmVars, heapState, boot>>
  \/ TranslateCall /\ UNCHANGED <<pmmVars, heapState, boot>>
  \/ KmallocCall /\ UNCHANGED <<pmmVars, vmmVars, boot>>

MemSpec == MemInit /\ [][MemNext]_allVars

-----------------------------------------------------------------------------
MemTypeOK == TypeOK /\ VmmTypeOK /\ H!HeapTypeOK

\* spec.md 5, recursive map integrity: from vmm_init on, PML4_VIRT_ADDR as
\* the code computes it (an OR of int shifts) reaches the PML4 itself, and
\* no later map, unmap or allocation disturbs PML4[511].
RecursiveMapIntact ==
  boot \in {"vmm", "run"} => MmuWalk(mem, PML4_VIRT_ADDR) = CR3

\* Every block kmalloc returned lies inside the heap window and no two
\* blocks overlap (kmalloc's round-up, advance and bound check together).
HeapBlocksDisjoint == H!BlocksDisjointInWindow

\* kmalloc fails only for a request that no longer fits in the window.
HeapNoSpuriousOom == H!NoSpuriousOom

\* No frame a caller holds from pmm_alloc_page shares a byte with a block
\* kmalloc handed out: the heap window is reserved memory (spec.md 2).
FramesAndHeapDisjoint ==
  \A a \in held, b \in live :
     a + PAGE_SIZE <= b.addr \/ b.addr + b.size <= a

====
