-------------------------------- MODULE Pmm --------------------------------
(***************************************************************************)
(* The bitmap physical memory manager of src/kernel/minimal_step9.c, from *)
(* the Multiboot2 memory map to first-fit allocation:                      *)
(*                                                                         *)
(*   parse_multiboot_mmap  ParseMmap    total_memory = highest Available   *)
(*   pmm_init              PmmInit      cap, bitmap placement, all ones    *)
(*   pmm_mark_free_regions MarkFreeEntry (one per entry), MarkKernelUsed  *)
(*   pmm_alloc_page        Alloc        with the caller's "0 is OOM" test  *)
(*   pmm_free_page         Free                                            *)
(*                                                                         *)
(* Addresses are real byte addresses and PAGE_SIZE is 4096, so the floors *)
(* and round-ups of the code are those of the code; only the amount of    *)
(* memory is small.  The bitmap is the set `bits` of its 1-bits.           *)
(***************************************************************************)
EXTENDS Integers, Sequences, FiniteSets

CONSTANTS
  Maps,          \* the memory maps the loader may hand over: sequences of
                 \* [addr, len, type] entries of the first mmap tag
  MemCap,        \* the "Limit to 64MB" ceiling of pmm_init
  KernelStart,   \* the linker symbols kernel_start and kernel_end
  KernelEnd,
  MbEnd,         \* multiboot_info_addr + *mb_size_ptr
  MaxOps,        \* bound on allocator calls after initialisation
  Below4G        \* 0x100000000UL, the limit of parse_multiboot_mmap

VARIABLES
  phase,         \* where kernel_main is in its memory set-up
  mmap,          \* the loader's memory map (fixed in a behaviour)
  entry_i,       \* next entry pmm_mark_free_regions looks at
  total_memory, total_pages, bitmap_size, pmm_bitmap,
  bits,          \* indexes of the 1-bits of pmm_bitmap[]
  used_pages,
  held,          \* frames (addresses) the caller holds from pmm_alloc_page
  handed,        \* frames the caller was ever handed, for double frees
  ops

vars == <<phase, mmap, entry_i, total_memory, total_pages, bitmap_size,
          pmm_bitmap, bits, used_pages, held, handed, ops>>

PAGE_SIZE == 4096
MULTIBOOT_MEMORY_AVAILABLE == 1

PAGE_ALIGN(a) == ((a + PAGE_SIZE - 1) \div PAGE_SIZE) * PAGE_SIZE

MaxOf(S) == CHOOSE m \in S : \A x \in S : x <= m
MinOf(S) == CHOOSE m \in S : \A x \in S : m <= x

Pages == 0 .. total_pages - 1

\* the bits of one byte of the bitmap
ByteBits(b) == b * 8 .. b * 8 + 7

Init ==
  /\ phase = "mmap"
  /\ mmap \in Maps
  /\ entry_i = 1
  /\ total_memory = 0 /\ total_pages = 0 /\ bitmap_size = 0
  /\ pmm_bitmap = 0 /\ bits = {} /\ used_pages = 0
  /\ held = {} /\ handed = {} /\ ops = 0

\* parse_multiboot_mmap: total_memory is the highest end of an Available
\* entry below 4 GiB (the walk stops at the first mmap tag).
ParseMmap ==
  /\ phase = "mmap"
  /\ total_memory' = MaxOf({0} \cup
        {mmap[i].addr + mmap[i].len :
           i \in {j \in DOMAIN mmap : mmap[j].type = MULTIBOOT_MEMORY_AVAILABLE
                                      /\ mmap[j].addr < Below4G}})
  /\ phase' = "pmm_init"
  /\ UNCHANGED <<mmap, entry_i, total_pages, bitmap_size, pmm_bitmap, bits,
                 used_pages, held, handed, ops>>

\* Seeded fault for mutation analysis: the bitmap size is not rounded up.
BitmapBytesTruncated(pages) == pages \div 8

\* bitmap_size = (total_pages + 7) / 8;
BitmapBytes(pages) == (pages + 7) \div 8

\* pmm_init: cap total_memory, size the bitmap, place it page-aligned past
\* both the kernel image and the boot-info blob, memset it to 0xFF.
PmmInit ==
  LET mem   == IF total_memory > MemCap THEN MemCap ELSE total_memory
      pages == mem \div PAGE_SIZE
      size  == BitmapBytes(pages)
  IN /\ phase = "pmm_init"
     /\ total_memory' = mem
     /\ total_pages' = pages
     /\ bitmap_size' = size
     /\ pmm_bitmap' = PAGE_ALIGN(IF MbEnd > KernelEnd THEN MbEnd ELSE KernelEnd)
     /\ bits' = 0 .. size * 8 - 1
     /\ used_pages' = pages
     /\ phase' = "mark_free"
     /\ UNCHANGED <<mmap, entry_i, held, handed, ops>>

(***************************************************************************)
(* pmm_mark_region_free(base, length): the pages its three loops clear.   *)
(* The head loop runs when start_page is not byte-aligned, the whole-byte *)
(* loop over [start_byte, end_byte) and the tail loop over                 *)
(* [end_byte * 8, end_page) when end_page is not byte-aligned.  Each loop  *)
(* decrements used_pages only for a bit it finds set, so the count is the *)
(* number of set bits among the pages cleared.                             *)
(***************************************************************************)
RegionFreeCleared(base, length) ==
  LET start_page == base \div PAGE_SIZE
      end_page   == (base + length) \div PAGE_SIZE
      start_byte == start_page \div 8
      end_byte   == end_page \div 8
      head  == IF start_page % 8 # 0
                 THEN {p \in start_page .. (start_byte + 1) * 8 - 1 :
                         p < end_page /\ p < total_pages}
                 ELSE {}
      first == IF start_page % 8 # 0 THEN start_byte + 1 ELSE start_byte
      whole == UNION {ByteBits(b) : b \in {b \in first .. end_byte - 1 :
                                             b < bitmap_size}}
      tail  == IF end_page % 8 # 0
                 THEN {p \in end_byte * 8 .. end_page - 1 : p < total_pages}
                 ELSE {}
  IN head \cup whole \cup tail

\* Seeded fault for mutation analysis: the end page is rounded down.
RegionUsedPagesFloor(base, length) ==
  {p \in (base \div PAGE_SIZE) .. ((base + length) \div PAGE_SIZE) - 1 :
     p < total_pages}

\* pmm_mark_region_used(base, length): pages [base / 4096, round-up(end)).
RegionUsedPages(base, length) ==
  {p \in (base \div PAGE_SIZE) .. ((base + length + PAGE_SIZE - 1) \div PAGE_SIZE) - 1 :
     p < total_pages}

\* One entry of the mmap loop of pmm_mark_free_regions: an Available entry
\* at or past total_memory is skipped, one crossing it is capped.
MarkFreeEntry ==
  LET e   == mmap[entry_i]
      len == IF e.addr + e.len > total_memory THEN total_memory - e.addr ELSE e.len
      clr == IF e.type = MULTIBOOT_MEMORY_AVAILABLE /\ e.addr < total_memory
               THEN RegionFreeCleared(e.addr, len) ELSE {}
  IN /\ phase = "mark_free"
     /\ entry_i <= Len(mmap)
     /\ bits' = bits \ clr
     /\ used_pages' = used_pages - Cardinality(clr \cap bits)
     /\ entry_i' = entry_i + 1
     /\ UNCHANGED <<phase, mmap, total_memory, total_pages, bitmap_size,
                    pmm_bitmap, held, handed, ops>>

\* The end of pmm_mark_free_regions: [kernel_start, bitmap_end) is used.
MarkKernelUsed ==
  LET set == RegionUsedPages(KernelStart, pmm_bitmap + bitmap_size - KernelStart)
  IN /\ phase = "mark_free"
     /\ entry_i > Len(mmap)
     /\ bits' = bits \cup set
     /\ used_pages' = used_pages + Cardinality(set \ bits)
     /\ phase' = "ready"
     /\ UNCHANGED <<mmap, entry_i, total_memory, total_pages, bitmap_size,
                    pmm_bitmap, held, handed, ops>>

FreeIn(b) == {p \in Pages : p \notin b}

FreeFrames == FreeIn(bits)

\* Seeded fault for mutation analysis: the found page is not marked used.
PmmAllocPageNoMark(b) ==
  IF FreeIn(b) = {} THEN [found |-> FALSE, r |-> 0, bits |-> b]
  ELSE [found |-> TRUE, r |-> MinOf(FreeIn(b)) * PAGE_SIZE, bits |-> b]

(***************************************************************************)
(* pmm_alloc_page on the bitmap b: the first-fit scan marks the lowest     *)
(* clear bit and returns i * PAGE_SIZE, or returns 0 when there is none.   *)
(* `found` says whether a page was marked (used_pages++).                  *)
(***************************************************************************)
PmmAllocPage(b) ==
  IF FreeIn(b) = {} THEN [found |-> FALSE, r |-> 0, bits |-> b]
  ELSE LET i == MinOf(FreeIn(b))
       IN [found |-> TRUE, r |-> i * PAGE_SIZE, bits |-> b \cup {i}]

\* A caller's view of pmm_alloc_page, as vmm_map_page uses it:
\*   uint64_t new = pmm_alloc_page(); if (!new) return;  (OOM)
\* The frame is kept only when the result is not 0.
Alloc ==
  LET a == PmmAllocPage(bits)
  IN /\ phase = "ready"
     /\ ops < MaxOps
     /\ ops' = ops + 1
     /\ bits' = a.bits
     /\ used_pages' = IF a.found THEN used_pages + 1 ELSE used_pages
     /\ held' = IF a.r # 0 THEN held \cup {a.r} ELSE held
     /\ handed' = IF a.r # 0 THEN handed \cup {a.r} ELSE handed
     /\ UNCHANGED <<phase, mmap, entry_i, total_memory, total_pages,
                    bitmap_size, pmm_bitmap>>

\* Seeded fault for mutation analysis: the "is it used" test is dropped.
FreeNoCheck(page_idx) == page_idx < total_pages

\* if (page_idx < total_pages && pmm_is_page_used(page_idx))
FreeApplies(page_idx) == page_idx < total_pages /\ page_idx \in bits

(***************************************************************************)
(* pmm_free_page(phys_addr) on a frame the caller holds, one it already    *)
(* gave back and nobody took since (a double free), or an address past the *)
(* managed range.                                                           *)
(***************************************************************************)
Free ==
  /\ phase = "ready"
  /\ ops < MaxOps
  /\ \E addr \in held \cup {a \in handed : a \div PAGE_SIZE \notin bits}
                   \cup {total_pages * PAGE_SIZE} :
       LET page_idx == addr \div PAGE_SIZE
       IN /\ IF FreeApplies(page_idx)
               THEN /\ bits' = bits \ {page_idx}
                    /\ used_pages' = used_pages - 1
               ELSE UNCHANGED <<bits, used_pages>>
          /\ held' = held \ {addr}
  /\ ops' = ops + 1
  /\ UNCHANGED <<phase, mmap, entry_i, total_memory, total_pages,
                 bitmap_size, pmm_bitmap, handed>>

Next ==
  \/ ParseMmap
  \/ PmmInit
  \/ MarkFreeEntry
  \/ MarkKernelUsed
  \/ Alloc
  \/ Free

Spec == Init /\ [][Next]_vars

-----------------------------------------------------------------------------
TypeOK ==
  /\ phase \in {"mmap", "pmm_init", "mark_free", "ready"}
  /\ total_pages \in 0 .. MemCap \div PAGE_SIZE
  /\ bits \subseteq 0 .. bitmap_size * 8 - 1
  /\ used_pages \in 0 .. total_pages
  /\ held \subseteq {p * PAGE_SIZE : p \in Pages}
  /\ ops \in 0 .. MaxOps

\* A frame lies wholly inside [base, base + len).
FrameWithin(p, base, len) ==
  base <= p * PAGE_SIZE /\ (p + 1) * PAGE_SIZE <= base + len

\* A frame shares a byte with [base, base + len).
FrameTouches(p, base, len) ==
  p * PAGE_SIZE < base + len /\ base < (p + 1) * PAGE_SIZE

AvailableFrame(p) ==
  \E i \in DOMAIN mmap :
     mmap[i].type = MULTIBOOT_MEMORY_AVAILABLE
     /\ FrameWithin(p, mmap[i].addr, mmap[i].len)

\* used_pages counts the 1-bits of the managed frames at every point of
\* pmm_mark_region_free, pmm_mark_region_used, pmm_alloc_page and
\* pmm_free_page, double frees and frees past the range included.
UsedPagesCount ==
  phase \in {"mark_free", "ready"} =>
     used_pages = Cardinality(bits \cap Pages)

\* Once pmm_mark_free_regions is done, a clear bit is a frame wholly inside
\* an Available region that holds no byte of the kernel image or the bitmap.
FreeFramesAvailable ==
  phase = "ready" =>
     \A p \in FreeFrames :
        /\ AvailableFrame(p)
        /\ ~FrameTouches(p, KernelStart, pmm_bitmap + bitmap_size - KernelStart)

\* A frame pmm_alloc_page handed out stays marked used until it is freed,
\* so no frame is held twice.
HeldFramesUsed ==
  \A a \in held : a \div PAGE_SIZE \in bits

\* Every frame set in the bitmap is either reserved since initialisation or
\* held by the caller of pmm_alloc_page: none is lost.
NoLeakedFrames ==
  phase = "ready" =>
     \A p \in Pages \cap bits :
        \/ ~AvailableFrame(p)
        \/ FrameTouches(p, KernelStart, pmm_bitmap + bitmap_size - KernelStart)
        \/ p * PAGE_SIZE \in held

====
