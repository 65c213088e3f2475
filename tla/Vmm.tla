-------------------------------- MODULE Vmm --------------------------------
(***************************************************************************)
(* The recursive-paging VMM of src/kernel/minimal_step9.c on top of Pmm.  *)
(* Physical memory is `mem`: every frame is K 64-bit entries (512 in the  *)
(* code), each [p (PT_PRESENT), f (frame of the address), huge (PT_HUGE)].*)
(*                                                                         *)
(* A virtual address is the tuple <<hi, l4, l3, l2, l1>> of its bit fields:*)
(* hi is 1 when bits 48-63 are all set, l4 .. l1 are the four 9-bit table  *)
(* indices (bits 39, 30, 21 and 12 up); the page offset is left out.  The  *)
(* alias macros PML4_VIRT_ADDR .. PT_VIRT_ADDR are the bitwise OR of their *)
(* terms, field by field, and every table access of the code goes through  *)
(* one of them and so through MmuWalk, the translation the MMU performs.   *)
(* An access the MMU refuses (#GP on a non-canonical address, #PF on a not *)
(* present entry) enters exception_handler, which halts: `fault` records   *)
(* it.  The TLB is not modelled: the code issues invlpg after each mapping *)
(* write and the aliases it reads were not present before.                 *)
(***************************************************************************)
EXTENDS Pmm, Bitwise

CONSTANTS
  K,            \* entries per table (512 in the code), a power of two
  CR3,          \* the frame of the loader's PML4
  LoaderMem,    \* the loader's tables and memory, as a value of mem
  LoaderTables, \* the frames of the loader's tables
  VAs,          \* addresses callers pass, as <<pml4_i, pdpt_i, pd_i, pt_i>>
  PAs,          \* frames callers map them to
  MaxMaps       \* bound on vmm_map_page / vmm_unmap_page / virt_to_phys calls

ASSUME \E n \in 1 .. 9 : K = 2 ^ n

VARIABLES
  mem,
  tables,       \* frames that hold page tables
  mapped,       \* the caller's record: va -> frame of a map_page that returned
  fault,        \* a VMM access faulted and exception_handler halted the CPU
  xlat,         \* the last vmm_virt_to_phys call that returned: <<va, result>>
  vops

vmmVars == <<mem, tables, mapped, fault, xlat, vops>>

Idx == 0 .. K - 1
RECURSIVE_INDEX == K - 1
R == RECURSIVE_INDEX
Fault == -1
Zero == [p |-> FALSE, f |-> 0, huge |-> FALSE]
PTE(fr) == [p |-> TRUE, f |-> fr, huge |-> FALSE]

\* the field a left shift by s bits puts the low bits of its operand in
FieldAt(s) == CASE s = 39 -> 2 [] s = 30 -> 3 [] s = 21 -> 4 [] s = 12 -> 5

\* ((uint64_t)x << s)
ShlU64(x, s) == [i \in 1 .. 5 |-> IF i = FieldAt(s) THEN x ELSE 0]

(***************************************************************************)
(* (RECURSIVE_INDEX << s): RECURSIVE_INDEX is the int 511, so the shift is *)
(* done in 32 bits and the int result is sign-extended when it is OR-ed    *)
(* into the unsigned long.  As gcc builds it (-O0 and -O2 alike):          *)
(*   511 << 39   shift count >= width of int: folded to 0                  *)
(*   511 << 30   overflows into the sign bit: (int)0xC0000000, which      *)
(*               extends to 0xFFFFFFFFC0000000 (fields l3, l4 and hi set) *)
(*   511 << 21, 511 << 12   fit: R in field l2 or l1                       *)
(***************************************************************************)
RecShl(s) ==
  CASE s = 39 -> <<0, 0, 0, 0, 0>>
    [] s = 30 -> <<1, R, R, 0, 0>>
    [] OTHER -> ShlU64(R, s)

\* RECURSIVE_BASE (0xFFFF000000000000UL)
RECURSIVE_BASE == <<1, 0, 0, 0, 0>>

BitOr(a, b) == [i \in 1 .. 5 |-> a[i] | b[i]]

Or5(t1, t2, t3, t4, t5) == BitOr(BitOr(BitOr(BitOr(t1, t2), t3), t4), t5)

PML4_VIRT_ADDR ==
  Or5(RECURSIVE_BASE, RecShl(39), RecShl(30), RecShl(21), RecShl(12))
PDPT_VIRT_ADDR(a) ==
  Or5(RECURSIVE_BASE, RecShl(39), RecShl(30), RecShl(21), ShlU64(a, 12))
PD_VIRT_ADDR(a, b) ==
  Or5(RECURSIVE_BASE, RecShl(39), RecShl(30), ShlU64(a, 21), ShlU64(b, 12))
PT_VIRT_ADDR(a, b, c) ==
  Or5(RECURSIVE_BASE, RecShl(39), ShlU64(a, 30), ShlU64(b, 21), ShlU64(c, 12))

\* bits 48-63 copy bit 47, the top bit of the PML4 index
Canonical(v) == v[1] = IF v[2] >= K \div 2 THEN 1 ELSE 0

\* The MMU's 4-level walk from CR3; a PD entry with PT_HUGE maps K frames.
MmuWalk(m, v) ==
  LET e4 == m[CR3][v[2]]
      e3 == m[e4.f][v[3]]
      e2 == m[e3.f][v[4]]
      e1 == m[e2.f][v[5]]
  IN CASE ~Canonical(v) -> Fault
       [] ~e4.p -> Fault
       [] ~e3.p -> Fault
       [] ~e2.p -> Fault
       [] e2.huge -> e2.f + v[5]
       [] ~e1.p -> Fault
       [] OTHER -> e1.f

\* The vector a failed walk of v raises: #GP (13) for a non-canonical
\* address, #PF (14) for a not-present entry
FaultVector(v) == IF Canonical(v) THEN 14 ELSE 13

\* exception_handler(): breakpoints (3) and spurious interrupts (255)
\* return to the faulting code; every other vector halts the CPU
ExceptionHalts(vector) == vector \notin {3, 255}

\* An access through v traps and exception_handler halts the CPU
Faults(m, v) == MmuWalk(m, v) = Fault /\ ExceptionHalts(FaultVector(v))

\* table[i] through the alias v (callers check Faults first)
Rd(m, v, i) == m[MmuWalk(m, v)][i]

\* table[i] = e through the alias v
Wr(m, v, i, e) == [m EXCEPT ![MmuWalk(m, v)][i] = e]

\* for (int i = 0; i < 512; i++) table[i] = 0;   through the alias v
Clear(m, v) == [m EXCEPT ![MmuWalk(m, v)] = [j \in Idx |-> Zero]]

VmmInit ==
  /\ mem = LoaderMem
  /\ tables = LoaderTables
  /\ mapped = <<>>
  /\ fault = FALSE
  /\ xlat = <<>>
  /\ vops = 0

\* Seeded fault for mutation analysis: the self-map written one slot low.
VmmSetupSlotOff ==
  /\ mem' = [mem EXCEPT ![CR3][R - 1] = PTE(CR3)]
  /\ UNCHANGED <<tables, mapped, fault, xlat, vops>>

\* vmm_init: pml4_direct[RECURSIVE_INDEX] = pml4_phys | PRESENT | WRITE,
\* written through the loader's identity map, then the CR3 reload.
VmmSetup ==
  /\ mem' = [mem EXCEPT ![CR3][R] = PTE(CR3)]
  /\ UNCHANGED <<tables, mapped, fault, xlat, vops>>

(***************************************************************************)
(* One "Access/create" block of vmm_map_page, on st = [ok, fault, m, bits, *)
(* used, tables]: read table(parent)[i]; when it is not present take a     *)
(* frame from pmm_alloc_page (a 0 result is OOM: return), install it with  *)
(* PRESENT | WRITE | USER and clear the new table through the alias child. *)
(***************************************************************************)
EnsureLevel(st, parent, i, child) ==
  IF ~st.ok THEN st
  ELSE IF Faults(st.m, parent) THEN [st EXCEPT !.ok = FALSE, !.fault = TRUE]
  ELSE IF Rd(st.m, parent, i).p THEN st
  ELSE LET a == PmmAllocPage(st.bits)
           fr == a.r \div PAGE_SIZE
           m1 == Wr(st.m, parent, i, PTE(fr))
           st1 == [st EXCEPT !.m = m1, !.bits = a.bits, !.used = @ + 1,
                             !.tables = @ \cup {fr}]
       IN CASE a.r = 0 ->
                 [st EXCEPT !.ok = FALSE, !.bits = a.bits,
                            !.used = IF a.found THEN @ + 1 ELSE @]
            [] Faults(m1, child) -> [st1 EXCEPT !.ok = FALSE, !.fault = TRUE]
            [] OTHER -> [st1 EXCEPT !.m = Clear(m1, child)]

\* vmm_map_page(va, pa, PT_PRESENT | PT_WRITE): the three blocks, then
\* pt_table[pt_idx] = pa | flags through PT_VIRT_ADDR.
MapPage(va, pa) ==
  LET s0 == [ok |-> TRUE, fault |-> FALSE, m |-> mem, bits |-> bits,
             used |-> used_pages, tables |-> tables]
      s1 == EnsureLevel(s0, PML4_VIRT_ADDR, va[1], PDPT_VIRT_ADDR(va[1]))
      s2 == EnsureLevel(s1, PDPT_VIRT_ADDR(va[1]), va[2],
                        PD_VIRT_ADDR(va[1], va[2]))
      s3 == EnsureLevel(s2, PD_VIRT_ADDR(va[1], va[2]), va[3],
                        PT_VIRT_ADDR(va[1], va[2], va[3]))
      pt == PT_VIRT_ADDR(va[1], va[2], va[3])
      done == s3.ok /\ ~Faults(s3.m, pt)
  IN /\ ~fault
     /\ vops < MaxMaps
     /\ vops' = vops + 1
     /\ mem' = IF done THEN Wr(s3.m, pt, va[4], PTE(pa)) ELSE s3.m
     /\ fault' = (s3.fault \/ (s3.ok /\ Faults(s3.m, pt)))
     /\ bits' = s3.bits
     /\ used_pages' = s3.used
     /\ tables' = s3.tables
     /\ mapped' = IF done THEN [x \in DOMAIN mapped \cup {va} |->
                                  IF x = va THEN pa ELSE mapped[x]]
                          ELSE mapped
     /\ UNCHANGED <<phase, mmap, entry_i, total_memory, total_pages,
                    bitmap_size, pmm_bitmap, held, handed, ops, xlat>>

\* the alias through which the code reads level n of va's walk
Alias(va, n) ==
  CASE n = 1 -> PML4_VIRT_ADDR
    [] n = 2 -> PDPT_VIRT_ADDR(va[1])
    [] n = 3 -> PD_VIRT_ADDR(va[1], va[2])
    [] n = 4 -> PT_VIRT_ADDR(va[1], va[2], va[3])

(***************************************************************************)
(* The checks of levels 1 .. n that vmm_unmap_page and vmm_virt_to_phys    *)
(* make in order, "if (!(table[idx] & PT_PRESENT)) return": the first      *)
(* level whose alias faults or whose entry is not present decides.        *)
(***************************************************************************)
Probe(m, va, n) ==
  LET stop == {k \in 1 .. n : Faults(m, Alias(va, k))
                              \/ ~Rd(m, Alias(va, k), va[k]).p}
  IN IF stop = {} THEN "present"
     ELSE IF Faults(m, Alias(va, MinOf(stop))) THEN "fault" ELSE "absent"

\* vmm_unmap_page(va): return unless the PML4, PDPT and PD entries are
\* present, then pt_table[pt_idx] = 0 through PT_VIRT_ADDR.
UnmapPage(va) ==
  LET p == Probe(mem, va, 3)
      pt == Alias(va, 4)
      write == p = "present" /\ ~Faults(mem, pt)
  IN /\ ~fault
     /\ vops < MaxMaps
     /\ vops' = vops + 1
     /\ mem' = IF write THEN Wr(mem, pt, va[4], Zero) ELSE mem
     /\ fault' = (p = "fault" \/ (p = "present" /\ Faults(mem, pt)))
     /\ mapped' = [x \in DOMAIN mapped \ {va} |-> mapped[x]]
     /\ UNCHANGED <<tables, xlat>>

\* vmm_virt_to_phys(va): the frame, or 0 (here Fault) when a level is
\* not present; a faulting alias halts in exception_handler.
VirtToPhys(m, va) ==
  IF Probe(m, va, 4) = "present" THEN Rd(m, Alias(va, 4), va[4]).f ELSE Fault

\* A call of vmm_virt_to_phys(va): it returns its result or faults.
TranslatePage(va) ==
  /\ ~fault
  /\ vops < MaxMaps
  /\ vops' = vops + 1
  /\ fault' = (Probe(mem, va, 4) = "fault")
  /\ xlat' = IF fault' THEN xlat ELSE <<va, VirtToPhys(mem, va)>>
  /\ UNCHANGED <<mem, tables, mapped>>

-----------------------------------------------------------------------------
VmmTypeOK ==
  /\ tables \subseteq DOMAIN mem
  /\ fault \in BOOLEAN
  /\ vops \in 0 .. MaxMaps
  /\ \A va \in DOMAIN mapped : va \in VAs /\ mapped[va] \in PAs

\* spec.md 4.2 and 5: map_page, unmap_page and virt_to_phys return (out of
\* memory is their only failure), and virt_to_phys(v) = p after
\* map_page(v, p) until unmap_page(v).
VmmContract ==
  /\ ~fault
  /\ xlat # <<>> /\ xlat[1] \in DOMAIN mapped => xlat[2] = mapped[xlat[1]]

\* Every page table in a frame the PMM manages is marked used in the
\* bitmap, so pmm_alloc_page never hands out a live table.
TablesReserved ==
  phase = "ready" => tables \cap Pages \subseteq bits

====
