# TLA+ models of the zig-boot SMP kernel

This directory holds TLA+ models of the x86-64 SMP kernel in
`src/kernel/minimal_step9.c` and of the older modular kernel
(`src/kernel/main.c`, `smp.c`, `acpi.c`, `src/archive/old-modular/sync.c`),
the configurations that check them with TLC,
and `PROJECT.json`. That file lists the components, the runs, the mutants,
the source lines each definition models, the findings and the hazards.

## 1. The system

`kernel_main` runs on the bootstrap processor (BSP) and has these parts:

| Part | Code | State | Operations |
|---|---|---|---|
| Console | `serial_*`, `puts`, `print_*` | UART registers | byte output |
| Multiboot2 mmap | `parse_multiboot_mmap` | `total_memory`, region list | tag walk |
| PMM | `pmm_*` (1644-1830) | `pmm_bitmap`, `pmm_total_pages`, `pmm_used_pages` | mark free/used, alloc, free |
| VMM | `vmm_*` (1834-1966) | page tables, recursive PML4[511] | init, map, unmap, translate |
| Heap | `heap_init`, `kmalloc` (1970-2003) | `heap_start/current/end` | bump allocation |
| IDT / exceptions | `idt_init`, `idt_load`, `exception_handler` | `idt[256]`, each CPU's IDTR | vector dispatch |
| ACPI | `acpi_find_rsdp/madt`, `acpi_parse_madt` (1047-1134) | `cpu_count`, `cpu_apic_ids[]` | MADT enumeration |
| LAPIC | `apic_init`, `apic_timer_init`, `send_ipi`, `apic_wait_icr` | x2APIC/xAPIC registers | enable, IPI, timer, EOI |
| SMP bring-up | `setup_trampoline`, `boot_ap`, `boot_all_aps` (1291-1384) | trampoline patch slots, `cpus_online` | INIT-SIPI-SIPI per AP |
| AP entry | `ap_entry` (1459-1550) | `my_id`, per-CPU timer | id by `fetch_add`, LAPIC and timer setup, the tests |
| Barrier | `barrier_wait` (1392-1408) | `barrier_count`, `barrier_sense` | sense-reversing barrier |
| Parallel tests | `test_*` (1411-1456), report (2193-2282) | `per_cpu_counters`, `partial_sums`, `total_sum` | the three tests and the verdict |

The parts interact as follows:
- ACPI fixes `cpu_count` and the APIC IDs.
- The BSP boots each AP through a trampoline with *one* stack slot. It
  patches the slot and sends INIT, SIPI, SIPI.
- Each AP takes its id from `cpus_online` and then runs the same three
  tests as the BSP.
- All CPUs meet in `barrier_wait`, which opens at `cpu_count` arrivals.
- The BSP then reads everyone's results.

These behaviours are hard to test:
- the interleaving of the BSP's boot loop with APs that are still in the
  trampoline;
- the barrier's plain-store reset racing CPUs that re-enter it;
- an AP that never comes online;
- results read without a barrier;
- the numeric edges of the PMM, heap and MADT parsing.

## 2. Modules

| Module | Role | Models |
|---|---|---|
| `Barrier` | component | `barrier_wait`: `BarrierEnter` (sense read, 1393), `BarrierAdd` (atomic add and the last-arrival test, 1396-1398), `BarrierReset` (plain store, 1400), `BarrierFlip` (1401), `BarrierSpin` (the load that ends the loop, 1404). `bpc[c]` is the CPU's position in the function. |
| `BarrierSpec` | abstract spec | An episode in which nobody passes before everyone has arrived, and everyone passes once everyone has arrived. |
| `SmpBoot` | the core | The MADT parse, then the BSP and the APs from `boot_all_aps` through the tests, the timer interrupts and the report (see below). It also checks `RefinesBarrierSpec`: its four `barrier_wait` calls implement `BarrierSpec`, with `Barrier!AbsAt` mapping a CPU to "wait" from its entry until its barrier opens and `round` counting the barriers it has left. |
| `ModularSmp` | the old modular kernel | `kernel_main` of `main.c` with `acpi.c`, `smp.c` and `sync.c` (see below). |
| `MCModularSmp` | MC module | Its MADT: three enabled processors, APIC IDs 0, 2, 4, an I/O APIC entry, AP 4 slow. |
| `Pmm` | component | `parse_multiboot_mmap` (`ParseMmap`), `pmm_init` (`PmmInit`), `pmm_mark_free_regions` (`MarkFreeEntry` per mmap entry, `MarkKernelUsed`), `pmm_alloc_page` (`PmmAllocPage`, `Alloc`), `pmm_free_page` (`Free`). |
| `Vmm` | component on `Pmm` | `vmm_init` (`VmmSetup`), `vmm_map_page` (`MapPage`, one `EnsureLevel` per "Access/create" block), `vmm_unmap_page` (`UnmapPage`), `vmm_virt_to_phys` (`TranslatePage`). |
| `Heap` | component | `heap_init` (`HeapSetup`) and `kmalloc` (`Kmalloc`) in `Word`-bit arithmetic. |
| `MemBoot` | composition | `kernel_main` 2024-2036: the init calls in order, then callers of the frame, VMM and heap APIs in any order until an exception halts the BSP. |
| `MemMaps` | constants | Multiboot2 memory maps, scaled (`P` bytes per frame of the bitmap). |
| `MCPmm`, `MCMemBoot` | MC modules | The memory maps, the loader's page tables and the sizes TLC runs on. |
| `MCSmpBoot` | MC module | The MADTs the SMP runs use, built from Local APIC, I/O APIC and override entries. |

`Pmm` keeps the bitmap as the set `bits` of its 1-bits, with real byte
addresses and `PAGE_SIZE` 4096. The three loops of `pmm_mark_region_free`
(leading bits, whole bytes, trailing bits) are one set expression each, so
the tail loop that runs from the start of the byte is kept. `held` and
`handed` are the client's record of frames it holds and has given back.

`Vmm` keeps physical memory `mem` as frames of `K` entries (`K` = 4 in the
runs, a power of two like 512). A virtual address is the tuple of its
fields `<<hi, l4, l3, l2, l1>>`. The alias macros are the bitwise OR of
their terms field by field. `RecShl` gives the `int` shifts of
`RECURSIVE_INDEX` the value gcc builds:
- `511 << 39` is folded to 0;
- `511 << 30` overflows into the sign bit and sign-extends over bits 30-63.

`MmuWalk` is the processor's walk from CR3. It faults on a non-canonical
address (#GP, vector 13) or a not-present entry (#PF, vector 14).
`exception_handler` lets only vectors 3 and 255 return (`ExceptionHalts`),
so it halts on both, which `fault` records.

`SmpBoot` state and actions:

- Processors are named by their Local APIC ID. The machine's processors
  (`Procs`) are the enabled Local APIC entries of the constant `Madt`, read
  the way spec.md 4.1 reads them (`EnabledIds`). `BspApicId` is the one
  that runs `kernel_main`.
- ACPI:
  - `MadtWalk` is the loop of `acpi_parse_madt` (1103-1133), written as a
    RECURSIVE operator over the entries. It advances by each entry's length
    byte; a zero length never ends. `AddsCpu` is the type-0 and enabled-bit
    test. The count is not capped, but only the first `MaxCpus` IDs are
    stored.
  - `AcpiParse` is `cpu_count = acpi_parse_madt(madt)` (2090). The model
    starts once `acpi_find_rsdp` and `acpi_find_madt` have found the table.
- BSP boot (`pc[BSP]`, `bsp_i`, `ap_dest`):
  - `BootAllAps` is the `cpus_online = 1` at 1374.
  - `PatchStack` reads `apic_id = cpu_apic_ids[i]` into `ap_dest` and writes
    `ap_stacks[i]` into `stack_slot` (1327-1340). For `i >= MAX_CPUS` the
    read is past the array (`ApicIdAt`); it gives any processor's ID or
    one no processor answers to.
  - `SendIpi` acts on the processor whose APIC ID is `ap_dest`.
  - `SendInitAssert` (1343-1348) and `SendInitDeassert` (1350-1352).
  - `SendSipi1` (1354-1359) and `SendSipi2` (1361-1366). An AP in
    wait-for-SIPI starts the trampoline on the first SIPI.
  - `IdtInit` is `idt_init` (861-885), the BSP's first modelled step. It
    fills the shared `idt` (every gate to `pure_iretq_handler`, 0..31 to
    the exception stubs, `TIMER_VECTOR` to `timer_irq_stub`) and loads the
    BSP's `idtr`. A gate is kept as the handler it points to; its encoding
    is left out.
  - `NextAp` is the loop of 1377.
  - `BspStartTimer` covers 2104-2171.
- AP bring-up:
  - `Trampoline` loads the stack slot into `ap_stack[a]`. The trampoline
    source is not in `src/`, so this action is modelled from spec.md.
  - `ApEntry` is the `fetch_add` of 1461.
  - `ApSetup` covers 1463-1531. It begins with the AP's own `idt_load`
    (`IdtLoad`), and the AP's `idtr` is `"reset"` until then, because the
    trampoline has no `lidt`. The timer is armed only on the CPU with
    `my_id == 1`.
- Tests:
  - The work sequence is the same on every CPU: `t1, b1, t2, b2, rst, b3,
    t3a, b4, t3b`. The BSP then runs `report`.
  - Each counting loop is one step, because no other CPU reads the counter
    while it runs. The only reader is the report, and that reads the final
    value.
  - `DistributedSum` computes the range split of 1422-1429 and the atomic add
    of 1439. It uses a closed form for the sum of a range.
  - Every barrier uses the `Barrier` component instance.
- Timer and report:
  - `TimerInterrupt(c)` is `timer_interrupt_handler` on a CPU whose timer
    is armed. It adds the CPU's APIC ID to `timer_ticks` if that ID is
    below `MAX_CPUS`. Tick counts are kept only as zero or not zero, which
    is the difference the report draws.
  - `ReportResults` reads the counters and the sum (2193-2282).
    `ReportTicks` reads `timer_ticks[i]` for every CPU index `i`
    (2289-2325).

`ModularSmp` state and actions (the older kernel; names follow the code):

- `AcpiWalk` is `acpi_parse_madt`'s loop, capped at 16 CPUs, and
  `AcpiInit` is `acpi_init` plus `kernel_main`'s halt on zero CPUs.
  `SmpInit` is `smp_init` (the copy of the IDs and `cpus_booted = 1`).
- `smp_boot_aps` is `BootNext` (skip the BSP by APIC ID), `SendInitIpi`,
  `SendStartupIpi` (twice), `ReadBooted` (`initial_count`) and `WaitBoot`.
  The wait ends when `cpus_booted` moves. It may also time out, but only
  when the target is in `Slow` or has already counted itself before
  `initial_count` was read, because a healthy AP boots well within 1000 ms.
- `on_each_cpu` is `OecSetFunc`, `OecSetReady`, `OecResetFinished` (three
  plain stores, in code order), then `OecLoop`, `BspFinished`,
  `BspDecReady` and `OecWait`.
- `computation_task` is `TaskLock` (test-and-set of `spin_lock`), `TaskAdd`
  (the add and the unlock) and `TaskDone` (`cores_done++` and the
  "[Core n] Computation done" line, counted per CPU in `ran`).
  `shared_result` counts the per-CPU sums added.
- An AP: `Trampoline` (modelled from spec.md; the trampoline is not in
  `src/`), `ApBootComplete`, and the idle loop `ApCheckFunc`,
  `ApCheckReady`, `ApCall` (which loads `global_func` again and can call
  NULL), `ApFinished`, `ApDecReady`, `ApClearFunc`, then `hlt`. `ApWake`
  leaves `hlt`. No code of this kernel sends an AP an interrupt after
  boot, so `ApWake` has no fairness.
- `MainWait` and `Verdict` are `kernel_main`'s wait on `cores_done` and its
  SUCCESS/ERROR line.

## 3. Runs

| Run | cfg | Bounds | Checks |
|---|---|---|---|
| smp_boot_tests | `SmpBoot.cfg` | BSP + 2 APs (APIC IDs 0, 2, 4, with a disabled LAPIC 3), SUM_TARGET 10 | `TypeOK`, `TimerGateReady`, `SumCompleteAfterBarrier`, `PhasesSeparated`, `BootTargetsExact`, `AllHalt`, `RefinesBarrierSpec` |
| smp_shared_stack | `SmpStacks.cfg` | BSP + 2 APs (APIC IDs 0, 2, 4) | `StacksNotShared`: **violated** |
| smp_early_report | `SmpReport.cfg` | BSP + 2 APs (APIC IDs 0, 2, 4) | `ReportFaithful`: **violated** |
| smp_dead_ap | `SmpDeadAp.cfg` | BSP + 2 APs, AP 4 dead | `BspFinishes`: **violated** |
| smp_madt_over_cap | `SmpMadtOver.cfg` | 3 processors, `MAX_CPUS` scaled to 2 | `BootTargetsExact`: **violated** |
| pmm_small_hole | `PmmSmallHole.cfg` | an Available region inside one bitmap byte | `FreeFramesAvailable`: **violated** |
| pmm_frame_zero | `PmmFrameZero.cfg` | QEMU-shaped map, 2 calls | `NoLeakedFrames`: **violated** |
| mem_boot | `MemBoot.cfg` | 3 maps, 3 frame calls, 2 VMM calls, 2 kmallocs | `MemTypeOK`, `UsedPagesCount`, `FreeFramesAvailable`, `HeldFramesUsed`, `HeapBlocksDisjoint`, `TablesReserved`, `RecursiveMapIntact` |
| heap_spurious_oom | `HeapOom.cfg` | sizes 0, 16, 17, 48, 3 calls, 64-byte window | `HeapNoSpuriousOom`: **violated** |
| heap_frames_overlap | `HeapFrames.cfg` | QEMU-shaped map, 11 frame calls | `FramesAndHeapDisjoint`: **violated** |
| vmm_map_faults | `VmmFault.cfg` | 2 VMM calls | `VmmContract`: **violated** |
| modular_smp_success | `ModularSmp.cfg` | BSP + 2 APs (APIC IDs 0, 2, 4), AP 4 slow | `AllCpusComputed`: **violated** |

What the runs show:
- **Barrier refinement.** The four barrier episodes of `smp_boot_tests`
  let a CPU re-enter the barrier while the last arriver of the previous
  episode has not yet reset the count or flipped the sense.
  `RefinesBarrierSpec` shows that nobody passes early in that case either.
- **Sum and phases.** With 3 CPUs and SUM_TARGET 10, the range split has a
  remainder: each CPU gets 10 / 3 = 3 terms, and the last CPU takes 7..10. The sum is complete
  after barrier b2. No CPU reaches phase 2 of test 3 while another is still
  before barrier b4.
- **Boot targets.** The pass MADT has sparse APIC IDs, a disabled Local APIC
  and non-LAPIC entries. `boot_ap(i)` still sends INIT-SIPI-SIPI to the
  i-th enabled processor, never to the BSP, with a stack inside
  `ap_stacks[]`. The property rests on two assumptions of the code: the BSP
  is MADT entry 0, and the count stays within `MAX_CPUS`. A MADT that lists
  the BSP second violates it at once: `boot_ap(1)` sends INIT to the BSP.
  Mutating the enabled-bit test violates it too.
- **Run size.** A fourth processor multiplies the state space by about 50,
  to 760,000 states. With the two liveness properties, that run takes more
  than 6 minutes. Three processors keep every case the properties are
  about: barrier re-entry, the remainder of the range split, sparse IDs and
  a disabled entry.
- **Interrupt gates.** `TimerGateReady`: every CPU with its timer armed
  and interrupts on has its IDTR on the kernel's `idt`, whose timer gate
  is `timer_irq_stub` and whose spurious gate (255) is present. It holds
  because the BSP fills the table before it starts any AP, and each AP
  runs its own `idt_load` before `sti` (1467). If an AP skips that load,
  its first tick goes through the reset IDTR, and the mutant that drops
  the load breaks the property.
- **Findings.** The SMP violation runs reproduce the findings in
  `PROJECT.json`:
  - the shared trampoline stack slot (1337);
  - the test-3 counters, read and judged with no barrier after phase 2
    (2261);
  - the MADT count, which is not capped at `MAX_CPUS`: `boot_ap(MAX_CPUS)`
    reads an APIC ID and patches a stack past both arrays (1132);
  - the barrier that hangs when an AP is missing, because it counts
    `cpu_count` and not `cpus_online` (1397).

- **Old modular kernel.** `modular_smp_success` shows `kernel_main`
  printing "[SUCCESS] All APs booted and functional!" when only the BSP
  ran `computation_task`. `on_each_cpu` runs the function on the BSP
  whenever `cpus_ready > 0`, up to `cpu_count` times, and the halted APs
  need not wake. The success test compares the sum only (`smp.c:170`,
  `main.c:109`). Exploring the same model also reaches two more
  failures. Both are listed as hazards, because the run budget leaves
  no slot to check them:
  - an AP that calls a NULL `global_func` reloaded after another AP
    cleared it (`smp.c:194`);
  - a BSP that spins forever, because `cpus_finished = 0` overwrote an
    AP's increment (`smp.c:166`).

- **Memory.** The pass maps were chosen so that the interesting cases happen:
  - a QEMU-shaped map, with an end that is not byte-aligned and low frames free;
  - a capped map, with reserved low frames and a region past `MemCap`;
  - a two-frame map, where `vmm_map_page` runs out of memory.

  On all three, the bitmap count stays exact under double frees, and the
  page-table frames stay marked. The recursive self-map survives because
  the folded shifts happen to give the right PML4 alias.
- **Memory findings.** The memory violation runs show:
  - the tail loop of `pmm_mark_region_free` frees frames before a region
    that starts and ends in one bitmap byte (1735);
  - frame 0, returned as 0, is leaked as an out-of-memory result (1818);
  - `kmalloc` refuses an exact fit and stays failed after one failure
    (1997);
  - the heap window after the bitmap is never marked used, so
    `pmm_alloc_page` hands out frames inside it (1974);
  - `PT_VIRT_ADDR` is non-canonical as built, so every `vmm_map_page`
    faults (43).

Every property of a passing run has a mutant in `PROJECT.json`. A mutant is
a seeded fault defined next to the definition it replaces, and it makes TLC
find the property violated.

## 4. Fairness and deadlock

- Each CPU is a physical processor that keeps executing. The specs assume
  weak fairness per CPU (`WF_vars(CpuStep(c))`) and nothing else.
- A spinning CPU is enabled only once the sense has flipped, so weak
  fairness is enough.
- A timer interrupt is weakly fair on each CPU. `apic_timer_init`
  programs the LAPIC timer in periodic mode, and interrupts stay enabled
  from `sti` on, `hlt` included. So an armed timer keeps firing. No
  property is stated on the ticks: given that fairness, "an armed CPU
  gets ticks" would follow from the one assignment of the handler.
  `timer_ticks[]` is indexed by APIC ID, as spec.md asks. The report
  prints it by CPU index, which differs on sparse IDs; the code comment at
  626 states that assumption, so it is listed as a hazard, not a finding.
- In `ModularSmp`, the BSP, every running AP and `computation_task` are
  weakly fair, but leaving `hlt` (`ApWake`) is not, because no code of
  that kernel sends an AP an interrupt after boot. Its one run checks an
  invariant, so the fairness is there only to keep the spec honest.
- The kernel ends every CPU in `while (1) hlt`, so a final state is the
  expected end. The cfgs therefore say `CHECK_DEADLOCK FALSE`, and
  termination is checked as the liveness property `AllHalt`.

## 5. Not modelled yet, and the plan

Bounds and fairness of the memory runs:
- The memory model is sequential on the BSP. It needs no fairness, and it
  has no liveness property.
- The bounds are counts of calls. Three frame calls are enough for a
  double free after a reuse; two VMM calls are enough because the first
  map faults.

The plan is in order of importance:

1. **Apic.** The ICR with a pending bit, and `apic_wait_icr`'s timeout
   (1269). The timeout gives up silently, and the next `send_ipi`
   overwrites an IPI that is still pending.
2. **Old modular kernel.** Liveness of `on_each_cpu` (`smp.c:166`) and the
   NULL call (`smp.c:194`), which need run slots of their own; the shared
   AP stack (`main.c:76`), which needs stacks and boot timing in the model.

Some parts will stay unmodelled:
- the console and VGA, which are output only;
- the byte-level checksum and signature scans of ACPI (`acpi_find_rsdp`,
  `acpi_find_madt`) and Multiboot. `acpi_find_madt` reads XSDT entries as
  32-bit, and it does not validate the MADT's checksum. Both are sequential
  reads of firmware memory, which a unit test with a crafted table reaches;
- the naked interrupt stubs, and the bit layout of a gate (offset halves,
  selector, type 0x8E): a gate is modelled as the handler it names;
- the TLB: the code flushes with `invlpg` after each write, and no alias is
  cached before it is first written;
- the near-duplicate earlier kernel steps (`minimal_step3.c`, `minimal_step4.c`,
  `minimal_step6.c` and `minimal_step8.c`). These are earlier stages of
  `minimal_step9.c`, and their SMP, memory and ACPI code is the same
  design as what is modelled;
- in the old modular kernel, the RSDP/RSDT byte scans of `acpi.c` and the
  LAPIC enable sequence of `smp_init`, which are sequential register and
  memory accesses.
