------------------------------ MODULE SmpBoot ------------------------------
(***************************************************************************)
(* SMP bring-up and the parallel tests of src/kernel/minimal_step9.c.      *)
(*                                                                         *)
(* A processor is named by its Local APIC ID.  kernel_main() walks the     *)
(* MADT (acpi_parse_madt) into cpu_apic_ids[] and cpu_count; the BSP then  *)
(* runs boot_all_aps(): for each index i in 1..cpu_count-1 it reads        *)
(* cpu_apic_ids[i], patches the single stack slot of the trampoline with   *)
(* ap_stacks[i], then sends INIT, INIT de-assert, SIPI, SIPI to that APIC  *)
(* ID, without waiting for the AP.  An AP started by a SIPI runs the       *)
(* trampoline (which loads the stack slot), then ap_entry(): it takes its  *)
(* id from cpus_online, sets up IDT/APIC/timer, and runs the three tests   *)
(* with the BSP, separated by barrier_wait().  The BSP finally prints      *)
(* every CPU's counters, the sum, and the timer ticks of every CPU.        *)
(*                                                                         *)
(* A loop of 500000 increments of per_cpu_counters[id] is one step adding  *)
(* one unit; delays and busy-wait loops are not synchronisation and are    *)
(* left out (they only bound how fast the BSP goes on).  A timer tick      *)
(* count is kept only as zero or not zero, the distinction the report      *)
(* draws.                                                                  *)
(***************************************************************************)
EXTENDS Integers, Sequences, FiniteSets

CONSTANTS
  Madt,        \* the MADT's interrupt controller entries, in table order:
               \* [type, len, id, flags] (type 0 is a Local APIC)
  BspApicId,   \* the APIC ID of the processor that runs kernel_main()
  MaxCpus,     \* MAX_CPUS: the length of cpu_apic_ids[], ap_stacks[], ...
  NoCpu,       \* an APIC ID no processor answers to
  SumTarget,   \* SUM_TARGET of test_distributed_sum()
  Broken       \* APs that never react to INIT/SIPI (spec: APNotOnline)

None == -1          \* the null stack pointer setup_trampoline() writes

\* The MADT as the specification reads it (spec.md 4.1): the APIC IDs of
\* the enabled Local APIC entries, in table order.  These are the
\* processors of the machine.
RefIds(m) ==
  LET lapics == SelectSeq(m, LAMBDA e : e.type = 0 /\ e.flags % 2 = 1)
  IN  [k \in 1 .. Len(lapics) |-> lapics[k].id]
EnabledIds == RefIds(Madt)
Procs == {EnabledIds[k] : k \in DOMAIN EnabledIds}
BSP   == BspApicId
APs   == Procs \ {BSP}

ASSUME BSP \in Procs /\ Broken \subseteq APs /\ NoCpu \notin Procs

-----------------------------------------------------------------------------
(* acpi_parse_madt() *)

\* Seeded fault for mutation analysis: the enabled flag is not tested.
AddsCpuAnyFlags(e) == e.type = 0

\* if (type == 0) ... if (lapic->flags & 0x1)
AddsCpu(e) == e.type = 0 /\ e.flags % 2 = 1

\* The walk over the entries by their length byte.  It returns the count
\* (not capped), cpu_apic_ids[] (only the first MAX_CPUS are stored), and
\* whether it never ends: ptr += 0 stays on a zero-length entry.
RECURSIVE MadtWalk(_, _)
MadtWalk(es, acc) ==
  IF es = <<>> THEN acc
  ELSE LET e == Head(es) IN
       IF e.len = 0 THEN [acc EXCEPT !.hang = TRUE]
       ELSE MadtWalk(Tail(es),
              IF ~AddsCpu(e) THEN acc
              ELSE [acc EXCEPT !.count = @ + 1,
                               !.ids = IF acc.count < MaxCpus
                                       THEN Append(@, e.id) ELSE @])

Parsed == MadtWalk(Madt, [count |-> 0, ids |-> <<>>, hang |-> FALSE])

\* cpu_count as the barrier sees it once kernel_main() has parsed the MADT
NumCpus == Parsed.count
Ids == 0 .. NumCpus - 1     \* the ids CPUs run the tests with

HalfCount == 1      \* 500000 increments
FullCount == 2      \* 1000000 increments

VARIABLES
  pc,              \* per CPU: where it is in kernel_main()/ap_entry()
  cpu_count,
  cpu_apic_ids,
  bsp_i,           \* loop index i of boot_all_aps()
  ap_dest,         \* apic_id, the local of boot_ap(i)
  stack_slot,      \* trampoline slot at end-16: the index i of the ap_stacks[] top it holds
  ap_stack,        \* per AP: the ap_stacks[] index it loaded in the trampoline
  cpus_online,
  my_id,           \* per CPU: the id the CPU runs the tests with
  timer_on,        \* per CPU: LAPIC timer armed and interrupts enabled
  idt,             \* the shared idt[256]: the handler each gate points to
  idtr,            \* per CPU: the table its IDTR register points to
  timer_ticks,     \* the APIC IDs whose timer_ticks[] entry is not zero
  per_cpu_counters,
  partial_sums,
  total_sum,
  report,          \* what kernel_main() reads to print the results
  barrier_count, barrier_sense, my_sense, bpc

bootVars == <<pc, cpu_count, cpu_apic_ids, bsp_i, ap_dest, stack_slot, ap_stack,
              cpus_online, my_id, timer_on, idt, idtr>>
testVars == <<per_cpu_counters, partial_sums, total_sum, report, timer_ticks>>
\* everything but pc of bootVars
cpuVars  == <<cpu_count, cpu_apic_ids, bsp_i, ap_dest, stack_slot, ap_stack,
              cpus_online, my_id, timer_on, idt, idtr>>
barVars  == <<barrier_count, barrier_sense, my_sense, bpc>>
vars == <<bootVars, testVars, barVars>>

Bar == INSTANCE Barrier WITH CPU <- Procs, cpu_count <- NumCpus

TIMER_VECTOR    == 32     \* the LVT timer vector apic_timer_init() programs
SPURIOUS_VECTOR == 255    \* the SVR vector of the LAPIC enable
Vectors == 0 .. 255

NoReport == [counters |-> <<>>, sum |-> 0, ticks |-> <<>>]

(***************************************************************************)
(* Program counters.  Work is the part of ap_entry() and kernel_main() the *)
(* two share, in program order; "b1".."b4" are the four barrier_wait()     *)
(* calls.                                                                  *)
(***************************************************************************)
BootPcs == {"idt", "acpi", "madt_loop", "boot", "patch", "init", "deassert", "sipi1",
            "sipi2", "started"}
ApPcs   == {"dead", "wfs", "reset", "tramp", "entry", "setup"}
Work == <<"t1", "b1", "t2", "b2", "rst", "b3", "t3a", "b4", "t3b", "report", "ticks", "halt">>
BarrierPcs == {"b1", "b2", "b3", "b4"}

Pos(p) == CHOOSE k \in 1 .. Len(Work) : Work[k] = p
InWork(c) == pc[c] \in {Work[k] : k \in 1 .. Len(Work)}
\* CPU c has returned from barrier_wait() call b
PastBarrier(c, b) == InWork(c) /\ Pos(pc[c]) > Pos(b)

Move(c, to) == pc' = [pc EXCEPT ![c] = to]

(***************************************************************************)
(* Initial state: kernel_main() is about to call idt_init(); the ACPI     *)
(* search that follows it (acpi_find_rsdp, acpi_find_madt) is taken to     *)
(* find the MADT, which AcpiParse then walks; setup_trampoline() will have *)
(* written the null stack slot before boot_all_aps().  APs wait for a      *)
(* SIPI; broken ones never react.  The static idt[] is all zero (no gate  *)
(* present); the BSP's IDTR still points to the bootloader's table and an  *)
(* AP's holds its reset value, as the trampoline has no lidt.              *)
(***************************************************************************)
Init ==
  /\ pc = [c \in Procs |-> IF c = BSP THEN "idt"
                           ELSE IF c \in Broken THEN "dead" ELSE "wfs"]
  /\ cpu_count = 0
  /\ cpu_apic_ids = <<>>
  /\ bsp_i = 1
  /\ ap_dest = NoCpu
  /\ stack_slot = None
  /\ ap_stack = [c \in Procs |-> None]
  /\ cpus_online = 0
  /\ my_id = [c \in Procs |-> IF c = BSP THEN 0 ELSE None]
  /\ timer_on = [c \in Procs |-> FALSE]
  /\ idt = [v \in Vectors |-> "absent"]
  /\ idtr = [c \in Procs |-> IF c = BSP THEN "loader" ELSE "reset"]
  /\ timer_ticks = {}
  /\ per_cpu_counters = [i \in Ids |-> 0]
  /\ partial_sums = [i \in Ids |-> 0]
  /\ total_sum = 0
  /\ report = NoReport
  /\ Bar!BarrierInit

\* idt_load(): lidt of the kernel's idtr on CPU c
IdtLoad(c) == idtr' = [idtr EXCEPT ![c] = "kernel"]

\* idt_init(): every gate to pure_iretq_handler, gates 0..31 to the
\* exception stubs, gate TIMER_VECTOR to timer_irq_stub (each through
\* idt_set_gate), then idtr and idt_load() on the BSP
IdtInit ==
  /\ pc[BSP] = "idt"
  /\ idt' = [v \in Vectors |-> CASE v < 32          -> "exception_stub"
                                 [] v = TIMER_VECTOR -> "timer_irq_stub"
                                 [] OTHER            -> "pure_iretq_handler"]
  /\ IdtLoad(BSP)
  /\ Move(BSP, "acpi")
  /\ UNCHANGED <<cpu_count, cpu_apic_ids, bsp_i, ap_dest, stack_slot, ap_stack, cpus_online, my_id, timer_on>>

\* cpu_count = acpi_parse_madt(madt); a walk that never ends leaves the BSP
\* in the loop
AcpiParse ==
  /\ pc[BSP] = "acpi"
  /\ cpu_count' = Parsed.count
  /\ cpu_apic_ids' = Parsed.ids
  /\ Move(BSP, IF Parsed.hang THEN "madt_loop" ELSE "boot")
  /\ UNCHANGED <<bsp_i, ap_dest, stack_slot, ap_stack, cpus_online, my_id, timer_on, idt, idtr>>

-----------------------------------------------------------------------------
(* BSP: boot_all_aps() and boot_ap(i) *)

LoopVars == <<cpu_count, cpu_apic_ids>>

\* Seeded fault for mutation analysis: "cpus_online = 1" forgotten.
BootAllApsNoBsp ==
  /\ pc[BSP] = "boot"
  /\ bsp_i' = 1
  /\ Move(BSP, IF 1 < cpu_count THEN "patch" ELSE "started")
  /\ UNCHANGED <<LoopVars, ap_dest, stack_slot, ap_stack, cpus_online, my_id, timer_on, idt, idtr>>

\* cpus_online = 1; for (int i = 1; i < cpu_count; i++) boot_ap(i);
BootAllAps ==
  /\ pc[BSP] = "boot"
  /\ cpus_online' = 1
  /\ bsp_i' = 1
  /\ Move(BSP, IF 1 < cpu_count THEN "patch" ELSE "started")
  /\ UNCHANGED <<LoopVars, ap_dest, stack_slot, ap_stack, my_id, timer_on, idt, idtr>>

\* apic_id = cpu_apic_ids[cpu_idx]: an index at or past MAX_CPUS reads
\* past the array, a byte the model does not know
ApicIdAt(i) ==
  IF i < MaxCpus THEN {cpu_apic_ids[i + 1]} ELSE Procs \cup {NoCpu}

\* apic_id = cpu_apic_ids[cpu_idx];
\* *stack_ptr = &ap_stacks[cpu_idx][AP_STACK_SIZE]; wbinvd
PatchStack ==
  /\ pc[BSP] = "patch"
  /\ \E id \in ApicIdAt(bsp_i) : ap_dest' = id
  /\ stack_slot' = bsp_i
  /\ Move(BSP, "init")
  /\ UNCHANGED <<LoopVars, bsp_i, ap_stack, cpus_online, my_id, timer_on, idt, idtr>>

\* send_ipi(apic_id, flags): the processor with that APIC ID moves from
\* `from` to `to` if it is in state `from`; in any other state, or if no
\* processor has the ID, the IPI has no effect on it.  The BSP goes on to
\* `next` whether or not the AP reacted.
SendIpi(from, to, next) ==
  IF ap_dest \in APs /\ pc[ap_dest] = from
  THEN pc' = [pc EXCEPT ![BSP] = next, ![ap_dest] = to]
  ELSE Move(BSP, next)

IpiUnchanged == UNCHANGED <<LoopVars, bsp_i, ap_dest, stack_slot, ap_stack,
                            cpus_online, my_id, timer_on, idt, idtr>>

\* INIT assert (LevelTrig | Assert | INIT), wait, mdelay(10)
SendInitAssert ==
  /\ pc[BSP] = "init"
  /\ SendIpi("wfs", "reset", "deassert")
  /\ IpiUnchanged

\* INIT de-assert (LevelTrig | INIT), wait
SendInitDeassert ==
  /\ pc[BSP] = "deassert"
  /\ SendIpi("reset", "wfs", "sipi1")
  /\ IpiUnchanged

\* SIPI #1 (STARTUP | 0x08), wait, udelay(200)
SendSipi1 ==
  /\ pc[BSP] = "sipi1"
  /\ SendIpi("wfs", "tramp", "sipi2")
  /\ IpiUnchanged

\* Seeded fault for mutation analysis: the loop stops one AP early.
NextApShort(i) == IF i + 1 < cpu_count - 1 THEN "patch" ELSE "started"

\* Next iteration of the loop of boot_all_aps()
NextAp(i) == IF i + 1 < cpu_count THEN "patch" ELSE "started"

\* SIPI #2, wait, udelay(200); boot_ap() returns, the loop goes on
SendSipi2 ==
  /\ pc[BSP] = "sipi2"
  /\ SendIpi("wfs", "tramp", NextAp(bsp_i))
  /\ bsp_i' = bsp_i + 1
  /\ UNCHANGED <<LoopVars, ap_dest, stack_slot, ap_stack, cpus_online, my_id, timer_on, idt, idtr>>

\* kernel_main() after boot_all_aps(): the fixed busy wait, the online
\* count is only printed, sti, apic_timer_init() on the BSP, another busy
\* wait, then the tests.
BspStartTimer ==
  /\ pc[BSP] = "started"
  /\ timer_on' = [timer_on EXCEPT ![BSP] = TRUE]
  /\ Move(BSP, "t1")
  /\ UNCHANGED <<LoopVars, bsp_i, ap_dest, stack_slot, ap_stack, cpus_online, my_id, idt, idtr>>

-----------------------------------------------------------------------------
(* AP: trampoline and ap_entry() *)

\* The trampoline (trampoline.S) loads CR3, the stack slot and the entry
\* address from the patch block and jumps to ap_entry().
Trampoline(a) ==
  /\ pc[a] = "tramp"
  /\ ap_stack' = [ap_stack EXCEPT ![a] = stack_slot]
  /\ Move(a, "entry")
  /\ UNCHANGED <<LoopVars, bsp_i, ap_dest, stack_slot, cpus_online, my_id, timer_on, idt, idtr>>

\* my_id = __atomic_fetch_add(&cpus_online, 1)
ApEntry(a) ==
  /\ pc[a] = "entry"
  /\ my_id' = [my_id EXCEPT ![a] = cpus_online]
  /\ cpus_online' = cpus_online + 1
  /\ Move(a, "setup")
  /\ UNCHANGED <<LoopVars, bsp_i, ap_dest, stack_slot, ap_stack, timer_on, idt, idtr>>

\* Seeded fault for mutation analysis: the AP's idt_load() left out.
ApSetupNoIdtLoad(a) ==
  /\ pc[a] = "setup"
  /\ timer_on' = [timer_on EXCEPT ![a] = (my_id[a] = 1)]
  /\ Move(a, "t1")
  /\ UNCHANGED <<LoopVars, bsp_i, ap_dest, stack_slot, ap_stack, cpus_online, my_id, idt, idtr>>

\* idt_load(); enable the LAPIC; busy wait; if (my_id == 1)
\* apic_timer_init(); sti
ApSetup(a) ==
  /\ pc[a] = "setup"
  /\ IdtLoad(a)
  /\ timer_on' = [timer_on EXCEPT ![a] = (my_id[a] = 1)]
  /\ Move(a, "t1")
  /\ UNCHANGED <<LoopVars, bsp_i, ap_dest, stack_slot, ap_stack, cpus_online, my_id, idt>>

-----------------------------------------------------------------------------
(* The tests, run by the BSP (id 0) and by every AP *)

\* test_distributed_sum(): the range [start, end] of cpu_id
PerCpuWork == SumTarget \div NumCpus
RangeStart(id) == id * PerCpuWork + 1
RangeEnd(id) == IF id = NumCpus - 1 THEN SumTarget ELSE (id + 1) * PerCpuWork
\* for (i = start; i <= end; i++) local_sum += i;
LocalSum(id) ==
  (RangeEnd(id) * (RangeEnd(id) + 1) - (RangeStart(id) - 1) * RangeStart(id)) \div 2

AddCount(id, n) ==
  per_cpu_counters' = [per_cpu_counters EXCEPT ![id] = @ + n]

\* test_parallel_counters(my_id); then call barrier_wait()
ParallelCounters(c) ==
  /\ pc[c] = "t1"
  /\ AddCount(my_id[c], FullCount)
  /\ Move(c, "b1")
  /\ UNCHANGED <<partial_sums, total_sum, report, timer_ticks>>

\* partial_sums[cpu_id] = local_sum; __atomic_add_fetch(&total_sum, local_sum)
DistributedSum(c) ==
  /\ pc[c] = "t2"
  /\ partial_sums' = [partial_sums EXCEPT ![my_id[c]] = LocalSum(my_id[c])]
  /\ total_sum' = total_sum + LocalSum(my_id[c])
  /\ Move(c, "b2")
  /\ UNCHANGED <<per_cpu_counters, report, timer_ticks>>

\* Seeded fault for mutation analysis: the reset before test 3 forgotten.
ResetCounterSkipped(c) ==
  /\ pc[c] = "rst"
  /\ Move(c, "b3")
  /\ UNCHANGED <<per_cpu_counters, partial_sums, total_sum, report, timer_ticks>>

\* per_cpu_counters[my_id] = 0;
ResetCounter(c) ==
  /\ pc[c] = "rst"
  /\ per_cpu_counters' = [per_cpu_counters EXCEPT ![my_id[c]] = 0]
  /\ Move(c, "b3")
  /\ UNCHANGED <<partial_sums, total_sum, report, timer_ticks>>

\* test_barrier_sync(), phase 1: count to 500k, then barrier_wait()
SyncPhase1(c) ==
  /\ pc[c] = "t3a"
  /\ AddCount(my_id[c], HalfCount)
  /\ Move(c, "b4")
  /\ UNCHANGED <<partial_sums, total_sum, report, timer_ticks>>

\* Seeded fault for mutation analysis: phase 2 counts from 0, not 500000.
SyncPhase2FromZero(c) ==
  /\ pc[c] = "t3b"
  /\ AddCount(my_id[c], FullCount)
  /\ Move(c, IF c = BSP THEN "report" ELSE "halt")
  /\ UNCHANGED <<partial_sums, total_sum, report, timer_ticks>>

\* test_barrier_sync(), phase 2: count to 1M; the AP halts, the BSP goes
\* on to print the results
SyncPhase2(c) ==
  /\ pc[c] = "t3b"
  /\ AddCount(my_id[c], HalfCount)
  /\ Move(c, IF c = BSP THEN "report" ELSE "halt")
  /\ UNCHANGED <<partial_sums, total_sum, report, timer_ticks>>

\* The BSP prints per_cpu_counters[i] for i < cpu_count and total_sum.
ReportResults ==
  /\ pc[BSP] = "report"
  /\ report' = [report EXCEPT !.counters = per_cpu_counters, !.sum = total_sum]
  /\ Move(BSP, "ticks")
  /\ UNCHANGED <<per_cpu_counters, partial_sums, total_sum, timer_ticks>>

\* After a 2 s busy wait the BSP prints timer_ticks[i] for i < cpu_count
\* ("CPU i: n ticks"), then halts.
ReportTicks ==
  /\ pc[BSP] = "ticks"
  /\ report' = [report EXCEPT !.ticks = [i \in Ids |-> i \in timer_ticks]]
  /\ Move(BSP, "halt")
  /\ UNCHANGED <<per_cpu_counters, partial_sums, total_sum, timer_ticks>>

\* timer_interrupt_handler() on CPU c: global_timer_calls++, read the own
\* APIC ID, if (apic_id < MAX_CPUS) timer_ticks[apic_id]++, send_eoi().
\* The LAPIC timer fires whatever the CPU is doing, halted included.
TimerInterrupt(c) ==
  /\ timer_on[c]
  /\ timer_ticks' = IF c < MaxCpus THEN timer_ticks \cup {c} ELSE timer_ticks
  /\ UNCHANGED <<pc, cpuVars, per_cpu_counters, partial_sums, total_sum, report, barVars>>

\* The statement after barrier call b
AfterBarrier(b) == Work[Pos(b) + 1]

\* barrier_wait(my_id): entry, its steps, and its return to the caller
BarrierCall(c) ==
  /\ pc[c] \in BarrierPcs
  /\ Bar!BarrierEnter(c)
  /\ UNCHANGED <<bootVars, testVars>>

BarrierInside(c) ==
  /\ pc[c] \in BarrierPcs
  /\ Bar!BarrierStep(c)
  /\ UNCHANGED <<bootVars, testVars>>

BarrierReturn(c) ==
  /\ pc[c] \in BarrierPcs
  /\ bpc[c] = "out"
  /\ bpc' = [bpc EXCEPT ![c] = "idle"]
  /\ Move(c, AfterBarrier(pc[c]))
  /\ UNCHANGED <<cpuVars, testVars, barrier_count, barrier_sense, my_sense>>

-----------------------------------------------------------------------------
BootStep ==
  \/ IdtInit
  \/ AcpiParse
  \/ BootAllAps
  \/ PatchStack
  \/ SendInitAssert
  \/ SendInitDeassert
  \/ SendSipi1
  \/ SendSipi2
  \/ BspStartTimer

ApBoot(a) == Trampoline(a) \/ ApEntry(a) \/ ApSetup(a)

TestStep(c) ==
  \/ /\ \/ ParallelCounters(c)
        \/ DistributedSum(c)
        \/ ResetCounter(c)
        \/ SyncPhase1(c)
        \/ SyncPhase2(c)
     /\ UNCHANGED <<cpuVars, barVars>>
  \/ BarrierCall(c)
  \/ BarrierInside(c)
  \/ BarrierReturn(c)

BspReport ==
  /\ ReportResults \/ ReportTicks
  /\ UNCHANGED <<cpuVars, barVars>>

BspStep ==
  \/ BootStep /\ UNCHANGED <<testVars, barVars>>
  \/ BspReport

CpuStep(c) ==
  \/ c = BSP /\ BspStep
  \/ c # BSP /\ ApBoot(c) /\ UNCHANGED <<testVars, barVars>>
  \/ TestStep(c)

Next == \E c \in Procs : CpuStep(c) \/ TimerInterrupt(c)

\* Every CPU is a physical processor with no scheduler: once started it
\* keeps executing, so each one is weakly fair.  An armed LAPIC timer is
\* periodic (apic_timer_init programs periodic mode) and interrupts are
\* enabled from then on, the halted loop included, so a CPU whose timer is
\* armed keeps taking interrupts: TimerInterrupt is weakly fair too.
Spec == /\ Init /\ [][Next]_vars
        /\ \A c \in Procs : WF_vars(CpuStep(c)) /\ WF_vars(TimerInterrupt(c))

-----------------------------------------------------------------------------
(* Properties *)

TypeOK ==
  /\ pc \in [Procs -> BootPcs \cup ApPcs \cup {Work[k] : k \in 1 .. Len(Work)}]
  /\ cpu_count \in {0, NumCpus}
  /\ cpu_apic_ids \in Seq(Procs)
  /\ bsp_i \in 1 .. NumCpus
  /\ ap_dest \in Procs \cup {NoCpu}
  /\ stack_slot \in {None} \cup 1 .. NumCpus - 1
  /\ ap_stack \in [Procs -> {None} \cup 1 .. NumCpus - 1]
  /\ cpus_online \in 0 .. NumCpus
  /\ my_id \in [Procs -> {None} \cup Ids]
  /\ timer_on \in [Procs -> BOOLEAN]
  /\ idt \in [Vectors -> {"absent", "exception_stub", "timer_irq_stub", "pure_iretq_handler"}]
  /\ idtr \in [Procs -> {"loader", "reset", "kernel"}]
  /\ timer_ticks \subseteq Procs
  /\ per_cpu_counters \in [Ids -> 0 .. FullCount]
  /\ partial_sums \in [Ids -> Nat]
  /\ total_sum \in Nat
  /\ report \in [counters : [Ids -> 0 .. FullCount] \cup {<<>>}, sum : Nat,
                 ticks : [Ids -> BOOLEAN] \cup {<<>>}]
  /\ Bar!BarrierTypeOK

\* A CPU that has armed its LAPIC timer and executed sti has its IDTR on
\* the kernel's idt[], whose gate TIMER_VECTOR is timer_irq_stub and whose
\* gate SPURIOUS_VECTOR is present: otherwise the first tick (or a
\* spurious interrupt of the LAPIC just enabled) goes through the reset
\* IDTR or an absent gate and triple-faults the CPU.  It needs the BSP's
\* idt_init() to have filled the shared table before any AP is started,
\* and every AP's own idt_load() in ap_entry() before its sti.
TimerGateReady ==
  \A c \in Procs :
    timer_on[c] => /\ idtr[c] = "kernel"
                   /\ idt[TIMER_VECTOR] = "timer_irq_stub"
                   /\ idt[SPURIOUS_VECTOR] # "absent"

\* Test 2: once any CPU has returned from the barrier after
\* test_distributed_sum(), total_sum holds 1 + 2 + ... + SUM_TARGET.  It
\* needs every CPU to have come online with an id of its own in
\* 0..cpu_count-1 (the BSP's hard-coded 0 and the APs' fetch_add on
\* cpus_online), the ranges to tile 1..SUM_TARGET, and the barrier to hold
\* everybody until the last atomic add.
SumCompleteAfterBarrier ==
  (\E c \in Procs : PastBarrier(c, "b2")) =>
      total_sum = (SumTarget * (SumTarget + 1)) \div 2

\* Test 3: once any CPU has left the barrier inside test_barrier_sync(),
\* every CPU has reset its counter and finished phase 1, so no counter is
\* still 0 or left over from test 1 (spec.md section 8, scenario 3).
PhasesSeparated ==
  (\E c \in Procs : PastBarrier(c, "b4")) =>
      \A d \in Procs : /\ InWork(d)
                      /\ Pos(pc[d]) >= Pos("b4")
                      /\ per_cpu_counters[my_id[d]] \in {HalfCount, FullCount}

\* Every CPU that is not broken gets through bring-up and all four
\* barriers and halts.
AllHalt == <>(\A c \in Procs \ Broken : pc[c] = "halt")

\* boot_ap(i) sends its INIT-SIPI-SIPI to the i-th enabled Local APIC of
\* the MADT, which is never the BSP, and patches a stack inside
\* ap_stacks[] (i < MAX_CPUS).  Since i runs over 1..cpu_count-1, every
\* enabled AP is then started exactly once.  It rests on acpi_parse_madt()
\* skipping disabled and non-LAPIC entries, on the BSP being entry 0, and
\* on the count staying within MAX_CPUS.
BootTargetsExact ==
  pc[BSP] \in {"init", "deassert", "sipi1", "sipi2"} =>
      /\ bsp_i < MaxCpus
      /\ ap_dest # BSP
      /\ ap_dest = EnabledIds[bsp_i + 1]

\* barrier_wait() calls CPU c has returned from
BarriersLeft(c) == Cardinality({b \in BarrierPcs : PastBarrier(c, b)})

Abs == INSTANCE BarrierSpec WITH CPU <- Procs, Rounds <- Cardinality(BarrierPcs),
         at <- [c \in Procs |-> Bar!AbsAt(c)],
         round <- [c \in Procs |-> BarriersLeft(c)]

\* The four barrier_wait() calls of ap_entry() and kernel_main() implement
\* the abstract barrier: no CPU leaves an episode before every CPU has
\* arrived at it (a CPU still booting included), the sense flip releases
\* all waiting CPUs at once, and every released CPU gets out, even when a
\* fast CPU re-enters the next episode before the last arriver has reset
\* barrier_count.
RefinesBarrierSpec == Abs!AbsSpec

\* Each AP runs on a stack of its own: no two APs loaded the same
\* ap_stacks[] top from the trampoline's single stack slot.
StacksNotShared ==
  \A a, b \in APs : a # b /\ ap_stack[a] # None => ap_stack[a] # ap_stack[b]

\* The test-3 counters kernel_main() prints and judges are the CPUs' final
\* counts: when the BSP reads per_cpu_counters[] for the report, every
\* CPU's entry is 1,000,000 (spec.md section 8, scenario 3: "after the
\* barrier, every counter reads 1,000,000").
ReportFaithful ==
  [][report'.counters # report.counters =>
       \A i \in Ids : report'.counters[i] = FullCount]_report

\* An AP that never comes online is a warning: the BSP still finishes
\* (spec.md section 7, APNotOnline: "other CPUs proceed").
BspFinishes == <>(pc[BSP] = "halt")

=============================================================================
