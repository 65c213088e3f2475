----------------------------- MODULE ModularSmp -----------------------------
(***************************************************************************)
(* The older modular kernel: src/kernel/main.c, src/kernel/smp.c,          *)
(* src/kernel/acpi.c and src/archive/old-modular/sync.c.                   *)
(*                                                                         *)
(* kernel_main() parses the MADT (acpi_init), copies the APIC IDs          *)
(* (smp_init), boots every AP with INIT-SIPI-SIPI and waits up to a        *)
(* timeout for cpus_booted to move (smp_boot_aps), then calls              *)
(* on_each_cpu(computation_task): it publishes the function in global_func *)
(* and cpus_ready, and runs it itself while cpus_ready > 0, for at most    *)
(* cpu_count rounds.  An AP, once booted, loops in ap_boot_complete(): it  *)
(* runs global_func if one is set and cpus_ready > 0, then halts.  Nothing *)
(* in this kernel sends an AP an interrupt after boot, so a halted AP      *)
(* wakes only on an event the code does not control: its wake-up is a     *)
(* step with no fairness.                                                  *)
(*                                                                         *)
(* A CPU is named by its APIC ID.  computation_task's local sum is one     *)
(* unit of shared_result; shared_result counts the units added.            *)
(***************************************************************************)
EXTENDS Integers, Sequences, FiniteSets

CONSTANTS
  Madt,        \* the MADT entries: [type, len, id, flags]
  BspApicId,   \* the APIC ID of the CPU that runs kernel_main()
  Slow         \* APs that may take longer than smp_boot_aps()' 1000 ms wait

MAX_CPUS == 16

\* The processors of the machine: the enabled Local APICs of the MADT
Procs == {Madt[k].id : k \in {j \in DOMAIN Madt : Madt[j].type = 0
                                                 /\ Madt[j].flags % 2 = 1}}
BSP == BspApicId
APs == Procs \ {BSP}

ASSUME BSP \in Procs /\ Slow \subseteq APs

-----------------------------------------------------------------------------
(* acpi.c *)

\* acpi_parse_madt(): while (ptr < end && cpu_count < 16), append the APIC
\* ID of each enabled Local APIC; ptr += entry->length.  The result is the
\* sequence cpu_apic_ids[0 .. cpu_count-1]; a zero-length entry never ends
\* the walk (hang).
RECURSIVE AcpiWalk(_, _)
AcpiWalk(es, acc) ==
  IF es = <<>> \/ Len(acc.ids) >= MAX_CPUS THEN acc
  ELSE LET e == Head(es) IN
       IF e.len = 0 THEN [acc EXCEPT !.hang = TRUE]
       ELSE AcpiWalk(Tail(es),
              IF e.type = 0 /\ e.flags % 2 = 1
              THEN [acc EXCEPT !.ids = Append(@, e.id)] ELSE acc)

AcpiIds == AcpiWalk(Madt, [ids |-> <<>>, hang |-> FALSE])

\* acpi_get_apic_id(index): 0xFF outside 0 .. cpu_count-1
AcpiGetApicId(ids, i) == IF i >= 0 /\ i < Len(ids) THEN ids[i + 1] ELSE 255

-----------------------------------------------------------------------------
VARIABLES
  pc,          \* per CPU: where it is in kernel_main / ap_boot_complete
  cpu_count,   \* acpi.c's cpu_count (smp.c copies it)
  cpu_ids,     \* smp.c's cpu_ids[]
  cpus_booted,
  boot_i,      \* loop index of smp_boot_aps()
  initial,     \* initial_count of the boot wait
  global_func, \* TRUE once on_each_cpu() has stored func, FALSE for NULL
  cpus_ready,
  cpus_finished,
  oec_i,       \* loop index of on_each_cpu()
  lock,        \* result_lock
  shared_result,
  cores_done,
  ran,         \* per CPU: "[Core n] Computation done" lines it printed
  verdict      \* what kernel_main() prints: "none", "success" or "error"

vars == <<pc, cpu_count, cpu_ids, cpus_booted, boot_i, initial, global_func,
          cpus_ready, cpus_finished, oec_i, lock, shared_result, cores_done,
          ran, verdict>>

bootVars == <<cpu_count, cpu_ids, cpus_booted, boot_i, initial>>
callVars == <<global_func, cpus_ready, cpus_finished, oec_i>>
taskVars == <<lock, shared_result, cores_done, ran, verdict>>

Move(c, to) == pc' = [pc EXCEPT ![c] = to]

\* kernel_main() starts with serial_init(); the APs wait for a SIPI.
Init ==
  /\ pc = [c \in Procs |-> IF c = BSP THEN "acpi" ELSE "wfs"]
  /\ cpu_count = 0
  /\ cpu_ids = <<>>
  /\ cpus_booted = 0
  /\ boot_i = 0
  /\ initial = 0
  /\ global_func = FALSE
  /\ cpus_ready = 0
  /\ cpus_finished = 0
  /\ oec_i = 0
  /\ lock = FALSE
  /\ shared_result = 0
  /\ cores_done = 0
  /\ ran = [c \in Procs |-> 0]
  /\ verdict = "none"

-----------------------------------------------------------------------------
(* kernel_main(), BSP side *)

\* acpi_init(NULL) finds the RSDP and the MADT and parses it; kernel_main()
\* then halts if acpi_get_cpu_count() is 0.  A zero-length entry hangs the
\* parse.
AcpiInit ==
  /\ pc[BSP] = "acpi"
  /\ cpu_count' = Len(AcpiIds.ids)
  /\ Move(BSP, CASE AcpiIds.hang      -> "hang"
               []   AcpiIds.ids = <<>> -> "no_cpu"
               []   OTHER              -> "smp_init")
  /\ UNCHANGED <<cpu_ids, cpus_booted, boot_i, initial, callVars, taskVars>>

\* smp_init() copies cpu_ids[i] = acpi_get_apic_id(i) and counts the BSP in
\* cpus_booted; kernel_main() then points the trampoline at 0x7000 and
\* ap_boot_complete, and smp_boot_aps() copies the trampoline to 0x8000.
SmpInit ==
  /\ pc[BSP] = "smp_init"
  /\ cpu_ids' = [i \in 0 .. cpu_count - 1 |-> AcpiGetApicId(AcpiIds.ids, i)]
  /\ cpus_booted' = cpus_booted + 1
  /\ Move(BSP, "boot_next")
  /\ UNCHANGED <<cpu_count, boot_i, initial, callVars, taskVars>>

\* The head of smp_boot_aps()' loop: done, skip the BSP by APIC ID, or boot
\* cpu_ids[i].
BootNext ==
  /\ pc[BSP] = "boot_next"
  /\ CASE boot_i >= cpu_count    -> Move(BSP, "oec_set") /\ UNCHANGED boot_i
       [] cpu_ids[boot_i] = BSP -> boot_i' = boot_i + 1 /\ UNCHANGED pc
       [] OTHER                 -> Move(BSP, "init_ipi") /\ UNCHANGED boot_i
  /\ UNCHANGED <<cpu_count, cpu_ids, cpus_booted, initial, callVars, taskVars>>

Target == cpu_ids[boot_i]

\* send_init_ipi(): the target resets and waits for a SIPI.  The ICR
\* delivery bit is polled with no bound; delivery is assumed.
SendInitIpi ==
  /\ pc[BSP] = "init_ipi"
  /\ pc' = [pc EXCEPT ![BSP] = "sipi1", ![Target] = "init"]
  /\ UNCHANGED <<bootVars, callVars, taskVars>>

\* send_startup_ipi(), twice: a CPU that waits for a SIPI starts the
\* trampoline; a CPU that already runs ignores it.
SendStartupIpi ==
  /\ pc[BSP] \in {"sipi1", "sipi2"}
  /\ pc' = [pc EXCEPT ![BSP] = IF @ = "sipi1" THEN "sipi2" ELSE "read_booted",
                      ![Target] = IF @ = "init" THEN "tramp" ELSE @]
  /\ UNCHANGED <<bootVars, callVars, taskVars>>

\* initial_count = atomic_read(&cpus_booted), 21 ms after the INIT.
ReadBooted ==
  /\ pc[BSP] = "read_booted"
  /\ initial' = cpus_booted
  /\ Move(BSP, "wait_boot")
  /\ UNCHANGED <<cpu_count, cpu_ids, cpus_booted, boot_i, callVars, taskVars>>

\* while (cpus_booted == initial_count && timeout-- > 0): the loop ends when
\* any CPU increments cpus_booted, or after 1000 ms without one, which
\* happens when the target already counted itself before initial_count
\* was read, or is a slow AP.
WaitBoot ==
  /\ pc[BSP] = "wait_boot"
  /\ \/ cpus_booted # initial
     \/ cpus_booted = initial
        /\ (Target \in Slow \/ pc[Target] \notin {"init", "tramp", "boot"})
  /\ boot_i' = boot_i + 1
  /\ Move(BSP, "boot_next")
  /\ UNCHANGED <<cpu_count, cpu_ids, cpus_booted, initial, callVars, taskVars>>


\* on_each_cpu(computation_task): global_func = func (global_info too).
OecSetFunc ==
  /\ pc[BSP] = "oec_set"
  /\ global_func' = TRUE
  /\ Move(BSP, "oec_ready")
  /\ UNCHANGED <<bootVars, cpus_ready, cpus_finished, oec_i, taskVars>>

\* atomic_set(&cpus_ready, cpu_count): a plain store.
OecSetReady ==
  /\ pc[BSP] = "oec_ready"
  /\ cpus_ready' = cpu_count
  /\ Move(BSP, "oec_fin0")
  /\ UNCHANGED <<bootVars, global_func, cpus_finished, oec_i, taskVars>>

\* atomic_set(&cpus_finished, 0): a plain store, after cpus_ready was
\* published, so it can overwrite an AP's increment.
OecResetFinished ==
  /\ pc[BSP] = "oec_fin0"
  /\ cpus_finished' = 0
  /\ oec_i' = 0
  /\ Move(BSP, "oec_loop")
  /\ UNCHANGED <<bootVars, global_func, cpus_ready, taskVars>>

\* for (i < cpu_count) if (atomic_read(&cpus_ready) > 0) func(info);
OecLoop ==
  /\ pc[BSP] = "oec_loop"
  /\ CASE oec_i >= cpu_count -> Move(BSP, "oec_wait") /\ UNCHANGED oec_i
       [] cpus_ready > 0     -> Move(BSP, "task_lock") /\ UNCHANGED oec_i
       [] OTHER              -> oec_i' = oec_i + 1 /\ UNCHANGED pc
  /\ UNCHANGED <<bootVars, global_func, cpus_ready, cpus_finished, taskVars>>

\* atomic_inc(&cpus_finished) after the BSP's own call.
BspFinished ==
  /\ pc[BSP] = "b_fin"
  /\ cpus_finished' = cpus_finished + 1
  /\ Move(BSP, "b_dec")
  /\ UNCHANGED <<bootVars, global_func, cpus_ready, oec_i, taskVars>>

\* atomic_dec(&cpus_ready); next iteration.
BspDecReady ==
  /\ pc[BSP] = "b_dec"
  /\ cpus_ready' = cpus_ready - 1
  /\ oec_i' = oec_i + 1
  /\ Move(BSP, "oec_loop")
  /\ UNCHANGED <<bootVars, global_func, cpus_finished, taskVars>>

\* while (atomic_read(&cpus_finished) < cpu_count) cpu_relax();
OecWait ==
  /\ pc[BSP] = "oec_wait"
  /\ cpus_finished >= cpu_count
  /\ Move(BSP, "main_wait")
  /\ UNCHANGED <<bootVars, callVars, taskVars>>

\* kernel_main(): while (atomic_read(&cores_done) < cpu_count) cpu_relax();
MainWait ==
  /\ pc[BSP] = "main_wait"
  /\ cores_done >= cpu_count
  /\ Move(BSP, "verdict")
  /\ UNCHANGED <<bootVars, callVars, taskVars>>

\* shared_result == 500000500000 * cpu_count prints "[SUCCESS] All APs
\* booted and functional!", otherwise "[ERROR] Result mismatch!"; then halt.
Verdict ==
  /\ pc[BSP] = "verdict"
  /\ verdict' = IF shared_result = cpu_count THEN "success" ELSE "error"
  /\ Move(BSP, "halt")
  /\ UNCHANGED <<bootVars, callVars, lock, shared_result, cores_done, ran>>

-----------------------------------------------------------------------------
(* computation_task(), on any CPU *)

\* spin_lock(&result_lock): __sync_lock_test_and_set succeeds on a free
\* lock; otherwise the CPU spins (no state change).  The local sum before
\* it touches nothing shared.
TaskLock(c) ==
  /\ pc[c] = "task_lock"
  /\ ~lock
  /\ lock' = TRUE
  /\ Move(c, "task_add")
  /\ UNCHANGED <<bootVars, callVars, shared_result, cores_done, ran, verdict>>

\* shared_result += local_result; spin_unlock(&result_lock).
TaskAdd(c) ==
  /\ pc[c] = "task_add"
  /\ shared_result' = shared_result + 1
  /\ lock' = FALSE
  /\ Move(c, "task_done")
  /\ UNCHANGED <<bootVars, callVars, cores_done, ran, verdict>>

\* atomic_inc(&cores_done); print "[Core %d] Computation done"; return to
\* on_each_cpu() or to the AP idle loop.
TaskDone(c) ==
  /\ pc[c] = "task_done"
  /\ cores_done' = cores_done + 1
  /\ ran' = [ran EXCEPT ![c] = @ + 1]
  /\ Move(c, IF c = BSP THEN "b_fin" ELSE "a_fin")
  /\ UNCHANGED <<bootVars, callVars, lock, shared_result, verdict>>

-----------------------------------------------------------------------------
(* An AP: trampoline and ap_boot_complete() *)

\* The trampoline switches to long mode on the stack at 0x7000 and calls
\* ap_boot_complete().
Trampoline(a) ==
  /\ pc[a] = "tramp"
  /\ Move(a, "boot")
  /\ UNCHANGED <<bootVars, callVars, taskVars>>

\* ap_boot_complete(): per_cpu_ids[smp_processor_id()] = id;
\* atomic_inc(&cpus_booted).
ApBootComplete(a) ==
  /\ pc[a] = "boot"
  /\ cpus_booted' = cpus_booted + 1
  /\ Move(a, "chk_func")
  /\ UNCHANGED <<cpu_count, cpu_ids, boot_i, initial, callVars, taskVars>>

\* if (global_func && ...): the first read of global_func.
ApCheckFunc(a) ==
  /\ pc[a] = "chk_func"
  /\ Move(a, IF global_func THEN "chk_ready" ELSE "hlt")
  /\ UNCHANGED <<bootVars, callVars, taskVars>>

\* ... && atomic_read(&cpus_ready) > 0
ApCheckReady(a) ==
  /\ pc[a] = "chk_ready"
  /\ Move(a, IF cpus_ready > 0 THEN "call" ELSE "hlt")
  /\ UNCHANGED <<bootVars, callVars, taskVars>>

\* global_func(global_info): global_func is read again for the call (the
\* atomic_read call in between forces the reload); NULL jumps to address 0.
ApCall(a) ==
  /\ pc[a] = "call"
  /\ Move(a, IF global_func THEN "task_lock" ELSE "null_call")
  /\ UNCHANGED <<bootVars, callVars, taskVars>>

\* atomic_inc(&cpus_finished)
ApFinished(a) ==
  /\ pc[a] = "a_fin"
  /\ cpus_finished' = cpus_finished + 1
  /\ Move(a, "a_dec")
  /\ UNCHANGED <<bootVars, global_func, cpus_ready, oec_i, taskVars>>

\* atomic_dec(&cpus_ready)
ApDecReady(a) ==
  /\ pc[a] = "a_dec"
  /\ cpus_ready' = cpus_ready - 1
  /\ Move(a, "a_clr")
  /\ UNCHANGED <<bootVars, global_func, cpus_finished, oec_i, taskVars>>

\* global_func = NULL, for every CPU
ApClearFunc(a) ==
  /\ pc[a] = "a_clr"
  /\ global_func' = FALSE
  /\ Move(a, "hlt")
  /\ UNCHANGED <<bootVars, cpus_ready, cpus_finished, oec_i, taskVars>>

\* cpu_halt(): hlt returns on an interrupt, NMI or SMI; this kernel sends
\* none, so the wake-up has no fairness.
ApWake(a) ==
  /\ pc[a] = "hlt"
  /\ Move(a, "chk_func")
  /\ UNCHANGED <<bootVars, callVars, taskVars>>

-----------------------------------------------------------------------------
BspStep ==
  \/ AcpiInit \/ SmpInit \/ BootNext \/ SendInitIpi \/ SendStartupIpi
  \/ ReadBooted \/ WaitBoot \/ OecSetFunc \/ OecSetReady \/ OecResetFinished
  \/ OecLoop \/ BspFinished \/ BspDecReady \/ OecWait \/ MainWait \/ Verdict

TaskStep(c) == TaskLock(c) \/ TaskAdd(c) \/ TaskDone(c)

ApStep(a) ==
  \/ Trampoline(a) \/ ApBootComplete(a) \/ ApCheckFunc(a) \/ ApCheckReady(a)
  \/ ApCall(a) \/ ApFinished(a) \/ ApDecReady(a) \/ ApClearFunc(a)

Next ==
  \/ BspStep
  \/ \E c \in Procs : TaskStep(c)
  \/ \E a \in APs : ApStep(a) \/ ApWake(a)

\* Every running CPU keeps executing; a halted AP need not wake.
Spec ==
  /\ Init /\ [][Next]_vars
  /\ WF_vars(BspStep)
  /\ \A c \in Procs : WF_vars(TaskStep(c))
  /\ \A a \in APs : WF_vars(ApStep(a))

-----------------------------------------------------------------------------
(* Properties *)

\* on_each_cpu() is documented "Execute function on all CPUs (including
\* BSP)", and kernel_main() prints "[SUCCESS] All APs booted and
\* functional!" when shared_result matches cpu_count runs: when it does,
\* every CPU has run computation_task exactly once.
AllCpusComputed ==
  verdict = "success" => \A c \in Procs : ran[c] = 1

====
