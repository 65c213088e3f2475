------------------------------ MODULE Barrier ------------------------------
(***************************************************************************)
(* The sense-reversing barrier barrier_wait() of                           *)
(* src/kernel/minimal_step9.c, one action per statement that touches       *)
(* shared memory:                                                          *)
(*                                                                         *)
(*   my_sense = barrier_sense;                       BarrierEnter          *)
(*   arrived  = __atomic_add_fetch(&barrier_count,1) BarrierAdd            *)
(*   if (arrived == cpu_count) {                                           *)
(*       barrier_count = 0;                          BarrierReset          *)
(*       __atomic_store_n(&barrier_sense, !my_sense) BarrierFlip           *)
(*   } else while (load(barrier_sense) == my_sense)  BarrierSpin           *)
(*                                                                         *)
(* The module is a component: its actions change only its own variables,  *)
(* and a caller starts a call by BarrierEnter and sees it return when      *)
(* bpc[c] = "out" (it then resets bpc[c] to "idle").                       *)
(***************************************************************************)
EXTENDS Naturals

CONSTANTS
  CPU,        \* the callers (CPU indices)
  cpu_count   \* the number of arrivals that opens the barrier

VARIABLES
  barrier_count,   \* shared arrival counter
  barrier_sense,   \* shared sense, 0 or 1
  my_sense,        \* per-CPU local copy read on entry
  bpc              \* per-CPU position inside barrier_wait

barrierVars == <<barrier_count, barrier_sense, my_sense, bpc>>

BPcs == {"idle", "add", "reset", "flip", "spin", "out"}

\* Seeded fault for mutation analysis: the sense is stored, not flipped.
NotForgotten(s) == s

\* C's logical not on the 0/1 sense
Not(s) == IF s = 0 THEN 1 ELSE 0

BarrierInit ==
  /\ barrier_count = 0
  /\ barrier_sense = 0
  /\ my_sense = [c \in CPU |-> 0]
  /\ bpc = [c \in CPU |-> "idle"]

SetBpc(c, to) == bpc' = [bpc EXCEPT ![c] = to]

\* uint32_t my_sense = barrier_sense;
BarrierEnter(c) ==
  /\ bpc[c] = "idle"
  /\ my_sense' = [my_sense EXCEPT ![c] = barrier_sense]
  /\ SetBpc(c, "add")
  /\ UNCHANGED <<barrier_count, barrier_sense>>

\* Seeded fault for mutation analysis: the last-arriver test off by one.
LastArrivalOffByOne(arrived) == arrived = cpu_count - 1

\* arrived = __atomic_add_fetch(&barrier_count, 1); if (arrived == cpu_count)
LastArrival(arrived) == arrived = cpu_count

BarrierAdd(c) ==
  /\ bpc[c] = "add"
  /\ barrier_count' = barrier_count + 1
  /\ SetBpc(c, IF LastArrival(barrier_count + 1) THEN "reset" ELSE "spin")
  /\ UNCHANGED <<barrier_sense, my_sense>>

\* Seeded fault for mutation analysis: the last arriver forgets the reset.
BarrierResetForgotten(c) ==
  /\ bpc[c] = "reset"
  /\ SetBpc(c, "flip")
  /\ UNCHANGED <<barrier_count, barrier_sense, my_sense>>

\* barrier_count = 0;   (a plain store by the last arriver)
BarrierReset(c) ==
  /\ bpc[c] = "reset"
  /\ barrier_count' = 0
  /\ SetBpc(c, "flip")
  /\ UNCHANGED <<barrier_sense, my_sense>>

\* __atomic_store_n(&barrier_sense, !my_sense, __ATOMIC_SEQ_CST);
BarrierFlip(c) ==
  /\ bpc[c] = "flip"
  /\ barrier_sense' = Not(my_sense[c])
  /\ SetBpc(c, "out")
  /\ UNCHANGED <<barrier_count, my_sense>>

\* while (__atomic_load_n(&barrier_sense) == my_sense) pause;
\* Only the load that ends the loop changes the state.
BarrierSpin(c) ==
  /\ bpc[c] = "spin"
  /\ barrier_sense # my_sense[c]
  /\ SetBpc(c, "out")
  /\ UNCHANGED <<barrier_count, barrier_sense, my_sense>>

\* One step of barrier_wait() by CPU c after it has entered.
BarrierStep(c) ==
  \/ BarrierAdd(c)
  \/ BarrierReset(c)
  \/ BarrierFlip(c)
  \/ BarrierSpin(c)

BarrierTypeOK ==
  /\ barrier_count \in 0..cpu_count
  /\ barrier_sense \in {0, 1}
  /\ my_sense \in [CPU -> {0, 1}]
  /\ bpc \in [CPU -> BPcs]

(***************************************************************************)
(* Refinement mapping to BarrierSpec: a CPU is "wait" from its increment   *)
(* of barrier_count until the sense it read on entry is flipped, "pass"    *)
(* from then until barrier_wait() returns, and "run" otherwise.            *)
(***************************************************************************)
AbsAt(c) ==
  IF bpc[c] \in {"reset", "flip"} \/ (bpc[c] = "spin" /\ barrier_sense = my_sense[c])
  THEN "wait"
  ELSE IF bpc[c] \in {"spin", "out"} THEN "pass" ELSE "run"

=============================================================================
