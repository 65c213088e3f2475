-------------------------------- MODULE Heap --------------------------------
(***************************************************************************)
(* The bump allocator of src/kernel/minimal_step9.c: heap_init places a   *)
(* window of HEAP_SIZE bytes at the first page past the PMM bitmap, and   *)
(* kmalloc rounds the request up to 16 bytes, advances heap_current and   *)
(* only then compares it with heap_end.  Arithmetic is on Word-bit        *)
(* unsigned integers (uint64_t in the code), so the round-up and the      *)
(* advance wrap the way the code's do.  kfree is a no-op and is left out. *)
(***************************************************************************)
EXTENDS Integers

CONSTANTS
  Word,         \* the number of bits of uint64_t in the model
  HEAP_SIZE,    \* 16 * 1024 * 1024 in the code
  Sizes,        \* the request sizes callers pass to kmalloc
  MaxKmalloc    \* bound on kmalloc calls

VARIABLES
  heap_start, heap_current, heap_end,
  live,         \* the blocks kmalloc returned: [addr, size] (size as asked)
  last,         \* the last call: [size, ret]
  kcalls

heapVars == <<heap_start, heap_current, heap_end, live, last, kcalls>>

Modulus == 2 ^ Word

PAGE_ALIGN(a) == ((a + 4095) \div 4096) * 4096

HeapInit ==
  /\ heap_start = 0 /\ heap_current = 0 /\ heap_end = 0
  /\ live = {} /\ last = [size |-> 0, ret |-> 0] /\ kcalls = 0

\* heap_init: the window starts at the page after bitmap_end.
HeapSetup(bitmap_end) ==
  LET start == PAGE_ALIGN(bitmap_end) % Modulus
  IN /\ heap_start' = start
     /\ heap_current' = start
     /\ heap_end' = (start + HEAP_SIZE) % Modulus
     /\ UNCHANGED <<live, last, kcalls>>

\* size = (size + 15) & ~15UL;   in Word-bit arithmetic
Align16(size) == LET s == (size + 15) % Modulus IN s - (s % 16)

\* Seeded fault for mutation analysis: the block address is read after the
\* advance instead of before it.
BlockAddrAfterAdvance(old, new) == new

\* uint64_t addr = heap_current;   (read before the advance)
BlockAddr(old, new) == old

(***************************************************************************)
(* kmalloc(size): 0 for a zero size; otherwise heap_current advances by   *)
(* the rounded size and the call fails when the new value reaches         *)
(* heap_end, leaving heap_current advanced.                               *)
(***************************************************************************)
Kmalloc(size) ==
  LET next == (heap_current + Align16(size)) % Modulus
      addr == BlockAddr(heap_current, next)
  IN /\ kcalls < MaxKmalloc
     /\ kcalls' = kcalls + 1
     /\ IF size = 0
          THEN /\ last' = [size |-> size, ret |-> 0]
               /\ UNCHANGED <<heap_current, live>>
          ELSE /\ heap_current' = next
               /\ IF next >= heap_end
                    THEN /\ last' = [size |-> size, ret |-> 0]
                         /\ UNCHANGED live
                    ELSE /\ last' = [size |-> size, ret |-> addr]
                         /\ live' = live \cup {[addr |-> addr, size |-> size]}
     /\ UNCHANGED <<heap_start, heap_end>>

HeapTypeOK ==
  /\ heap_current \in 0 .. Modulus - 1
  /\ live \subseteq [addr : 0 .. Modulus - 1, size : Sizes]
  /\ kcalls \in 0 .. MaxKmalloc

-----------------------------------------------------------------------------
\* Every block kmalloc returned lies inside [heap_start, heap_end) and no
\* two blocks share a byte, whatever sequence of sizes callers asked for.
BlocksDisjointInWindow ==
  /\ \A b \in live : heap_start <= b.addr /\ b.addr + b.size <= heap_end
  /\ \A b, c \in live : b # c =>
        b.addr + b.size <= c.addr \/ c.addr + c.size <= b.addr

\* The end of the bytes handed out so far.
HandedEnd ==
  IF live = {} THEN heap_start
  ELSE LET e == {b.addr + ((b.size + 15) \div 16) * 16 : b \in live}
       IN CHOOSE m \in e : \A x \in e : x <= m

\* kmalloc returns 0 for a non-zero size only when the size, rounded up
\* to 16 bytes, does not fit between the blocks already handed out and
\* heap_end (spec.md 4.3: out-of-window is OOM, and OOM during heap use is
\* recoverable).
NoSpuriousOom ==
  (last.ret = 0 /\ last.size > 0) =>
     HandedEnd + ((last.size + 15) \div 16) * 16 > heap_end

====
