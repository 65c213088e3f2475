----------------------------- MODULE MCMemBoot -----------------------------
(***************************************************************************)
(* MemBoot on the memory maps of MemMaps.  uint64_t is 17 bits wide here,   *)
(* enough for the scaled addresses (the heap starts near 0x14000), and the *)
(* 16 MiB heap window is 64 bytes: four 16-byte granules.                 *)
(***************************************************************************)
EXTENDS MemBoot, MemMaps

\* The loader's tables (spec.md 4.2: an identity-mapped low region): the
\* PML4 in frame 12, PML4[0] -> PDPT in 13, PDPT[0] -> PD in 14, whose K
\* entries are PT_HUGE pages of K frames each, mapping frames 0 .. K*K-1
\* at the same addresses.  Frames 12-15 are reserved in the pass maps.
MCK == 4
MCCR3 == 12
MCLoaderTables == {12, 13, 14}
MCLoaderMem ==
  [fr \in 0 .. 23 |->
     CASE fr = 12 -> [i \in 0 .. MCK - 1 |-> IF i = 0 THEN PTE(13) ELSE Zero]
       [] fr = 13 -> [i \in 0 .. MCK - 1 |-> IF i = 0 THEN PTE(14) ELSE Zero]
       [] fr = 14 -> [i \in 0 .. MCK - 1 |->
                        [p |-> TRUE, f |-> i * MCK, huge |-> TRUE]]
       [] OTHER -> [i \in 0 .. MCK - 1 |-> Zero]]

\* Lower-half addresses: one under the loader's PDPT that needs a PD and a
\* PT, one that needs all three levels, and one inside the identity region
\* (under a PT_HUGE PD entry).
MCVAs == {<<0, 1, 0, 2>>, <<1, 0, 0, 3>>, <<0, 0, 1, 2>>}
MCPAs == {2, 3}

MCWord == 17
MCHeapSize == 64
\* a zero size, one granule, one byte over a granule, and three granules,
\* so that two requests fill the window exactly
MCSizes == {0, 16, 17, 48}
====
