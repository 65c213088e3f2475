------------------------------ MODULE MemMaps ------------------------------
(***************************************************************************)
(* Memory maps for Pmm and MemBoot, in real byte addresses, scaled down  *)
(* to 24 frames.                                                          *)
(* The kernel image and the boot-info blob end in frame 18, so the       *)
(* bitmap goes to frame 19.  The loader's page tables (MCMemBoot) are in  *)
(* frames 12-14, inside the reserved frames 10-15 of MapQemu.             *)
(***************************************************************************)
EXTENDS Integers

P == 4096
Avail(a, l) == [addr |-> a, len |-> l, type |-> 1]
Resvd(a, l) == [addr |-> a, len |-> l, type |-> 2]

\* The shape of QEMU's map: low memory Available up to 0x9FC00 (here an
\* unaligned end inside frame 9), the EBDA and BIOS area reserved, then
\* extended memory Available up to an end that is not byte-aligned in the
\* bitmap (22 frames and 100 bytes), so the bitmap has padding bits.
MapQemu ==
  << Avail(0, 9 * P + 3072), Resvd(9 * P + 3072, 1024),
     Resvd(10 * P, 6 * P), Avail(16 * P, 6 * P + 100) >>

\* The low frames reserved, more memory than the cap, an
\* Available region past the cap, and a region whose first frame is not
\* byte-aligned in the bitmap (head loop).
MapCapped ==
  << Resvd(0, 5 * P), Avail(5 * P, 7 * P),
     Resvd(12 * P, 4 * P), Avail(16 * P, 16 * P), Avail(40 * P, 4 * P) >>

\* Two frames of RAM (the OOM scenario of spec.md): the kernel image and
\* the bitmap lie past the managed range, and the allocator runs dry.
MapTiny == << Avail(0, 2 * P) >>

\* An Available region that starts and ends inside one byte of the bitmap.
MapSmallHole ==
  << Resvd(0, 3 * P), Avail(3 * P, 3 * P), Resvd(6 * P, 10 * P),
     Avail(16 * P, 8 * P) >>

PassMaps == {MapQemu, MapCapped, MapTiny}
HoleMaps == {MapSmallHole}
QemuMaps == {MapQemu}

\* 4 GiB does not fit TLC's integers; 1 GiB stands for it, as every map
\* above lies far below both
\* (an Available entry at or past it would be ignored).
MCBelow4G == 262144 * P

MCMemCap == 24 * P
MCKernelStart == 16 * P
MCKernelEnd == 18 * P + 500
MCMbEnd == 18 * P + 10
====
