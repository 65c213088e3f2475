------------------------------- MODULE MCPmm -------------------------------
\* Pmm alone, on the memory maps of MemMaps.
EXTENDS Pmm, MemMaps
====
