------------------------------- MODULE MCPmm -------------------------------
\* Pmm on machines of 16 pages, four of them memory.
EXTENDS Pmm

\* Two pages behind the kernel and two from HighBase on; one page behind the
\* kernel, which pmm_init leaves aside, and a single block of four.
MC_Boots == {[kend |-> 2, high_mem |-> 8], [kend |-> 3, high_mem |-> 10]}

\* So much memory that the main region is half the address space.
MC_BigBoots == {[kend |-> 2, high_mem |-> 15]}

\* Words that look like a block of the main region in the middle of a list.
MC_Contents == {[size |-> 2, next |-> HighBase]}
=============================================================================
