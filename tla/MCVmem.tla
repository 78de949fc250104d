------------------------------- MODULE MCVmem -------------------------------
\* Vmem with four descriptors and an arena of 13 bytes.
EXTENDS Vmem

MC_Sizes == 1 .. 15
=============================================================================
