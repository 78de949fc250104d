---------------------------- MODULE MCInterrupts ----------------------------
\* Interrupts with a serial port, the clock, the network card, the second ATA
\* channel and the line whose number spurious requests borrow.
EXTENDS Interrupts

MC_Wired == {4, 7, 8, 9, 15}
=============================================================================
