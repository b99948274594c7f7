------------------------------ MODULE MCCpuNmi -------------------------------
(* A frame of twelve lines of eight dots is 32 CPU cycles, an odd one with     *)
(* rendering a dot less, so that frames begin at every phase of a cycle;       *)
(* instructions, interrupt entry and DMA are scaled down with it so that       *)
(* several of them fit between two vertical blanks.  A line zeroes the OAM     *)
(* address at one dot, more often than a DMA takes to copy its bytes, so that  *)
(* one that rendering holds up lasts to the vertical blank.                    *)
EXTENDS CpuNmi

MCBatches == {1}
MCInsnCycles == {1, 2}
MCAccessCycles == {1, 2}
MCRestCycles == {0, 1}
MCIrqDeadlines == {0, 3, 100}
=============================================================================
