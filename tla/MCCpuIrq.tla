------------------------------ MODULE MCCpuIrq -------------------------------
(* A frame of the APU is 20 CPU cycles and at most 18 pass between two NMI     *)
(* deadlines; an IRQ entry takes three.  The length counter stays 0.           *)
EXTENDS CpuIrq

MCFrameSteps == [i \in 0..4 |-> <<2, 4, 7, 9, 12>>[i + 1]]
MCLengthLoads == {}
MCApuBatches == {1}
MCInsnCycles == {1, 2}
MCAccessCycles == {2}
MCNmiDeadlines == {0, 5, 18}
=============================================================================
