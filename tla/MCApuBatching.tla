---------------------------- MODULE MCApuBatching ----------------------------
(* Steps two to three ticks apart, so that the delayed signals of one step and *)
(* the delayed reset of a $4017 write overlap the next step; batches shorter   *)
(* and longer than the way between two steps.                                  *)
EXTENDS ApuBatching

MCFrameSteps == [i \in 0..4 |-> <<2, 4, 7, 9, 12>>[i + 1]]
MCLengthLoads == {2}
MCApuBatches == {1, 3, 7}
=============================================================================
