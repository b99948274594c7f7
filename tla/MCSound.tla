------------------------------- MODULE MCSound -------------------------------
(* Channels at power up or started by a program, then two register writes or   *)
(* clocks.  A period that mutes the pulse and one that does not until it is    *)
(* swept, to the largest and past it; a length that one clock ends and one     *)
(* that is held; a noise of seven values.  Batches of an odd length, samples   *)
(* of three and of four cycles, in buffers of two; one enqueue may fail; a     *)
(* pipe that two batches fill.  For the rate limiter a sample lasts 3 units;   *)
(* it drifts up to 8, and the product overflows at the 22nd sample; stalls of  *)
(* 30 units, ten times a sample.                                               *)
EXTENDS Sound

MCPeriods == {1, 2}
MCNoisePeriods == {2}
MCSwitches == {[pulse |-> FALSE, tri |-> FALSE, noise |-> TRUE], AllOn}
MCControls == {[loop |-> FALSE, constant |-> FALSE, volume |-> 1],
               [loop |-> TRUE, constant |-> TRUE, volume |-> 2]}
MCSweeps == {[enabled |-> TRUE, period |-> 0, negate |-> FALSE, shift |-> 1],
             [enabled |-> TRUE, period |-> 1, negate |-> TRUE, shift |-> 1]}
MCLinears == {[loop |-> FALSE, load |-> 1]}
MCLengthLoads == {1}
MCToneBatches == {5}
MCBetween == {0, 1, 4, 30}
MCOverslept == {0, 1}
=============================================================================
