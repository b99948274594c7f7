-------------------------- MODULE MCApuDmcBatching ---------------------------
(* Two rates, one of them the shortest possible, samples of two bytes of two   *)
(* bits; batches that end within, at and after a timer event.                  *)
EXTENDS ApuDmcBatching

MCDmcRates == {1, 3}
MCSampleBytes == {1, 2}
MCDmcBatches == {1, 2, 7}
=============================================================================
