--------------------------- MODULE ApuDmcBatching ----------------------------
(***************************************************************************)
(* ApuBatching for the delta modulation channel: one is run in batches and *)
(* skips to its timer events, its twin one CPU cycle at a time.  The       *)
(* reader of the first runs once a step, where the twin's runs every tick. *)
(***************************************************************************)
EXTENDS ApuDmc

VARIABLES
  tTodo, tPhase, tCountdown, tPeriod, tBits, tBytes, tAddr, tBuffer, tShiftReg,
  tLevel, tControl, tDmcIrq, tIrq, tPromise,
  owed       \* CPU cycles the twin is behind

Twin == INSTANCE ApuDmc WITH
  todo <- tTodo, phase <- tPhase, countdown <- tCountdown, period <- tPeriod,
  bits <- tBits, bytes <- tBytes, addr <- tAddr, buffer <- tBuffer,
  shiftReg <- tShiftReg, level <- tLevel, control <- tControl,
  dmcIrq <- tDmcIrq, irq <- tIrq, promise <- tPromise

twinVars == <<tTodo, tPhase, tCountdown, tPeriod, tBits, tBytes, tAddr, tBuffer,
              tShiftReg, tLevel, tControl, tDmcIrq, tIrq, tPromise>>
batchVars == <<dmcVars, twinVars, owed>>

\* Both as they are powered up, with the same timer and the same registers.
BatchInit ==
  /\ DmcInit /\ Twin!DmcInit
  /\ <<tPeriod, tControl>> = <<period, control>>
  /\ owed = 0

InStep == DmcAtRest /\ Twin!DmcAtRest /\ owed = 0

CpuBatch(n) ==
  /\ InStep
  /\ DmcTicks(n)
  /\ owed' = n
  /\ UNCHANGED twinVars

BatchStep == (\E n \in StepLengths : DmcStep(n)) /\ UNCHANGED <<twinVars, owed>>

TwinCycle ==
  /\ DmcAtRest /\ owed > 0
  /\ Twin!DmcTicks(1)
  /\ owed' = owed - 1
  /\ UNCHANGED dmcVars

TwinStep == DmcAtRest /\ Twin!DmcStep(1) /\ UNCHANGED <<dmcVars, owed>>

\* A register write reaches both.
Access ==
  /\ InStep
  /\ \/ \E rate \in DmcRates, enable, loop \in BOOLEAN :
          DmcControlWrite(rate, enable, loop) /\ Twin!DmcControlWrite(rate, enable, loop)
     \/ \E size \in SampleBytes : DmcLengthWrite(size) /\ Twin!DmcLengthWrite(size)
     \/ \E on \in BOOLEAN : DmcEnableWrite(on) /\ Twin!DmcEnableWrite(on)
  /\ UNCHANGED owed

BatchNext ==
  \/ \E n \in DmcBatches : CpuBatch(n)
  \/ BatchStep
  \/ TwinCycle
  \/ TwinStep
  \/ Access

BatchSpec == BatchInit /\ [][BatchNext]_batchVars

\* As long as the CPU runs it hands out cycles, and every call runs to its end.
BatchLive ==
  /\ BatchSpec
  /\ WF_batchVars(\E n \in DmcBatches : CpuBatch(n))
  /\ WF_batchVars(BatchStep) /\ WF_batchVars(TwinCycle) /\ WF_batchVars(TwinStep)

\* The channel plays the same bits, reads the same bytes and raises the same IRQ
\* whatever its steps are (apu.c 559-618, 855-910).
DmcSkippingIsExact ==
  InStep => /\ timerVars = <<tPhase, tCountdown, tBits, tShiftReg, tLevel>>
            /\ readerVars = <<tBytes, tAddr, tBuffer>>
            /\ <<dmcIrq, irq>> = <<tDmcIrq, tIrq>>
=============================================================================
