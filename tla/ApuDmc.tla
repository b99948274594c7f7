------------------------------- MODULE ApuDmc --------------------------------
(***************************************************************************)
(* The delta modulation channel of apu/apu.c: the output unit, the memory  *)
(* reader, the DMC IRQ and its deadline, run in the steps of               *)
(* ApuTicksExecute.  As in ApuFrame the other channels only shorten steps. *)
(*                                                                         *)
(* A sample byte is all ones or all zeros: sampleBuf and shiftReg are the  *)
(* bit they repeat, and what is read depends on the address alone.         *)
(***************************************************************************)
EXTENDS Integers

CONSTANTS
  DmcRates,      \* dmcRateTable: timer periods in APU ticks
  SampleBytes,   \* the sizes, sampleLen * 16 + 1, a sample may have
  ByteBits,      \* 8
  LevelMax,      \* DMC_OUTPUT_MAX, 127
  DmcBatches,    \* the numbers of CPU cycles one ApuTicksExecute call covers
  Never          \* UINT32_MAX, the deadline when no IRQ is expected

ASSUME DmcConstants ==
  /\ DmcRates \subseteq Nat \ {0} /\ DmcRates # {}
  /\ SampleBytes \subseteq Nat \ {0} /\ SampleBytes # {}
  /\ ByteBits \in Nat \ {0} /\ LevelMax \in Nat \ {0}
  /\ DmcBatches \subseteq Nat \ {0}
  /\ Never \in Nat

VARIABLES
  todo,        \* cpuCycles: what the running call still has to serve
  phase,       \* cycles2x & 1
  countdown,   \* dmc->timer.countdown
  period,      \* dmc->timer.period
  bits,        \* dmc->bitsRemaining
  bytes,       \* dmc->bytesRemaining
  addr,        \* dmc->currAddr, modulo 2
  buffer,      \* dmc->sampleBuf; None: dmc->bufferEmpty
  shiftReg,    \* dmc->shiftReg; None: dmc->silence
  level,       \* dmc->outputLevel
  control,     \* reg->dmc: irqEnabled, loop, and the size of the sample
  dmcIrq,      \* reg->status.dmcIrq
  irq,         \* apu->irq, the frame counter's half of it left out
  promise      \* history: the deadline, less the cycles served since it was set

None == -1
timerVars == <<phase, countdown, bits, shiftReg, level>>
readerVars == <<bytes, addr, buffer>>
dmcVars == <<todo, timerVars, period, readerVars, control, dmcIrq, irq, promise>>

\* Faulty: counts the byte in the buffer as still to be read.
DmcDeadlineLong(ctl, left, buf, bitsLeft, cd, p) ==
  IF ~ctl.irqEnabled \/ ctl.loop \/ left = 0 THEN Never
  ELSE IF buf = None THEN 2
  ELSE 2 * (cd + (bitsLeft + left * ByteBits - 1) * p)

\* ApuCyclesToDmcIRQ for the state given.
DmcDeadline(ctl, left, buf, bitsLeft, cd, p) ==
  IF ~ctl.irqEnabled \/ ctl.loop \/ left = 0 THEN Never
  ELSE IF buf = None THEN 2
  ELSE 2 * (cd + (bitsLeft + (left - 1) * ByteBits - 1) * p)

ApuCyclesToDmcIRQ == DmcDeadline(control, bytes, buffer, bits, countdown, period)

DmcInit ==
  /\ todo = 0 /\ phase = 0
  /\ period \in DmcRates /\ countdown = period
  /\ bits = ByteBits /\ bytes = 0 /\ addr = 0
  /\ buffer = None /\ shiftReg = None /\ level = 0
  /\ control \in [irqEnabled : {FALSE}, loop : {FALSE}, size : SampleBytes]
  /\ dmcIrq = FALSE /\ irq = FALSE
  /\ promise = Never

DmcAtRest == todo = 0

DmcTicks(n) ==
  /\ DmcAtRest
  /\ todo' = n
  /\ UNCHANGED <<timerVars, period, readerVars, control, dmcIrq, irq, promise>>

-----------------------------------------------------------------------------
\* DmcMemoryReaderTick on the record of what it changes: the last byte of a sample
\* restarts it or raises the IRQ.
Reader == [bytes |-> bytes, addr |-> addr, buffer |-> buffer, irq |-> dmcIrq]

\* Faulty: reads the byte after the last.
FetchPast(r) ==
  IF r.buffer # None THEN r
  ELSE [bytes  |-> IF r.bytes = 0 THEN control.size ELSE r.bytes - 1,
        addr   |-> (r.addr + 1) % 2,
        buffer |-> r.addr,
        irq    |-> r.irq \/ (r.bytes = 1 /\ control.irqEnabled)]

Fetch(r) ==
  IF r.buffer # None \/ r.bytes = 0 THEN r
  ELSE LET last == r.bytes = 1
       IN [bytes  |-> IF last /\ control.loop THEN control.size ELSE r.bytes - 1,
           addr   |-> IF last /\ control.loop THEN 0 ELSE (r.addr + 1) % 2,
           buffer |-> r.addr,
           irq    |-> r.irq \/ (last /\ ~control.loop /\ control.irqEnabled)]

\* DmcOutputTick: a bit moves the level by two, within its range.
Moved(l) ==
  CASE shiftReg = 1 /\ l < LevelMax - 1 -> l + 2
    [] shiftReg = 0 /\ l > 1 -> l - 2
    [] OTHER -> l

\* ApuDMCTick when the timer does not expire.
TimerRuns(ticks) ==
  /\ ticks < countdown
  /\ countdown' = countdown - ticks
  /\ LET r == IF ticks > 0 THEN Fetch(Reader) ELSE Reader
     IN  /\ bytes' = r.bytes /\ addr' = r.addr /\ buffer' = r.buffer
         /\ dmcIrq' = r.irq
  /\ UNCHANGED <<bits, shiftReg, level>>

TimerExpiresLate(ticks) ==
  /\ ticks >= countdown
  /\ countdown' = period
  /\ level' = Moved(level)
  /\ bits' = IF bits = 1 THEN ByteBits ELSE bits - 1
  /\ LET r == Fetch(IF bits = 1 THEN [Reader EXCEPT !.buffer = None] ELSE Reader)
     IN  /\ shiftReg' = IF bits = 1 THEN buffer ELSE shiftReg
         /\ bytes' = r.bytes /\ addr' = r.addr /\ buffer' = r.buffer
         /\ dmcIrq' = r.irq

\* ApuDMCTick when it does: one bit goes out, after the last bit of a byte the
\* buffer is taken over, and the reader refills it.
TimerExpires(ticks) ==
  /\ ticks >= countdown
  /\ countdown' = period
  /\ level' = Moved(level)
  /\ bits' = IF bits = 1 THEN ByteBits ELSE bits - 1
  /\ LET early == IF ticks > 1 THEN Fetch(Reader) ELSE Reader
         taken == IF bits = 1 THEN [early EXCEPT !.buffer = None] ELSE early
         r == Fetch(taken)
     IN  /\ shiftReg' = IF bits = 1 THEN early.buffer ELSE shiftReg
         /\ bytes' = r.bytes /\ addr' = r.addr /\ buffer' = r.buffer
         /\ dmcIrq' = r.irq

TicksIn(n) == (n + phase) \div 2

\* The channel's share of ApuCyclesToChannelEvent bounds an iteration.
StepLengths == {n \in 1..todo : n <= 2 * countdown - phase}

\* One iteration of the loop of ApuTicksExecute.
DmcStep(n) ==
  /\ ~DmcAtRest
  /\ n \in StepLengths
  /\ TimerRuns(TicksIn(n)) \/ TimerExpires(TicksIn(n))
  /\ phase' = (phase + n) % 2
  /\ todo' = todo - n
  /\ irq' = IF n = todo THEN dmcIrq' ELSE irq
  /\ promise' = IF n = todo
                  THEN DmcDeadline(control, bytes', buffer', bits', countdown', period)
                  ELSE IF promise > n THEN promise - n ELSE 0
  /\ UNCHANGED <<period, control>>

-----------------------------------------------------------------------------
\* Faulty: a write restarts the timer.
DmcControlWriteRestarts(rate, enable, loop) ==
  /\ DmcAtRest
  /\ period' = rate /\ countdown' = rate
  /\ control' = [control EXCEPT !.irqEnabled = enable, !.loop = loop]
  /\ dmcIrq' = (dmcIrq /\ enable) /\ irq' = (irq /\ enable)
  /\ promise' = DmcDeadline(control', bytes, buffer, bits, rate, rate)
  /\ UNCHANGED <<todo, phase, bits, shiftReg, level, readerVars>>

\* $4010 write: rate, loop and IRQ enable; disabling acknowledges the IRQ.
DmcControlWrite(rate, enable, loop) ==
  /\ DmcAtRest
  /\ period' = rate
  /\ control' = [control EXCEPT !.irqEnabled = enable, !.loop = loop]
  /\ dmcIrq' = (dmcIrq /\ enable)
  /\ irq' = (irq /\ enable)
  /\ promise' = DmcDeadline(control', bytes, buffer, bits, countdown, rate)
  /\ UNCHANGED <<todo, timerVars, readerVars>>

\* $4011 write.
DmcLoadWrite(l) ==
  /\ DmcAtRest
  /\ level' = l
  /\ promise' = ApuCyclesToDmcIRQ
  /\ UNCHANGED <<todo, phase, countdown, bits, shiftReg, period, readerVars, control,
                 dmcIrq, irq>>

\* $4013 write: counts from the next restart on.
DmcLengthWrite(size) ==
  /\ DmcAtRest
  /\ control' = [control EXCEPT !.size = size]
  /\ promise' = ApuCyclesToDmcIRQ
  /\ UNCHANGED <<todo, timerVars, period, readerVars, dmcIrq, irq>>

\* $4015 write: stop, or start unless a sample is still being read; acknowledges
\* the IRQ.
DmcEnableWrite(on) ==
  /\ DmcAtRest
  /\ bytes' = IF ~on THEN 0 ELSE IF bytes = 0 THEN control.size ELSE bytes
  /\ addr' = IF on /\ bytes = 0 THEN 0 ELSE addr
  /\ dmcIrq' = FALSE /\ irq' = FALSE
  /\ promise' = DmcDeadline(control, bytes', buffer, bits, countdown, period)
  /\ UNCHANGED <<todo, timerVars, period, buffer, control>>

DmcWrite ==
  \/ \E rate \in DmcRates, enable, loop \in BOOLEAN : DmcControlWrite(rate, enable, loop)
  \/ \E l \in {0, LevelMax} : DmcLoadWrite(l)
  \/ \E size \in SampleBytes : DmcLengthWrite(size)
  \/ \E on \in BOOLEAN : DmcEnableWrite(on)

DmcNext ==
  \/ \E n \in DmcBatches : DmcTicks(n)
  \/ \E n \in StepLengths : DmcStep(n)
  \/ DmcWrite

DmcSpec == DmcInit /\ [][DmcNext]_dmcVars

-----------------------------------------------------------------------------
\* The DMC IRQ flag is up only while the IRQ is enabled and the sample has been
\* read to its end: no register write leaves a stale one (apu.c 333-342, 358-386,
\* 559-585).
IrqMeansSampleRead == dmcIrq => control.irqEnabled /\ bytes = 0

\* The IRQ never rises more than one cycle ahead of the deadline the CPU batches up
\* to (apu.c 927-942): a step that serves one cycle and raises it is the last but
\* one, or later.
DmcDeadlineHolds ==
  [][dmcIrq' /\ ~dmcIrq /\ todo - todo' = 1 => promise <= 2]_dmcVars

\* A sample that is neither stopped nor looped is read to its end.
Playing == bytes > 0 /\ ~control.loop
SampleEnds == Playing ~> ~Playing
=============================================================================
