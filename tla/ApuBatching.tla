----------------------------- MODULE ApuBatching -----------------------------
(***************************************************************************)
(* Two APUs on the same program: one is run in the batches of cpu/cpu.c    *)
(* and skips from event to event (ApuTicksExecute), its twin is run one    *)
(* CPU cycle at a time.  Both must be in the same state whenever the CPU   *)
(* can look.                                                               *)
(***************************************************************************)
EXTENDS ApuFrame

VARIABLES
  tTodo, tPhase, tFrame, tFiveStep, tIrqDisable, tFrameIrq, tIrq, tLength,
  tHalt, tEnabled, tQuarters,
  owed       \* CPU cycles the twin is behind

Twin == INSTANCE ApuFrame WITH
  todo <- tTodo, phase <- tPhase, frame <- tFrame, fiveStep <- tFiveStep,
  irqDisable <- tIrqDisable, frameIrq <- tFrameIrq, irq <- tIrq,
  length <- tLength, halt <- tHalt, enabled <- tEnabled, quarters <- tQuarters

twinVars == <<tTodo, tPhase, tFrame, tFiveStep, tIrqDisable, tFrameIrq, tIrq,
              tLength, tHalt, tEnabled, tQuarters>>
batchVars == <<apuVars, twinVars, owed>>

BatchInit == ApuInit /\ Twin!ApuInit /\ owed = 0

InStep == ApuAtRest /\ Twin!ApuAtRest /\ owed = 0

CpuBatch(n) ==
  /\ InStep
  /\ ApuTicks(n)
  /\ owed' = n
  /\ UNCHANGED twinVars

BatchStep == (\E n \in StepLengths : ApuStep(n)) /\ UNCHANGED <<twinVars, owed>>

TwinCycle ==
  /\ ApuAtRest /\ owed > 0
  /\ Twin!ApuTicks(1)
  /\ owed' = owed - 1
  /\ UNCHANGED apuVars

TwinStep == ApuAtRest /\ Twin!ApuStep(1) /\ UNCHANGED <<apuVars, owed>>

\* A register access reaches both.
Access ==
  /\ InStep
  /\ \/ ApuStatusRead /\ Twin!ApuStatusRead
     \/ \E e \in BOOLEAN : ApuStatusWrite(e) /\ Twin!ApuStatusWrite(e)
     \/ \E five, disable \in BOOLEAN :
          FrameCounterWrite(five, disable) /\ Twin!FrameCounterWrite(five, disable)
     \/ \E h \in BOOLEAN : HaltWrite(h) /\ Twin!HaltWrite(h)
     \/ \E load \in LengthLoads : LengthWrite(load) /\ Twin!LengthWrite(load)
  /\ UNCHANGED owed

BatchNext ==
  \/ \E n \in ApuBatches : CpuBatch(n)
  \/ BatchStep
  \/ TwinCycle
  \/ TwinStep
  \/ Access

BatchSpec == BatchInit /\ [][BatchNext]_batchVars

\* Skipping to the next event instead of counting every cycle changes nothing: not
\* the step reached, not the delayed signals, not what the length counter and the
\* envelopes were clocked, not the IRQ (apu.c 796-910).
SkippingIsExact ==
  InStep => /\ <<phase, frame>> = <<tPhase, tFrame>>
            /\ <<frameIrq, irq>> = <<tFrameIrq, tIrq>>
            /\ <<length, quarters>> = <<tLength, tQuarters>>

=============================================================================
