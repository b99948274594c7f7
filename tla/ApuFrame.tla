------------------------------ MODULE ApuFrame -------------------------------
(***************************************************************************)
(* The frame counter of apu/apu.c: ApuFrameCounterTick, the signals it     *)
(* delays by one CPU cycle (ApuProcessPendingFrameSignals), the frame IRQ, *)
(* and the length counter of one channel, which those signals clock.       *)
(*                                                                         *)
(* ApuTicksExecute(n) is the action ApuTicks(n); every iteration of its    *)
(* loop is one action, which skips up to the next event of any channel.    *)
(* The other channels are here only through the events they have: a step   *)
(* may be any length up to the frame counter's own event.  The CPU touches *)
(* a register only between two calls: todo = 0.                            *)
(***************************************************************************)
EXTENDS Integers

CONSTANTS
  FrameSteps,    \* frameSteps: APU ticks at which the five steps are due
  InitialTicks,  \* 5: ticks that the reset sequence of the CPU has taken
  LengthLoads,   \* what the length table may load
  QuarterWrap,   \* bound: quarter frame clocks are counted modulo this
  ApuBatches     \* the numbers of CPU cycles one ApuTicksExecute call covers

ASSUME ApuConstants ==
  /\ FrameSteps \in [0..4 -> Nat \ {0}]
  /\ \A i \in 0..3 : FrameSteps[i] + 1 < FrameSteps[i + 1]
  /\ InitialTicks \in 0..FrameSteps[0]
  /\ LengthLoads \subseteq Nat \ {0}
  /\ QuarterWrap \in Nat \ {0}
  /\ ApuBatches \subseteq Nat \ {0}

VARIABLES
  todo,        \* cpuCycles: what the running call still has to serve
  phase,       \* cycles2x & 1
  frame,       \* state.frame
  fiveStep,    \* reg->frameCounter.mode
  irqDisable,  \* reg->frameCounter.irqDisable
  frameIrq,    \* reg->status.frameIrq
  irq,         \* apu->irq, the DMC's half of it left out
  length,      \* lengthCounter of the channel
  halt,        \* its length counter halt flag
  enabled,     \* its bit of reg->status
  quarters     \* quarter frame clocks of the envelopes, modulo QuarterWrap

seqVars == <<phase, frame>>
irqVars == <<frameIrq, irq>>
modeVars == <<fiveStep, irqDisable>>
chanVars == <<length, halt, enabled, quarters>>
apuVars == <<todo, seqVars, modeVars, irqVars, chanVars>>

FrameCounter ==
  [step : 0..4, countdown : Nat, resetDelay : 0..4,
   quarter : BOOLEAN, half : BOOLEAN, irq : BOOLEAN]

ApuInit ==
  /\ todo = 0 /\ phase = 0
  /\ frame = [step |-> 0, countdown |-> InitialTicks, resetDelay |-> 0,
              quarter |-> FALSE, half |-> FALSE, irq |-> FALSE]
  /\ fiveStep = FALSE /\ irqDisable = FALSE
  /\ frameIrq = FALSE /\ irq = FALSE
  /\ length = 0 /\ halt = FALSE /\ enabled = FALSE
  /\ quarters = 0

ApuAtRest == todo = 0

ApuTicks(n) ==
  /\ ApuAtRest
  /\ todo' = n
  /\ UNCHANGED <<seqVars, modeVars, irqVars, chanVars>>

-----------------------------------------------------------------------------
Count(b) == IF b THEN 1 ELSE 0

\* ApuLengthCounterTick, n half frame clocks in a row.
Clocked(n) == IF halt THEN length ELSE IF length < n THEN 0 ELSE length - n

Pending == frame.irq \/ frame.quarter \/ frame.half \/ frame.resetDelay > 0

\* The delayed reset of a $4017 write takes place; in five-step mode it clocks the
\* channels at once.
ResetDue == frame.resetDelay = 1

\* ApuProcessPendingFrameSignals on the frame counter and on the channels.
AfterPending ==
  [frame EXCEPT
     !.irq = @ /\ phase = 0,
     !.quarter = FALSE,
     !.half = FALSE,
     !.resetDelay = IF @ > 0 THEN @ - 1 ELSE 0,
     !.countdown = IF ResetDue THEN 0 ELSE @,
     !.step = IF ResetDue THEN 0 ELSE @]

HalfClocks == Count(frame.half) + Count(ResetDue /\ fiveStep)
QuarterClocks == Count(frame.quarter) + Count(ResetDue /\ fiveStep)
\* Faulty: sets the flag whether or not a write has disabled it.
PendingIrqSetsAlways == frame.irq

PendingIrqSets == frame.irq /\ ~irqDisable

Target(f) == FrameSteps[f.step]
LastStep == IF fiveStep THEN 4 ELSE 3

\* The step is due: schedule its signals, go on to the next.
RaisesIrq(f) == f.step = 3 /\ ~fiveStep /\ ~irqDisable
StepDue(f) ==
  [f EXCEPT
     !.quarter = @ \/ f.step # 3 \/ ~fiveStep,
     !.half = @ \/ f.step \in {1, 4} \/ (f.step = 3 /\ ~fiveStep),
     !.irq = @ \/ RaisesIrq(f),
     !.step = IF f.step >= LastStep THEN 0 ELSE f.step + 1,
     !.countdown = IF f.step >= LastStep THEN 0 ELSE Target(f) + 1]

\* ApuFrameCounterTick.
Expires(f, ticks) == ticks > 0 /\ f.countdown + ticks > Target(f)
FrameTick(f, ticks) ==
  IF Expires(f, ticks) THEN StepDue(f) ELSE [f EXCEPT !.countdown = @ + ticks]

\* Faulty: counts APU ticks as if each took two whole CPU cycles from now; adds the
\* half phase.
CyclesToFrameStepFlat(f) == 2 * (Target(f) - f.countdown + 1)
CyclesToFrameStepPast(f) == 2 * (Target(f) - f.countdown + 1) + phase

\* The frame counter's share of ApuCyclesToChannelEvent.
CyclesToFrameStep(f) == 2 * (Target(f) - f.countdown + 1) - phase

\* How far one iteration may go; the other channels may stop it earlier.
StepLengths ==
  IF Pending THEN {1}
  ELSE {n \in 1..todo : n <= CyclesToFrameStep(frame)}

TicksIn(n) == (n + phase) \div 2

\* One iteration of the loop of ApuTicksExecute.
ApuStep(n) ==
  /\ ~ApuAtRest
  /\ n \in StepLengths
  /\ LET f == AfterPending
     IN  /\ frame' = FrameTick(f, TicksIn(n))
         /\ frameIrq' = (frameIrq \/ PendingIrqSets
                           \/ (Expires(f, TicksIn(n)) /\ RaisesIrq(f)))
  /\ length' = Clocked(HalfClocks)
  /\ quarters' = (quarters + QuarterClocks) % QuarterWrap
  /\ phase' = (phase + n) % 2
  /\ todo' = todo - n
  /\ irq' = IF n = todo THEN frameIrq' ELSE irq
  /\ UNCHANGED <<modeVars, halt, enabled>>

-----------------------------------------------------------------------------
\* Register accesses.

\* $4015 read: acknowledges the frame IRQ.
ApuStatusRead ==
  /\ ApuAtRest
  /\ frameIrq' = FALSE
  /\ irq' = (irq /\ ~frameIrq)
  /\ UNCHANGED <<todo, seqVars, modeVars, chanVars>>

\* $4015 write: enable or silence the channel; acknowledges the DMC IRQ only.
ApuStatusWrite(e) ==
  /\ ApuAtRest
  /\ enabled' = e
  /\ length' = IF e THEN length ELSE 0
  /\ irq' = frameIrq
  /\ UNCHANGED <<todo, seqVars, modeVars, frameIrq, halt, quarters>>

\* $4017 write: the mode counts from now on, the reset takes 3 or 4 cycles.
FrameCounterWrite(five, disable) ==
  /\ ApuAtRest
  /\ fiveStep' = five /\ irqDisable' = disable
  /\ frameIrq' = (frameIrq /\ ~disable)
  /\ irq' = (irq /\ ~disable)
  /\ frame' = [frame EXCEPT !.resetDelay = IF phase = 1 THEN 3 ELSE 4]
  /\ UNCHANGED <<todo, phase, chanVars>>

\* ApuFlushFrameSignals: a write that depends on the length counter clocks it first.
Flushed == [frame EXCEPT !.quarter = FALSE, !.half = FALSE]

Flush ==
  /\ frame' = Flushed
  /\ quarters' = (quarters + Count(frame.quarter)) % QuarterWrap

\* R0 of a channel: the halt flag.
HaltWrite(h) ==
  /\ ApuAtRest
  /\ Flush
  /\ length' = Clocked(Count(frame.half))
  /\ halt' = h
  /\ UNCHANGED <<todo, phase, modeVars, irqVars, enabled>>

\* Faulty: loads a silenced channel.
LengthWriteSilenced(load) ==
  /\ ApuAtRest
  /\ Flush
  /\ length' = IF Clocked(Count(frame.half)) = length THEN load
               ELSE Clocked(Count(frame.half))
  /\ UNCHANGED <<todo, phase, modeVars, irqVars, halt, enabled>>

\* R3 of a channel: a reload that meets a clock of the counter is lost.
LengthWrite(load) ==
  /\ ApuAtRest
  /\ IF enabled
       THEN /\ Flush
            /\ length' = IF Clocked(Count(frame.half)) = length THEN load
                         ELSE Clocked(Count(frame.half))
       ELSE UNCHANGED <<frame, quarters, length>>
  /\ UNCHANGED <<todo, phase, modeVars, irqVars, halt, enabled>>

ApuWrite ==
  \/ \E e \in BOOLEAN : ApuStatusWrite(e)
  \/ \E five, disable \in BOOLEAN : FrameCounterWrite(five, disable)
  \/ \E h \in BOOLEAN : HaltWrite(h)
  \/ \E load \in LengthLoads : LengthWrite(load)

ApuNext ==
  \/ \E n \in ApuBatches : ApuTicks(n)
  \/ \E n \in StepLengths : ApuStep(n)
  \/ ApuStatusRead
  \/ ApuWrite

ApuSpec == ApuInit /\ [][ApuNext]_apuVars

-----------------------------------------------------------------------------
\* ApuCyclesToFrameIRQ, where it promises one; the code returns UINT32_MAX
\* elsewhere.
FrameIrqComes == ~fiveStep /\ ~irqDisable /\ frame.step <= 3
ApuCyclesToFrameIRQ == 2 * (FrameSteps[3] - frame.countdown + 1) + (1 - phase)

-----------------------------------------------------------------------------
(***************************************************************************)
(* Properties.                                                             *)
(***************************************************************************)
ApuTypeOK ==
  /\ todo \in Nat /\ phase \in {0, 1}
  /\ frame \in FrameCounter
  /\ fiveStep \in BOOLEAN /\ irqDisable \in BOOLEAN
  /\ frameIrq \in BOOLEAN /\ irq \in BOOLEAN
  /\ length \in Nat /\ halt \in BOOLEAN /\ enabled \in BOOLEAN
  /\ quarters \in 0..(QuarterWrap - 1)

\* Skipping never runs past a frame step: the assertion "apuTicks overflow" of
\* ApuFrameCounterTick (apu.c 723) holds in every iteration, whatever mode or
\* reset was written in between.
NoOvershoot ==
  [][\A n \in 1..todo :
       ApuStep(n) => AfterPending.countdown + TicksIn(n) <= Target(AfterPending) + 1]_apuVars

\* A disabled frame IRQ stays silent: the flag that step 3 sets again in the next
\* two cycles cannot come back after a $4017 write has disabled it (apu.c 387-394,
\* 744-747, 809-816).
DisabledIsSilent == irqDisable => ~frameIrq /\ ~irq

\* A silenced channel cannot be brought back by a length write (apu.c 239-246,
\* 366-373): its counter stays 0 until $4015 enables it.
SilencedStaysSilent == ~enabled => length = 0

\* CPU cycles until frameIrq is set if nothing is written: by the step in progress,
\* or after the pending reset.
FrameIrqIn ==
  LET coming == 2 * (FrameSteps[3] - frame.countdown + 1) - phase
      left == frame.resetDelay - 1
  IN  IF frame.resetDelay = 0 \/ (frame.step <= 3 /\ coming <= left) THEN coming
      ELSE left + 2 * (FrameSteps[3] + 1) - ((phase + left) % 2)
=============================================================================
