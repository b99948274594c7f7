--------------------------- MODULE CpuIrq_proofs ----------------------------
(***************************************************************************)
(* Proofs about ApuFrame and about CpuIrq, which runs it: for every table  *)
(* of frame steps that ApuConstants allows, for every way of stopping      *)
(* early, and for every table of instructions.  At the end the two APUs of *)
(* ApuBatching: cycles that are skipped are not missed.                    *)
(***************************************************************************)
EXTENDS CpuIrq, ApuBatching, TLAPS

(***************************************************************************)
(* The inductive invariant.  The countdown never passes the step it waits  *)
(* for: that is what makes the next event lie ahead.  The two safety       *)
(* properties hold step by step.                                           *)
(***************************************************************************)
InTime(f) == f.countdown <= Target(f)
ApuInv == ApuTypeOK /\ InTime(frame) /\ DisabledIsSilent /\ SilencedStaysSilent

\* The frame steps are numbers in ascending order.
LEMMA StepsFacts ==
  /\ \A i \in 0..4 : FrameSteps[i] \in Nat
  /\ \A i \in 0..3 : FrameSteps[i] + 1 < FrameSteps[i + 1]
BY ApuConstants

\* The fields of the frame counter.
LEMMA CounterFields ==
  ASSUME NEW f \in FrameCounter
  PROVE  /\ f.step \in 0..4 /\ f.countdown \in Nat /\ f.resetDelay \in 0..4
         /\ f.quarter \in BOOLEAN /\ f.half \in BOOLEAN /\ f.irq \in BOOLEAN
         /\ Target(f) \in Nat
BY StepsFacts DEF FrameCounter, Target

\* The invariant holds at power up.
LEMMA InitInv == ApuInit => ApuInv
<1> SUFFICES ASSUME ApuInit PROVE ApuInv
  OBVIOUS
<1>1. frame \in FrameCounter
  <2>1. InitialTicks \in Nat /\ 0 \in 0..4
    BY StepsFacts, ApuConstants
  <2>. QED BY <2>1, Zenon DEF ApuInit, FrameCounter
<1>2. InTime(frame)
  BY ApuConstants DEF ApuInit, InTime, Target
<1>3. ApuTypeOK
  <2>1. 0 \in 0..(QuarterWrap - 1) /\ 0 \in Nat /\ 0 \in {0, 1}
    BY ApuConstants
  <2>. QED BY <1>1, <2>1, Zenon DEF ApuInit, ApuTypeOK
<1>. QED BY <1>2, <1>3 DEF ApuInit, ApuInv, DisabledIsSilent, SilencedStaysSilent

\* The pending signals leave a frame counter that is in time: a delayed reset sets
\* it back to its first step (ApuProcessPendingFrameSignals).
LEMMA PendingInTime ==
  ASSUME frame \in FrameCounter, InTime(frame), phase \in {0, 1}
  PROVE  AfterPending \in FrameCounter /\ InTime(AfterPending)
<1>1. /\ (frame.irq /\ phase = 0) \in BOOLEAN
      /\ (IF frame.resetDelay > 0 THEN frame.resetDelay - 1 ELSE 0) \in 0..4
      /\ (IF ResetDue THEN 0 ELSE frame.countdown) \in Nat
      /\ (IF ResetDue THEN 0 ELSE frame.step) \in 0..4
  BY CounterFields
<1>2. AfterPending \in FrameCounter
  BY <1>1, Zenon DEF AfterPending, FrameCounter
<1>3. InTime(AfterPending)
  <2>1. AfterPending.countdown = IF ResetDue THEN 0 ELSE frame.countdown
    BY Zenon DEF AfterPending, FrameCounter
  <2>2. AfterPending.step = IF ResetDue THEN 0 ELSE frame.step
    BY Zenon DEF AfterPending, FrameCounter
  <2>. QED BY <2>1, <2>2, StepsFacts DEF InTime, Target
<1>. QED BY <1>2, <1>3

\* A step that is due leaves the next one ahead (ApuFrameCounterTick).
LEMMA DueInTime ==
  ASSUME NEW f \in FrameCounter
  PROVE  StepDue(f) \in FrameCounter /\ InTime(StepDue(f))
<1> DEFINE step == IF f.step >= LastStep THEN 0 ELSE f.step + 1
<1> DEFINE countdown == IF f.step >= LastStep THEN 0 ELSE Target(f) + 1
<1>1. step \in 0..4 /\ countdown \in Nat /\ countdown <= FrameSteps[step]
  <2>1. f.step \in 0..4 /\ Target(f) = FrameSteps[f.step] /\ LastStep \in {3, 4}
    BY CounterFields DEF Target, LastStep
  <2>2. CASE f.step >= LastStep
    BY <2>1, <2>2, StepsFacts
  <2>3. CASE ~(f.step >= LastStep)
    BY <2>1, <2>3, StepsFacts
  <2>. QED BY <2>2, <2>3
<1>2. /\ (f.quarter \/ f.step # 3 \/ ~fiveStep) \in BOOLEAN
      /\ (f.half \/ f.step \in {1, 4} \/ (f.step = 3 /\ ~fiveStep)) \in BOOLEAN
      /\ (f.irq \/ RaisesIrq(f)) \in BOOLEAN
  BY Zenon
<1>3. StepDue(f) \in FrameCounter
  BY <1>1, <1>2, Zenon DEF StepDue, FrameCounter
<1>4. StepDue(f).countdown = countdown /\ StepDue(f).step = step
  BY Zenon DEF StepDue, FrameCounter
<1>. QED BY <1>1, <1>3, <1>4 DEF InTime, Target

\* The frame counter stays in time (ApuFrameCounterTick).
LEMMA TickInTime ==
  ASSUME NEW f \in FrameCounter, InTime(f), NEW ticks \in Nat
  PROVE  FrameTick(f, ticks) \in FrameCounter /\ InTime(FrameTick(f, ticks))
<1>1. CASE Expires(f, ticks)
  BY <1>1, DueInTime DEF FrameTick
<1>2. CASE ~Expires(f, ticks)
  <2>1. f.countdown + ticks \in Nat /\ f.countdown + ticks <= Target(f)
    BY <1>2, CounterFields DEF Expires, InTime
  <2> DEFINE g == [f EXCEPT !.countdown = @ + ticks]
  <2>2. g \in FrameCounter /\ g.countdown = f.countdown + ticks /\ g.step = f.step
    BY <2>1, Zenon DEF FrameCounter
  <2>3. FrameTick(f, ticks) = g
    BY <1>2 DEF FrameTick
  <2>. QED BY <2>1, <2>2, <2>3 DEF InTime, Target
<1>. QED BY <1>1, <1>2

-----------------------------------------------------------------------------
(* Steps. *)

\* The channel's length counter only counts down, and a counter at 0 stays there
\* (ApuLengthCounterTick).
LEMMA ClockedFacts ==
  ASSUME ApuTypeOK, NEW n \in Nat
  PROVE  Clocked(n) \in Nat /\ (length = 0 => Clocked(n) = 0)
BY DEF Clocked, ApuTypeOK

\* The clocks of an iteration are numbers.
LEMMA CountFacts == \A b : Count(b) \in Nat
BY DEF Count

\* The ticks of an iteration are a number.
LEMMA TicksFacts ==
  ASSUME ApuTypeOK, NEW n \in StepLengths
  PROVE  n \in Nat /\ TicksIn(n) \in Nat
<1>1. n \in Nat
  BY DEF StepLengths, ApuTypeOK
<1>2. phase \in Nat
  BY DEF ApuTypeOK
<1>. QED BY <1>1, <1>2 DEF TicksIn

\* One iteration of ApuTicksExecute keeps the frame counter in time, a disabled IRQ
\* and a silenced channel silent.
LEMMA StepKeeps ==
  ASSUME ApuInv, todo # 0, NEW n \in StepLengths, ApuStep(n)
  PROVE  ApuInv'
<1>1. ApuTypeOK /\ InTime(frame) /\ DisabledIsSilent /\ SilencedStaysSilent
  BY DEF ApuInv
<1>2. n \in Nat /\ TicksIn(n) \in Nat
  BY <1>1, TicksFacts
<1>3. frame' \in FrameCounter /\ InTime(frame)'
  <2>1. AfterPending \in FrameCounter /\ InTime(AfterPending)
    BY <1>1, PendingInTime DEF ApuTypeOK
  <2>2. frame' = FrameTick(AfterPending, TicksIn(n))
    BY DEF ApuStep
  <2>3. frame' \in FrameCounter /\ InTime(frame')
    BY <1>2, <2>1, <2>2, TickInTime
  <2>. QED BY <2>3 DEF InTime, Target
<1>4. length' \in Nat /\ (length = 0 => length' = 0)
  <2>1. HalfClocks \in Nat
    BY CountFacts DEF HalfClocks
  <2>. QED BY <1>1, <2>1, ClockedFacts DEF ApuStep
<1>5. quarters' \in 0..(QuarterWrap - 1) /\ phase' \in {0, 1} /\ todo' \in Nat
  <2>1. QuarterClocks \in Nat
    BY CountFacts DEF QuarterClocks
  <2>2. n <= todo
    BY <1>1 DEF StepLengths, ApuTypeOK
  <2>. QED BY <1>1, <1>2, <2>1, <2>2, ApuConstants DEF ApuStep, ApuTypeOK
<1>6. frameIrq' \in BOOLEAN /\ irq' \in BOOLEAN
  <2>1. frameIrq' \in BOOLEAN
    BY Zenon DEF ApuStep
  <2>. QED BY <1>1, <2>1, Zenon DEF ApuStep, ApuTypeOK
<1>7. UNCHANGED <<fiveStep, irqDisable, halt, enabled>>
  BY DEF ApuStep, modeVars
<1>8. DisabledIsSilent'
  <2>1. irqDisable => ~PendingIrqSets /\ \A f : ~RaisesIrq(f)
    BY Zenon DEF PendingIrqSets, RaisesIrq
  <2>2. irqDisable => (frameIrq' <=> frameIrq)
    BY <2>1, Zenon DEF ApuStep
  <2>3. irq' = frameIrq' \/ irq' = irq
    BY Zenon DEF ApuStep
  <2>. QED BY <1>1, <1>7, <2>2, <2>3, Zenon DEF DisabledIsSilent
<1>9. SilencedStaysSilent'
  BY <1>1, <1>4, <1>7, Zenon DEF SilencedStaysSilent
<1>10. ApuTypeOK'
  BY <1>1, <1>3, <1>4, <1>5, <1>6, <1>7, Zenon DEF ApuTypeOK
<1>. QED BY <1>3, <1>8, <1>9, <1>10 DEF ApuInv

\* So does the call itself, for any number of cycles.
LEMMA TicksKeep ==
  ASSUME ApuInv, NEW n \in Nat, ApuTicks(n)
  PROVE  ApuInv'
<1>1. todo' \in Nat
  BY DEF ApuTicks
<1>. QED
  BY <1>1, Zenon
     DEF ApuTicks, ApuInv, ApuTypeOK, InTime, Target, DisabledIsSilent, SilencedStaysSilent,
         seqVars, modeVars, irqVars, chanVars

\* The same of the accesses of the CPU: they flush signals, disable the IRQ and
\* silence the channel, each completely (ApuRegRead, ApuRegWrite).
LEMMA AccessKeeps ==
  ASSUME ApuInv, ApuStatusRead \/ ApuWrite \/ (\E n \in ApuBatches : ApuTicks(n))
  PROVE  ApuInv'
<1>1. ApuTypeOK /\ InTime(frame) /\ DisabledIsSilent /\ SilencedStaysSilent
  BY DEF ApuInv
<1>2. /\ frame \in FrameCounter /\ frame.countdown \in Nat
      /\ quarters \in 0..(QuarterWrap - 1) /\ QuarterWrap \in Nat \ {0}
  BY <1>1, ApuConstants, CounterFields DEF ApuTypeOK
<1>3. ASSUME Flush
      PROVE  frame' \in FrameCounter /\ InTime(frame') /\ quarters' \in 0..(QuarterWrap - 1)
  <2>1. Flushed \in FrameCounter
    BY <1>2, Zenon DEF Flushed, FrameCounter
  <2>2. Flushed.countdown = frame.countdown /\ Flushed.step = frame.step
    BY <1>2, Zenon DEF Flushed, FrameCounter
  <2>3. Count(frame.quarter) \in Nat
    BY CountFacts
  <2>4. quarters' \in 0..(QuarterWrap - 1)
    BY <1>2, <1>3, <2>3 DEF Flush
  <2>. QED BY <1>1, <1>3, <2>1, <2>2, <2>4 DEF Flush, InTime, Target
<1>4. Clocked(Count(frame.half)) \in Nat /\ (length = 0 => Clocked(Count(frame.half)) = 0)
  BY <1>1, CountFacts, ClockedFacts
<1>5. CASE ApuStatusRead
  BY <1>1, <1>5, Zenon
     DEF ApuStatusRead, ApuInv, ApuTypeOK, InTime, Target, DisabledIsSilent, SilencedStaysSilent,
         seqVars, modeVars, chanVars
<1>6. ASSUME NEW e \in BOOLEAN, ApuStatusWrite(e) PROVE ApuInv'
  <2>1. length' \in Nat
    BY <1>1, <1>6 DEF ApuStatusWrite, ApuTypeOK
  <2>. QED
    BY <1>1, <1>6, <2>1, Zenon
       DEF ApuStatusWrite, ApuInv, ApuTypeOK, InTime, Target, DisabledIsSilent,
           SilencedStaysSilent, seqVars, modeVars
<1>7. ASSUME NEW five \in BOOLEAN, NEW disable \in BOOLEAN, FrameCounterWrite(five, disable)
      PROVE  ApuInv'
  <2>1. frame' \in FrameCounter
    <3>1. (IF phase = 1 THEN 3 ELSE 4) \in 0..4
      OBVIOUS
    <3>. QED BY <1>2, <1>7, <3>1, Zenon DEF FrameCounterWrite, FrameCounter
  <2>2. frame'.countdown = frame.countdown /\ frame'.step = frame.step
    BY <1>2, <1>7, Zenon DEF FrameCounterWrite, FrameCounter
  <2>3. InTime(frame)'
    BY <1>1, <2>2, Zenon DEF InTime, Target
  <2>. QED
    BY <1>1, <1>7, <2>1, <2>3, Zenon
       DEF FrameCounterWrite, ApuInv, ApuTypeOK, DisabledIsSilent, SilencedStaysSilent, chanVars
<1>8. ASSUME NEW h \in BOOLEAN, HaltWrite(h) PROVE ApuInv'
  <2>1. Flush /\ length' = Clocked(Count(frame.half))
    BY <1>8 DEF HaltWrite
  <2>2. frame' \in FrameCounter /\ InTime(frame)' /\ quarters' \in 0..(QuarterWrap - 1)
    BY <1>3, <2>1 DEF InTime, Target
  <2>. QED
    BY <1>1, <1>4, <1>8, <2>1, <2>2, Zenon
       DEF HaltWrite, ApuInv, ApuTypeOK, DisabledIsSilent, SilencedStaysSilent, modeVars, irqVars
<1>9. ASSUME NEW load \in LengthLoads, LengthWrite(load) PROVE ApuInv'
  <2>1. CASE enabled
    <3>1. Flush /\ enabled'
      BY <1>9, <2>1, Zenon DEF LengthWrite
    <3>2. frame' \in FrameCounter /\ InTime(frame)' /\ quarters' \in 0..(QuarterWrap - 1)
      BY <1>3, <3>1 DEF InTime, Target
    <3>3. load \in Nat
      BY ApuConstants
    <3>4. length' \in Nat
      BY <1>4, <1>9, <2>1, <3>3, Zenon DEF LengthWrite
    <3>. QED
      BY <1>1, <1>9, <3>1, <3>2, <3>4, Zenon
         DEF LengthWrite, ApuInv, ApuTypeOK, DisabledIsSilent, SilencedStaysSilent, modeVars, irqVars
  <2>2. CASE ~enabled
    BY <1>1, <1>9, <2>2, Zenon
       DEF LengthWrite, ApuInv, ApuTypeOK, InTime, Target, DisabledIsSilent,
           SilencedStaysSilent, modeVars, irqVars
  <2>. QED BY <2>1, <2>2
<1>10. ASSUME NEW n \in ApuBatches, ApuTicks(n) PROVE ApuInv'
  BY <1>10, TicksKeep, ApuConstants
<1>. QED BY <1>5, <1>6, <1>7, <1>8, <1>9, <1>10 DEF ApuWrite

\* The invariant is inductive.
LEMMA StepInv == ApuInv /\ [ApuNext]_apuVars => ApuInv'
<1> SUFFICES ASSUME ApuInv, [ApuNext]_apuVars PROVE ApuInv'
  OBVIOUS
<1>1. ASSUME NEW n \in StepLengths, ApuStep(n) PROVE ApuInv'
  BY <1>1, StepKeeps DEF ApuStep, ApuAtRest
<1>2. CASE ApuStatusRead \/ ApuWrite \/ (\E n \in ApuBatches : ApuTicks(n))
  BY <1>2, AccessKeeps
<1>3. CASE UNCHANGED apuVars
  BY <1>3, Zenon
     DEF apuVars, seqVars, modeVars, irqVars, chanVars, ApuInv, ApuTypeOK, InTime, Target,
         DisabledIsSilent, SilencedStaysSilent
<1>. QED BY <1>1, <1>2, <1>3 DEF ApuNext

-----------------------------------------------------------------------------
\* The inductive invariant, for every table of steps and every way of batching.
THEOREM ApuInvariant == ApuSpec => []ApuInv
<1>. QED BY InitInv, StepInv, PTL DEF ApuSpec

\* Type correctness (apu.c 694-910).
THEOREM ApuTypeCorrect == ApuSpec => []ApuTypeOK
<1>1. ApuInv => ApuTypeOK
  BY DEF ApuInv
<1>. QED BY <1>1, ApuInvariant, PTL

\* A disabled frame IRQ stays silent, though step 3 sets its flag for two cycles
\* more (apu.c 387-394, 796-816).
THEOREM DisabledTheorem == ApuSpec => []DisabledIsSilent
<1>1. ApuInv => DisabledIsSilent
  BY DEF ApuInv
<1>. QED BY <1>1, ApuInvariant, PTL

\* A silenced channel stays silent until it is enabled (apu.c 227-245, 366-373).
THEOREM SilencedTheorem == ApuSpec => []SilencedStaysSilent
<1>1. ApuInv => SilencedStaysSilent
  BY DEF ApuInv
<1>. QED BY <1>1, ApuInvariant, PTL

\* No iteration runs past a frame step: the assertion of ApuFrameCounterTick
\* (apu.c 723) can not fail.
THEOREM OvershootTheorem == ApuSpec => NoOvershoot
<1> DEFINE Ahead == \A n \in 1..todo :
      ApuStep(n) => AfterPending.countdown + TicksIn(n) <= Target(AfterPending) + 1
<1>1. ASSUME ApuInv PROVE Ahead
  <2> SUFFICES ASSUME NEW n \in 1..todo, ApuStep(n)
               PROVE  AfterPending.countdown + TicksIn(n) <= Target(AfterPending) + 1
    OBVIOUS
  <2>1. ApuTypeOK /\ InTime(frame) /\ n \in StepLengths
    BY <1>1 DEF ApuInv, ApuStep
  <2>2. phase \in {0, 1} /\ frame \in FrameCounter /\ frame.resetDelay \in 0..4
    BY <2>1, CounterFields DEF ApuTypeOK
  <2>3. AfterPending \in FrameCounter /\ InTime(AfterPending)
    BY <2>1, <2>2, PendingInTime
  <2>4. AfterPending.countdown \in Nat /\ Target(AfterPending) \in Nat
    BY <2>3, CounterFields
  <2>5. CASE Pending
    <3>1. n = 1
      BY <2>1, <2>5 DEF StepLengths
    <3>2. TicksIn(n) <= 1 /\ TicksIn(n) \in Nat
      BY <2>2, <3>1 DEF TicksIn
    <3>. QED BY <2>3, <2>4, <3>2 DEF InTime
  <2>6. CASE ~Pending
    <3>1. ~ResetDue
      BY <2>2, <2>6 DEF Pending, ResetDue
    <3>2. AfterPending.countdown = frame.countdown /\ Target(AfterPending) = Target(frame)
      BY <2>2, <3>1, Zenon DEF AfterPending, FrameCounter, Target
    <3>3. n \in Nat /\ n <= 2 * (Target(frame) - frame.countdown + 1) - phase
      BY <2>1, <2>6 DEF StepLengths, CyclesToFrameStep, ApuTypeOK
    <3>4. Target(frame) \in Nat /\ frame.countdown \in Nat
      BY <2>2, CounterFields
    <3>5. TicksIn(n) <= Target(frame) - frame.countdown + 1
      <4>1. n + phase <= 2 * (Target(frame) - frame.countdown + 1)
        BY <2>2, <3>3, <3>4
      <4>. QED BY <2>2, <3>3, <3>4, <4>1 DEF TicksIn
    <3>. QED BY <2>2, <3>2, <3>3, <3>4, <3>5 DEF TicksIn
  <2>. QED BY <2>5, <2>6
<1>2. ApuInv => [Ahead]_apuVars
  BY <1>1
<1>. QED BY <1>2, ApuInvariant, PTL DEF NoOvershoot

-----------------------------------------------------------------------------
(***************************************************************************)
(* The main loop.  Where it is, seen past a running CpuSyncDevices: *)
(***************************************************************************)
At == IF pc = "sync" THEN ret ELSE pc

\* FrameIrqIn as a function of the frame counter.
IrqIn(f, ph) ==
  LET coming == 2 * (FrameSteps[3] - f.countdown + 1) - ph
      left == f.resetDelay - 1
  IN  IF f.resetDelay = 0 \/ (f.step <= 3 /\ coming <= left) THEN coming
      ELSE left + 2 * (FrameSteps[3] + 1) - ((ph + left) % 2)

\* The fifth step is there in five-step mode only, or until the reset of the write that
\* has left the mode.
FifthStepOK == frame.step = 4 /\ ~fiveStep => frame.resetDelay > 0

LoopTypeOK ==
  /\ pc \in Places /\ ret \in {"poll", "irq", "fetch", "access"}
  /\ lag \in Nat /\ deadline \in Nat
  /\ flagI \in BOOLEAN /\ irqDisabled \in BOOLEAN /\ cleared \in BOOLEAN

\* Cycles are kept back only up to the deadline, and none while the APU runs.
LagOK ==
  /\ pc # "sync" => todo = 0
  /\ pc \in {"sync", "access"} => lag = 0
  /\ pc # "sync" => lag = 0 \/ lag < deadline

\* The deadline is at most one cycle past the one that sets the flag.
Covered == pc # "sync" /\ ~fiveStep /\ ~irqDisable => deadline <= FrameIrqIn + 1

\* Only a CLI or PLP leaves the mask set when the flag is clear.  After an instruction
\* begun with an IRQ waiting, the next poll goes by a mask that was taken when the flag was
\* clear.
KeptOK ==
  /\ kept \in {0, 1}
  /\ At = "fetch" /\ kept = 1 => cleared
  /\ At = "exec" /\ irqDisabled => flagI
  /\ At \notin {"fetch", "exec"} /\ irqDisabled /\ ~flagI => cleared
  /\ kept = 1 => /\ At = "fetch" => ~flagI
                 /\ At = "exec" => ~irqDisabled
                 /\ At \notin {"fetch", "exec"} => (irqDisabled => flagI)

MainInv == ApuInv /\ FifthStepOK /\ LoopTypeOK /\ LagOK /\ Covered /\ KeptOK

\* ApuCyclesToFrameIRQ covers the flag, the pending reset and the half phase
\* included, and so does an NMI deadline where it promises nothing.
LEMMA IrqInFacts ==
  ASSUME NEW f \in FrameCounter, InTime(f), NEW ph \in {0, 1}
  PROVE  /\ IrqIn(f, ph) \in Int
         /\ f.step <= 3 =>
              /\ IrqIn(f, ph) >= 0
              /\ 2 * (FrameSteps[3] - f.countdown + 1) + (1 - ph) <= IrqIn(f, ph) + 1
         /\ f.step = 4 /\ f.resetDelay > 0 =>
              IrqIn(f, ph) >= 0 /\ 2 * FrameSteps[3] <= IrqIn(f, ph) + 1
<1>1. /\ f.step \in 0..4 /\ f.countdown \in Nat /\ f.resetDelay \in 0..4
      /\ FrameSteps[f.step] \in Nat /\ f.countdown <= FrameSteps[f.step]
      /\ FrameSteps[3] \in Nat
  BY CounterFields, StepsFacts DEF InTime, Target
<1>2. ASSUME f.step <= 3 PROVE f.countdown <= FrameSteps[3]
  BY <1>1, <1>2, StepsFacts
<1> DEFINE coming == 2 * (FrameSteps[3] - f.countdown + 1) - ph
           left == f.resetDelay - 1
           parity == (ph + left) % 2
<1>3. /\ coming \in Int /\ left \in Int /\ parity \in {0, 1}
      /\ f.resetDelay > 0 => left >= 0
      /\ left = 0 => parity = ph
  BY <1>1
<1>4. IrqIn(f, ph) = IF f.resetDelay = 0 \/ (f.step <= 3 /\ coming <= left) THEN coming
                     ELSE left + 2 * (FrameSteps[3] + 1) - parity
  BY DEF IrqIn
<1>5. /\ coming <= 2 * (FrameSteps[3] + 1) - ph
      /\ f.step <= 3 => coming >= 1
      /\ 2 * (FrameSteps[3] - f.countdown + 1) + (1 - ph) = coming + 1
  BY <1>1, <1>2
<1> HIDE DEF coming, left, parity
<1>6. QED
  BY <1>1, <1>3, <1>4, <1>5

\* What CpuUpdateSyncDeadline computes, for a frame counter and a mode.
LEMMA DeadlineCovers ==
  ASSUME NEW f \in FrameCounter, InTime(f), NEW ph \in {0, 1}, NEW five \in BOOLEAN,
         NEW off \in BOOLEAN, f.step = 4 /\ ~five => f.resetDelay > 0,
         NEW nmi \in NmiDeadlines, NEW d,
         d = IF (~five /\ ~off /\ f.step <= 3)
                /\ 2 * (FrameSteps[3] - f.countdown + 1) + (1 - ph) < nmi
               THEN 2 * (FrameSteps[3] - f.countdown + 1) + (1 - ph) ELSE nmi
  PROVE  d \in Nat /\ (~five /\ ~off => d <= IrqIn(f, ph) + 1)
<1>1. nmi \in Nat /\ nmi <= 2 * FrameSteps[3] /\ FrameSteps[3] \in Nat
  BY IrqConstants, StepsFacts
<1>2. f.step \in 0..4 /\ f.countdown \in Nat
  BY CounterFields
<1>3. f.step <= 3 => 2 * (FrameSteps[3] - f.countdown + 1) + (1 - ph) \in Nat
  <2>1. f.step <= 3 => f.countdown <= FrameSteps[3]
    BY <1>2, StepsFacts DEF InTime, Target
  <2>2. QED
    BY <1>1, <1>2, <2>1
<1>4. QED
  BY <1>1, <1>2, <1>3, IrqInFacts

\* FrameIrqIn of a state and of the next one.
LEMMA FrameIrqInFacts ==
  /\ FrameIrqIn = IrqIn(frame, phase)
  /\ FrameIrqIn' = IrqIn(frame', phase')
BY DEF FrameIrqIn, IrqIn

\* The fifth step goes with its mode (ApuFrameCounterTick, $4017 writes).
LEMMA FifthStepKept ==
  ASSUME ApuInv, FifthStepOK,
         \/ \E n \in StepLengths : ApuStep(n)
         \/ ApuStatusRead \/ ApuWrite
  PROVE  FifthStepOK'
<1>1. /\ frame \in FrameCounter /\ frame.step \in 0..4 /\ frame.resetDelay \in 0..4
  BY CounterFields DEF ApuInv, ApuTypeOK
<1>2. ASSUME frame'.step = frame.step, frame'.resetDelay = frame.resetDelay, fiveStep' = fiveStep
      PROVE  FifthStepOK'
  BY <1>2 DEF FifthStepOK
<1>3. ASSUME NEW n \in StepLengths, ApuStep(n) PROVE FifthStepOK'
  <2> DEFINE f == AfterPending
  <2>1. /\ f \in FrameCounter
        /\ f.step = IF ResetDue THEN 0 ELSE frame.step
        /\ f.resetDelay = IF frame.resetDelay > 0 THEN frame.resetDelay - 1 ELSE 0
    <3>1. f \in FrameCounter
      BY <1>1, PendingInTime DEF ApuInv, ApuTypeOK
    <3>2. QED
      BY <1>1, <3>1, Zenon DEF AfterPending, FrameCounter
  <2>2. f.step = 4 /\ ~fiveStep => f.resetDelay > 0
    BY <1>1, <2>1 DEF FifthStepOK, ResetDue
  <2>3. fiveStep' = fiveStep /\ frame' = FrameTick(f, TicksIn(n))
    BY <1>3 DEF ApuStep, modeVars
  <2> HIDE DEF f
  <2>4. CASE Expires(f, TicksIn(n))
    <3>1. frame' = StepDue(f)
      BY <2>3, <2>4 DEF FrameTick
    <3>2. StepDue(f).step = IF f.step >= LastStep THEN 0 ELSE f.step + 1
      BY <2>1, Zenon DEF StepDue, FrameCounter
    <3>3. ~fiveStep => StepDue(f).step # 4
      BY <2>1, <3>2, CounterFields DEF LastStep
    <3>4. QED
      BY <2>3, <3>1, <3>3 DEF FifthStepOK
  <2>5. CASE ~Expires(f, TicksIn(n))
    <3> DEFINE g == [f EXCEPT !.countdown = @ + TicksIn(n)]
    <3>1. frame' = g
      BY <2>3, <2>5 DEF FrameTick
    <3>2. g.step = f.step /\ g.resetDelay = f.resetDelay
      BY <2>1, Zenon DEF FrameCounter
    <3>3. QED
      BY <2>2, <2>3, <3>1, <3>2 DEF FifthStepOK
  <2>6. QED
    BY <2>4, <2>5
<1>4. ASSUME Flush, fiveStep' = fiveStep PROVE FifthStepOK'
  <2>1. Flushed.step = frame.step /\ Flushed.resetDelay = frame.resetDelay
    BY <1>1, Zenon DEF Flushed, FrameCounter
  <2>2. QED
    BY <1>2, <1>4, <2>1 DEF Flush
<1>5. CASE ApuStatusRead
  BY <1>2, <1>5 DEF ApuStatusRead, seqVars, modeVars
<1>6. CASE ApuWrite
  <2>1. ASSUME NEW e \in BOOLEAN, ApuStatusWrite(e) PROVE FifthStepOK'
    BY <1>2, <2>1 DEF ApuStatusWrite, seqVars, modeVars
  <2>2. ASSUME NEW five \in BOOLEAN, NEW off \in BOOLEAN, FrameCounterWrite(five, off)
        PROVE  FifthStepOK'
    <3>1. frame'.resetDelay = IF phase = 1 THEN 3 ELSE 4
      BY <1>1, <2>2, Zenon DEF FrameCounterWrite, FrameCounter
    <3>2. QED
      BY <3>1 DEF FifthStepOK
  <2>3. ASSUME NEW h \in BOOLEAN, HaltWrite(h) PROVE FifthStepOK'
    BY <1>4, <2>3 DEF HaltWrite, modeVars
  <2>4. ASSUME NEW load \in LengthLoads, LengthWrite(load) PROVE FifthStepOK'
    BY <1>2, <1>4, <2>4 DEF LengthWrite, modeVars
  <2>5. QED
    BY <1>6, <2>1, <2>2, <2>3, <2>4 DEF ApuWrite
<1>7. QED
  BY <1>3, <1>5, <1>6

\* What an action leaves of the deadline's promise when it moves neither the deadline nor
\* the frame counter.
LEMMA CoveredKept ==
  ASSUME Covered, pc # "sync", UNCHANGED <<frame, phase, fiveStep, irqDisable, deadline>>
  PROVE  Covered'
BY FrameIrqInFacts DEF Covered

\* CpuTick and CpuSyncDevices: the cycles are kept back below the deadline, or handed over.
LEMMA CyclesArePassed ==
  ASSUME MainInv, pc \notin {"sync", "access"},
         NEW c \in Nat, NEW next \in {"poll", "irq", "fetch", "access"},
         \/ next # "access" /\ CpuTick(c, next)
         \/ SyncApu(lag + c, next)
  PROVE  /\ ApuInv' /\ FifthStepOK' /\ LagOK' /\ Covered'
         /\ At' = next /\ pc' \in Places /\ ret' \in {"poll", "irq", "fetch", "access"}
         /\ lag' \in Nat /\ deadline' = deadline
<1>1. ApuInv /\ FifthStepOK /\ LoopTypeOK /\ LagOK /\ Covered
  BY DEF MainInv
<1>2. CASE SyncApu(lag + c, next)
  <2>1. ApuTicks(lag + c) /\ lag + c \in Nat
    BY <1>1, <1>2 DEF SyncApu, LoopTypeOK
  <2>2. UNCHANGED <<frame, phase, fiveStep, irqDisable>>
    BY <2>1 DEF ApuTicks, seqVars, modeVars
  <2>3. ApuInv'
    BY <1>1, <2>1, TicksKeep
  <2>4. QED
    BY <1>1, <1>2, <2>2, <2>3 DEF SyncApu, FifthStepOK, LagOK, Covered, At, Places, LoopTypeOK
<1>3. CASE next # "access" /\ lag + c < deadline /\ lag' = lag + c /\ pc' = next
           /\ UNCHANGED <<apuVars, ret, deadline>>
  <2>1. UNCHANGED <<todo, frame, phase, fiveStep, irqDisable>>
    BY <1>3 DEF apuVars, seqVars, modeVars
  <2>2. ApuInv'
    BY <1>1, <1>3, StepInv
  <2>3. Covered'
    BY <1>1, <1>3, <2>1, CoveredKept
  <2>4. QED
    BY <1>1, <1>3, <2>1, <2>2, <2>3 DEF FifthStepOK, LagOK, At, Places, LoopTypeOK
<1>4. QED
  BY <1>2, <1>3 DEF CpuTick

\* An action of the loop that leaves the APU and the cycles alone.
LEMMA NothingIsPassed ==
  ASSUME MainInv, pc \notin {"sync", "access"}, pc' \in {"poll", "irq", "fetch", "exec"},
         UNCHANGED <<apuVars, ret, lag, deadline>>
  PROVE  /\ ApuInv' /\ FifthStepOK' /\ LagOK' /\ Covered'
         /\ At' = pc' /\ pc' \in Places /\ ret' \in {"poll", "irq", "fetch", "access"}
         /\ lag' \in Nat /\ deadline' = deadline
<1>1. ApuInv /\ FifthStepOK /\ LoopTypeOK /\ LagOK /\ Covered
  BY DEF MainInv
<1>2. UNCHANGED <<todo, frame, phase, fiveStep, irqDisable>>
  BY DEF apuVars, seqVars, modeVars
<1>3. ApuInv'
  BY <1>1, StepInv
<1>4. Covered'
  BY <1>1, <1>2, CoveredKept
<1>5. QED
  BY <1>1, <1>2, <1>3, <1>4 DEF FifthStepOK, LagOK, At, Places, LoopTypeOK

\* CpuUpdateSyncDeadline leaves a deadline that covers the flag, whatever the register
\* access before it has done to the frame counter.
LEMMA DeadlineUpdated ==
  ASSUME ApuInv', FifthStepOK', UpdateSyncDeadline
  PROVE  deadline' \in Nat /\ Covered'
<1>1. /\ frame' \in FrameCounter /\ InTime(frame') /\ phase' \in {0, 1}
      /\ fiveStep' \in BOOLEAN /\ irqDisable' \in BOOLEAN
      /\ frame'.step = 4 /\ ~fiveStep' => frame'.resetDelay > 0
  BY DEF ApuInv, ApuTypeOK, InTime, Target, FifthStepOK
<1>2. PICK nmi \in NmiDeadlines :
        deadline' = IF FrameIrqComes' /\ ApuCyclesToFrameIRQ' < nmi
                      THEN ApuCyclesToFrameIRQ' ELSE nmi
  BY DEF UpdateSyncDeadline
<1>3. deadline' = IF (~fiveStep' /\ ~irqDisable' /\ frame'.step <= 3)
                     /\ 2 * (FrameSteps[3] - frame'.countdown + 1) + (1 - phase') < nmi
                  THEN 2 * (FrameSteps[3] - frame'.countdown + 1) + (1 - phase') ELSE nmi
  BY <1>2 DEF FrameIrqComes, ApuCyclesToFrameIRQ
<1>4. deadline' \in Nat
      /\ (~fiveStep' /\ ~irqDisable' => deadline' <= IrqIn(frame', phase') + 1)
  BY <1>1, <1>3, DeadlineCovers
<1>5. QED
  BY <1>4, FrameIrqInFacts DEF Covered

LEMMA MainInitInv == MainInit => MainInv
<1> SUFFICES ASSUME MainInit PROVE MainInv
  OBVIOUS
<1>1. ApuInv
  BY InitInv DEF MainInit
<1>2. /\ frame \in FrameCounter /\ InTime(frame) /\ phase \in {0, 1}
      /\ frame.step = 0 /\ todo = 0
  BY <1>1 DEF ApuInv, ApuTypeOK, MainInit, ApuInit
<1>3. Covered
  BY <1>2, IrqInFacts, FrameIrqInFacts DEF MainInit, Covered
<1>4. FifthStepOK /\ LagOK
  BY <1>2 DEF MainInit, FifthStepOK, LagOK
<1>5. LoopTypeOK
  BY DEF MainInit, LoopTypeOK, Places
<1>6. kept = 0 /\ kept # 1 /\ flagI = TRUE
  BY DEF MainInit
<1>7. KeptOK
  BY <1>6 DEF KeptOK
<1>8. QED
  BY <1>1, <1>3, <1>4, <1>5, <1>7 DEF MainInv

\* The invariant is inductive.
LEMMA MainStepInv ==
  ASSUME MainInv, [MainNext]_mainVars
  PROVE  MainInv'
<1>0. ApuInv /\ FifthStepOK /\ LoopTypeOK /\ LagOK /\ Covered /\ KeptOK
  BY DEF MainInv
<1>1. CASE ApuRuns
  <2>1. PICK n \in StepLengths : ApuStep(n)
    BY <1>1 DEF ApuRuns
  <2>2. ApuInv' /\ FifthStepOK'
    BY <1>0, <2>1, FifthStepKept, StepKeeps DEF ApuStep, ApuAtRest
  <2>3. pc = "sync"
    BY <1>0, <2>1 DEF LagOK, ApuStep, ApuAtRest
  <2>4. QED
    BY <1>0, <1>1, <2>2, <2>3
       DEF ApuRuns, loopVars, maskVars, MainInv, LoopTypeOK, LagOK, Covered, KeptOK, At
<1>2. CASE SyncDone
  <2>1. UNCHANGED <<todo, frame, phase, fiveStep, irqDisable>>
    BY <1>2 DEF SyncDone, apuVars, seqVars, modeVars
  <2>2. ApuInv' /\ FifthStepOK'
    BY <1>0, <1>2, <2>1, StepInv DEF SyncDone, FifthStepOK
  <2>3. deadline' \in Nat /\ Covered'
    BY <1>2, <2>2, DeadlineUpdated DEF SyncDone
  <2>4. QED
    BY <1>0, <1>2, <2>1, <2>2, <2>3
       DEF SyncDone, maskVars, MainInv, LoopTypeOK, LagOK, KeptOK, At, ApuAtRest, Places
<1>3. CASE PollNMI
  <2>1. /\ ApuInv' /\ FifthStepOK' /\ LagOK' /\ Covered'
        /\ At' = "irq" /\ pc' \in Places /\ ret' \in {"poll", "irq", "fetch", "access"}
        /\ lag' \in Nat /\ deadline' = deadline
    BY <1>3, CyclesArePassed, NothingIsPassed, IrqConstants DEF PollNMI
  <2>2. At = "poll" /\ kept' = kept /\ cleared' = cleared
    BY <1>3 DEF PollNMI, At
  <2>3. \/ flagI' = TRUE /\ irqDisabled' = TRUE
        \/ flagI' = flagI /\ irqDisabled' = irqDisabled
    BY <1>3 DEF PollNMI
  <2>4. KeptOK'
    BY <1>0, <2>1, <2>2, <2>3 DEF KeptOK, LoopTypeOK
  <2>5. flagI' \in BOOLEAN /\ irqDisabled' \in BOOLEAN /\ cleared' \in BOOLEAN
    BY <1>0, <2>2, <2>3 DEF LoopTypeOK
  <2>6. QED
    BY <1>0, <2>1, <2>4, <2>5 DEF MainInv, LoopTypeOK
<1>4. CASE EnterIRQ
  BY <1>0, <1>4, CyclesArePassed, IrqConstants DEF EnterIRQ, MainInv, LoopTypeOK, KeptOK
<1>5. CASE NoIRQ
  <2>1. /\ ApuInv' /\ FifthStepOK' /\ LagOK' /\ Covered'
        /\ At' = "fetch" /\ pc' \in Places /\ ret' \in {"poll", "irq", "fetch", "access"}
        /\ lag' \in Nat /\ deadline' = deadline
    BY <1>5, NothingIsPassed DEF NoIRQ
  <2>2. irq /\ ~flagI => kept = 0 /\ cleared
    BY <1>0, <1>5 DEF NoIRQ, KeptOK, At
  <2>3. QED
    BY <1>0, <1>5, <2>1, <2>2 DEF NoIRQ, MainInv, LoopTypeOK, KeptOK
<1>6. CASE Fetch
  BY <1>0, <1>6, NothingIsPassed DEF Fetch, MainInv, LoopTypeOK, KeptOK, At
<1>7. ASSUME NEW c \in InsnCycles, pc = "exec", CpuTick(c, "poll"),
             flagI' \in BOOLEAN, irqDisabled' \in BOOLEAN, cleared' \in BOOLEAN,
             kept' = kept, irqDisabled' => irqDisabled \/ flagI',
             irqDisabled' /\ ~flagI' => cleared'
      PROVE  MainInv'
  BY <1>0, <1>7, CyclesArePassed, IrqConstants DEF MainInv, LoopTypeOK, KeptOK, At
<1>7a. pc = "exec" => (irqDisabled => flagI)
  BY <1>0 DEF KeptOK, At
<1>8. CASE PlainInsn
  BY <1>0, <1>7, <1>7a, <1>8 DEF PlainInsn, LoopTypeOK
<1>9. ASSUME NEW i \in BOOLEAN, FlagInsn(i) \/ Rti(i) PROVE MainInv'
  <2>1. CASE FlagInsn(i)
    <3>1. /\ flagI' = i /\ irqDisabled' = irqDisabled /\ kept' = kept
          /\ cleared' = (flagI /\ ~i) /\ pc = "exec"
      BY <2>1 DEF FlagInsn
    <3>2. /\ flagI' \in BOOLEAN /\ irqDisabled' \in BOOLEAN /\ cleared' \in BOOLEAN
          /\ irqDisabled' => irqDisabled \/ flagI'
          /\ irqDisabled' /\ ~flagI' => cleared'
      BY <1>0, <1>7a, <3>1 DEF LoopTypeOK
    <3>3. QED
      BY <1>7, <2>1, <3>1, <3>2 DEF FlagInsn
  <2>2. CASE Rti(i)
    BY <1>0, <1>7, <2>2 DEF Rti, LoopTypeOK
  <2>3. QED
    BY <1>9, <2>1, <2>2
<1>10. CASE ReachRegister
  <2>1. PICK k \in AccessCycles : SyncApu(lag + k, "access")
    BY <1>10 DEF ReachRegister
  <2>2. /\ ApuInv' /\ FifthStepOK' /\ LagOK' /\ Covered'
        /\ At' = "access" /\ pc' \in Places /\ ret' \in {"poll", "irq", "fetch", "access"}
        /\ lag' \in Nat /\ deadline' = deadline
    BY <1>10, <2>1, CyclesArePassed, IrqConstants DEF ReachRegister
  <2>3. QED
    BY <1>0, <1>10, <2>2 DEF ReachRegister, MainInv, LoopTypeOK, KeptOK, At
<1>11. CASE ReadRegister
  <2>1. ApuInv' /\ FifthStepOK'
    BY <1>0, <1>11, AccessKeeps, FifthStepKept DEF ReadRegister
  <2>2. UNCHANGED <<todo, frame, phase, fiveStep, irqDisable>>
    BY <1>11 DEF ReadRegister, ApuStatusRead, seqVars, modeVars
  <2>3. Covered'
    BY <1>0, <1>11, <2>2, CoveredKept DEF ReadRegister
  <2>4. QED
    BY <1>0, <1>11, <2>1, <2>2, <2>3
       DEF ReadRegister, maskVars, MainInv, LoopTypeOK, LagOK, KeptOK, At, Places
<1>12. CASE WriteRegister
  <2>1. ApuInv' /\ FifthStepOK'
    BY <1>0, <1>12, AccessKeeps, FifthStepKept DEF WriteRegister
  <2>2. todo' = todo
    BY <1>12 DEF WriteRegister, ApuWrite, ApuStatusWrite, FrameCounterWrite, HaltWrite, LengthWrite
  <2>3. deadline' \in Nat /\ Covered'
    BY <1>12, <2>1, DeadlineUpdated DEF WriteRegister
  <2>4. QED
    BY <1>0, <1>12, <2>1, <2>2, <2>3
       DEF WriteRegister, maskVars, MainInv, LoopTypeOK, LagOK, KeptOK, At, Places
<1>13. CASE UNCHANGED mainVars
  <2>1. UNCHANGED <<apuVars, todo, frame, phase, fiveStep, irqDisable, loopVars, maskVars>>
    BY <1>13 DEF mainVars, apuVars, seqVars, modeVars
  <2>2. ApuInv'
    BY <1>0, <2>1, StepInv
  <2>3. QED
    BY <1>0, <2>1, <2>2, FrameIrqInFacts
       DEF loopVars, maskVars, MainInv, FifthStepOK, LoopTypeOK, LagOK, Covered, KeptOK, At
<1>14. QED
  BY <1>1, <1>2, <1>3, <1>4, <1>5, <1>6, <1>8, <1>9, <1>10, <1>11, <1>12, <1>13 DEF MainNext

-----------------------------------------------------------------------------
\* The inductive invariant of the main loop over the frame counter (cpu.c 114-147,
\* 387-431).
THEOREM MainInvariant == MainSpec => []MainInv
<1>1. MainInv /\ [MainNext]_mainVars => MainInv'
  BY MainStepInv
<1>. QED BY <1>1, MainInitInv, PTL DEF MainSpec

\* An asserted IRQ waits for one instruction of an unmasked CPU at most, the one after CLI
\* or PLP, and for none after RTI, whatever instructions run and however the APU is
\* batched (cpu.c 411-424, emulate.c 658-666
\* and 1580-1602).
THEOREM OneInsnTheorem == MainSpec => []IrqWaitsOneInsn
<1>1. MainInv => IrqWaitsOneInsn
  BY DEF MainInv, LoopTypeOK, KeptOK, IrqWaitsOneInsn, At
<1>. QED BY <1>1, MainInvariant, PTL

\* When the line is polled, no frame IRQ is overdue: for every table of frame steps and of
\* instructions, a mode change or a reset on its way included (cpu.c 114-147, apu.c
\* 912-925).
THEOREM FrameIrqTheorem == MainSpec => []FrameIrqNotOverdue
<1>1. MainInv => FrameIrqNotOverdue
  <2> SUFFICES ASSUME MainInv, pc = "irq", ~fiveStep, ~irqDisable PROVE lag <= FrameIrqIn
    BY DEF FrameIrqNotOverdue
  <2>1. /\ frame \in FrameCounter /\ InTime(frame) /\ phase \in {0, 1} /\ frame.step \in 0..4
        /\ lag \in Nat /\ deadline \in Nat
    BY CounterFields DEF MainInv, ApuInv, ApuTypeOK, LoopTypeOK
  <2>2. FrameIrqIn \in Int /\ FrameIrqIn >= 0
    BY <2>1, IrqInFacts, FrameIrqInFacts DEF MainInv, FifthStepOK
  <2>3. (lag = 0 \/ lag < deadline) /\ deadline <= FrameIrqIn + 1
    BY DEF MainInv, LagOK, Covered
  <2>4. QED
    BY <2>1, <2>2, <2>3
<1>. QED BY <1>1, MainInvariant, PTL

-----------------------------------------------------------------------------
(***************************************************************************)
(* The twin of ApuBatching.  An APU is what its cycles move, with the      *)
(* registers that decide how.  Between the two lies the way from the twin  *)
(* to the batched APU, one CPU cycle at a time: a function r from the      *)
(* number of cycles to an APU, made longer by an iteration of the batched  *)
(* APU, whose n cycles are n single ones, and shorter by a cycle of the    *)
(* twin; when nothing is owed the two are the same.                        *)
(***************************************************************************)
Apu ==
  [phase |-> phase, frame |-> frame, frameIrq |-> frameIrq, length |-> length,
   quarters |-> quarters, five |-> fiveStep, disable |-> irqDisable, halt |-> halt,
   enabled |-> enabled]
TwinApu ==
  [phase |-> tPhase, frame |-> tFrame, frameIrq |-> tFrameIrq, length |-> tLength,
   quarters |-> tQuarters, five |-> tFiveStep, disable |-> tIrqDisable, halt |-> tHalt,
   enabled |-> tEnabled]

\* The parts of an iteration, for either of them.
TicksOf(s, n) == (n + s.phase) \div 2
Resets(f) == f.resetDelay = 1
Settled(f, ph) ==
  [f EXCEPT
     !.irq = @ /\ ph = 0,
     !.quarter = FALSE,
     !.half = FALSE,
     !.resetDelay = IF @ > 0 THEN @ - 1 ELSE 0,
     !.countdown = IF Resets(f) THEN 0 ELSE @,
     !.step = IF Resets(f) THEN 0 ELSE @]
ClockedBy(l, h, n) == IF h THEN l ELSE IF l < n THEN 0 ELSE l - n
Raises(f, five, disable) == f.step = 3 /\ ~five /\ ~disable
LastOf(five) == IF five THEN 4 ELSE 3
DueOf(f, five, disable) ==
  [f EXCEPT
     !.quarter = @ \/ f.step # 3 \/ ~five,
     !.half = @ \/ f.step \in {1, 4} \/ (f.step = 3 /\ ~five),
     !.irq = @ \/ Raises(f, five, disable),
     !.step = IF f.step >= LastOf(five) THEN 0 ELSE f.step + 1,
     !.countdown = IF f.step >= LastOf(five) THEN 0 ELSE Target(f) + 1]
Ticked(f, t, five, disable) ==
  IF Expires(f, t) THEN DueOf(f, five, disable) ELSE [f EXCEPT !.countdown = @ + t]
Halves(s) == Count(s.frame.half) + Count(Resets(s.frame) /\ s.five)
Quarters(s) == Count(s.frame.quarter) + Count(Resets(s.frame) /\ s.five)

\* What an iteration of n cycles makes of it.
After(s, n) ==
  LET f == Settled(s.frame, s.phase)
      t == TicksOf(s, n)
  IN [phase    |-> (s.phase + n) % 2,
      frame    |-> Ticked(f, t, s.five, s.disable),
      frameIrq |-> s.frameIrq \/ (s.frame.irq /\ ~s.disable)
                     \/ (Expires(f, t) /\ Raises(f, s.five, s.disable)),
      length   |-> ClockedBy(s.length, s.halt, Halves(s)),
      quarters |-> (s.quarters + Quarters(s)) % QuarterWrap,
      five     |-> s.five, disable |-> s.disable, halt |-> s.halt, enabled |-> s.enabled]

LEMMA StepIsAfter ==
  ASSUME NEW n \in StepLengths, ApuStep(n)
  PROVE  Apu' = After(Apu, n)
<1> DEFINE f == Settled(frame, phase)  t == TicksIn(n)
<1>1. AfterPending = f
  BY DEF AfterPending, Settled, ResetDue, Resets
<1>2. TicksOf(Apu, n) = t /\ Halves(Apu) = HalfClocks /\ Quarters(Apu) = QuarterClocks
  BY DEF TicksOf, TicksIn, Apu, Halves, Quarters, HalfClocks, QuarterClocks, ResetDue, Resets
<1>3. FrameTick(f, t) = Ticked(f, t, fiveStep, irqDisable)
  BY Zenon DEF FrameTick, Ticked, StepDue, DueOf, RaisesIrq, Raises, LastStep, LastOf
<1>4. frame' = Ticked(f, t, fiveStep, irqDisable)
  BY <1>1, <1>3 DEF ApuStep
<1>5. frameIrq' = (frameIrq \/ (frame.irq /\ ~irqDisable)
                     \/ (Expires(f, t) /\ Raises(f, fiveStep, irqDisable)))
  BY <1>1, Zenon DEF ApuStep, PendingIrqSets, RaisesIrq, Raises
<1>6. length' = ClockedBy(length, halt, HalfClocks)
  BY Zenon DEF ApuStep, Clocked, ClockedBy
<1>7. /\ quarters' = (quarters + QuarterClocks) % QuarterWrap
      /\ phase' = (phase + n) % 2
      /\ UNCHANGED <<fiveStep, irqDisable, halt, enabled>>
  BY DEF ApuStep, modeVars
<1> HIDE DEF f, t
<1>. QED BY <1>2, <1>4, <1>5, <1>6, <1>7, Zenon DEF After, Apu, f

LEMMA TwinStepIsAfter ==
  ASSUME NEW n, Twin!ApuStep(n)
  PROVE  TwinApu' = After(TwinApu, n)
<1> DEFINE f == Settled(tFrame, tPhase)  t == Twin!TicksIn(n)
<1>1. Twin!AfterPending = f
  BY DEF Twin!AfterPending, Settled, Twin!ResetDue, Resets
<1>2. TicksOf(TwinApu, n) = t /\ Halves(TwinApu) = Twin!HalfClocks
      /\ Quarters(TwinApu) = Twin!QuarterClocks
  BY DEF TicksOf, Twin!TicksIn, TwinApu, Halves, Quarters, Twin!HalfClocks, Twin!QuarterClocks,
         Twin!ResetDue, Resets, Count, Twin!Count
<1>3. /\ \A g : Twin!Target(g) = Target(g)
      /\ \A g, u : Twin!Expires(g, u) = Expires(g, u)
  BY DEF Twin!Target, Target, Twin!Expires, Expires
<1>4. Twin!FrameTick(f, t) = Ticked(f, t, tFiveStep, tIrqDisable)
  BY <1>3, Zenon DEF Twin!FrameTick, Ticked, Twin!StepDue, DueOf, Twin!RaisesIrq, Raises,
         Twin!LastStep, LastOf
<1>5. tFrame' = Ticked(f, t, tFiveStep, tIrqDisable)
  BY <1>1, <1>4 DEF Twin!ApuStep
<1>6. tFrameIrq' = (tFrameIrq \/ (tFrame.irq /\ ~tIrqDisable)
                      \/ (Expires(f, t) /\ Raises(f, tFiveStep, tIrqDisable)))
  BY <1>1, <1>3, Zenon DEF Twin!ApuStep, Twin!PendingIrqSets, Twin!RaisesIrq, Raises
<1>7. tLength' = ClockedBy(tLength, tHalt, Twin!HalfClocks)
  BY Zenon DEF Twin!ApuStep, Twin!Clocked, ClockedBy
<1>8. /\ tQuarters' = (tQuarters + Twin!QuarterClocks) % QuarterWrap
      /\ tPhase' = (tPhase + n) % 2
      /\ UNCHANGED <<tFiveStep, tIrqDisable, tHalt, tEnabled>>
  BY DEF Twin!ApuStep, Twin!modeVars
<1> HIDE DEF f, t
<1>. QED BY <1>2, <1>5, <1>6, <1>7, <1>8, Zenon DEF After, TwinApu, f

\* Nothing waits to be done: ApuTicksExecute may skip.
Quiet(s) ==
  /\ s.frame \in FrameCounter
  /\ ~s.frame.irq /\ ~s.frame.quarter /\ ~s.frame.half /\ s.frame.resetDelay = 0
  /\ s.phase \in {0, 1} /\ s.length \in Nat /\ s.quarters \in 0..(QuarterWrap - 1)
  /\ s.frameIrq \in BOOLEAN

\* The cycles to the event of the frame counter.
CyclesLeft(s) == 2 * (Target(s.frame) - s.frame.countdown + 1) - s.phase

LEMMA QuietSettles ==
  ASSUME NEW s, Quiet(s)
  PROVE  Settled(s.frame, s.phase) = s.frame /\ Halves(s) = 0 /\ Quarters(s) = 0 /\ ~Resets(s.frame)
<1> DEFINE f == s.frame
<1>1. f \in FrameCounter /\ f.irq = FALSE /\ f.quarter = FALSE /\ f.half = FALSE /\ f.resetDelay = 0
  BY CounterFields DEF Quiet
<1>2. ~Resets(f)
  BY <1>1 DEF Resets
<1> HIDE DEF f
<1>3. Settled(f, s.phase) \in FrameCounter
  <2>1. (f.irq /\ s.phase = 0) \in BOOLEAN /\ (IF f.resetDelay > 0 THEN f.resetDelay - 1 ELSE 0) \in 0..4
        /\ (IF Resets(f) THEN 0 ELSE f.countdown) \in Nat /\ (IF Resets(f) THEN 0 ELSE f.step) \in 0..4
    BY <1>1, CounterFields
  <2>. QED BY <1>1, <2>1, Zenon DEF Settled, FrameCounter
<1>4. /\ Settled(f, s.phase).irq = (f.irq /\ s.phase = 0) /\ Settled(f, s.phase).quarter = FALSE
      /\ Settled(f, s.phase).half = FALSE /\ Settled(f, s.phase).resetDelay = 0
      /\ Settled(f, s.phase).countdown = f.countdown /\ Settled(f, s.phase).step = f.step
  <2>1. (IF f.resetDelay > 0 THEN f.resetDelay - 1 ELSE 0) = 0
    BY <1>1
  <2>. QED BY <1>1, <1>2, <2>1, Zenon DEF Settled, FrameCounter
<1>5. (f.irq /\ s.phase = 0) = FALSE
  BY <1>1, Zenon
<1>6. \A g, h \in FrameCounter :
        /\ g.irq = h.irq /\ g.quarter = h.quarter /\ g.half = h.half
        /\ g.resetDelay = h.resetDelay /\ g.countdown = h.countdown /\ g.step = h.step
        => g = h
  BY DEF FrameCounter
<1>7. Settled(f, s.phase) = f
  BY <1>1, <1>3, <1>4, <1>5, <1>6, Zenon
<1>. QED BY <1>1, <1>2, <1>7 DEF Halves, Quarters, Count, f

\* A step that stops before the event of the frame counter counts only.
LEMMA QuietStep ==
  ASSUME NEW s, Quiet(s), NEW n \in Nat, ~Expires(s.frame, TicksOf(s, n))
  PROVE  After(s, n) = [phase |-> (s.phase + n) % 2,
                        frame |-> [s.frame EXCEPT !.countdown = @ + TicksOf(s, n)],
                        frameIrq |-> s.frameIrq, length |-> s.length, quarters |-> s.quarters,
                        five |-> s.five, disable |-> s.disable, halt |-> s.halt,
                        enabled |-> s.enabled]
<1>1. Settled(s.frame, s.phase) = s.frame /\ Halves(s) = 0 /\ Quarters(s) = 0
  BY QuietSettles
<1>2. ClockedBy(s.length, s.halt, 0) = s.length /\ (s.quarters + 0) % QuarterWrap = s.quarters
  BY ApuConstants DEF Quiet, ClockedBy
<1>3. (s.frameIrq \/ (s.frame.irq /\ ~s.disable)
        \/ (Expires(s.frame, TicksOf(s, n)) /\ Raises(s.frame, s.five, s.disable))) = s.frameIrq
  BY Zenon DEF Quiet
<1>4. Ticked(s.frame, TicksOf(s, n), s.five, s.disable) = [s.frame EXCEPT !.countdown = @ + TicksOf(s, n)]
  BY Zenon DEF Ticked
<1>. QED BY <1>1, <1>2, <1>3, <1>4, Zenon DEF After

\* Counting on changes nothing else of the frame counter.
LEMMA CountedOn ==
  ASSUME NEW f \in FrameCounter, NEW t \in Nat
  PROVE  LET g == [f EXCEPT !.countdown = @ + t]
         IN /\ g \in FrameCounter /\ g.countdown = f.countdown + t /\ g.step = f.step
            /\ g.irq = f.irq /\ g.quarter = f.quarter /\ g.half = f.half
            /\ g.resetDelay = f.resetDelay /\ Target(g) = Target(f)
            /\ \A u \in Nat : [g EXCEPT !.countdown = @ + u] = [f EXCEPT !.countdown = @ + (t + u)]
            /\ \A five, disable : DueOf(g, five, disable) = DueOf(f, five, disable)
<1> DEFINE g == [f EXCEPT !.countdown = @ + t]
<1>1. f.countdown + t \in Nat /\ f.countdown \in Nat
  BY CounterFields
<1>2. /\ g \in FrameCounter /\ g.countdown = f.countdown + t /\ g.step = f.step
      /\ g.irq = f.irq /\ g.quarter = f.quarter /\ g.half = f.half
      /\ g.resetDelay = f.resetDelay
  BY <1>1, Zenon DEF FrameCounter
<1>3. DOMAIN f = {"step", "countdown", "resetDelay", "quarter", "half", "irq"}
      /\ DOMAIN g = DOMAIN f
  BY <1>2, Zenon DEF FrameCounter
<1>4. Target(g) = Target(f)
  BY <1>2 DEF Target
<1>5. ASSUME NEW u \in Nat
      PROVE  [g EXCEPT !.countdown = @ + u] = [f EXCEPT !.countdown = @ + (t + u)]
  <2>1. (f.countdown + t) + u = f.countdown + (t + u)
    BY <1>1
  <2>. QED BY <2>1 DEF FrameCounter
<1>6. ASSUME NEW five, NEW disable
      PROVE  DueOf(g, five, disable) = DueOf(f, five, disable)
  <2> DEFINE q == f.quarter \/ f.step # 3 \/ ~five
             h == f.half \/ f.step \in {1, 4} \/ (f.step = 3 /\ ~five)
             i == f.irq \/ Raises(f, five, disable)
             st == IF f.step >= LastOf(five) THEN 0 ELSE f.step + 1
             c == IF f.step >= LastOf(five) THEN 0 ELSE Target(f) + 1
  <2>1. DueOf(f, five, disable)
          = [f EXCEPT !.quarter = q, !.half = h, !.irq = i, !.step = st, !.countdown = c]
    BY <1>3, Zenon DEF DueOf
  <2>2. DueOf(g, five, disable)
          = [g EXCEPT !.quarter = q, !.half = h, !.irq = i, !.step = st, !.countdown = c]
    BY <1>2, <1>3, <1>4, Zenon DEF DueOf, Raises
  <2> HIDE DEF q, h, i, st, c
  <2>3. [g EXCEPT !.quarter = q, !.half = h, !.irq = i, !.step = st, !.countdown = c]
          = [f EXCEPT !.quarter = q, !.half = h, !.irq = i, !.step = st, !.countdown = c]
    BY DEF FrameCounter
  <2>. QED BY <2>1, <2>2, <2>3
<1>. QED BY <1>2, <1>4, <1>5, <1>6

\* A step of k + 1 cycles is one of k and one more, up to the event of the frame counter.
LEMMA OneMore ==
  ASSUME NEW s, Quiet(s), NEW k \in Nat \ {0}, k + 1 <= CyclesLeft(s)
  PROVE  After(After(s, k), 1) = After(s, k + 1)
<1> DEFINE f == s.frame  t == TicksOf(s, k)  g == [f EXCEPT !.countdown = @ + t]
           q == After(s, k)
<1>1. /\ f \in FrameCounter /\ f.countdown \in Nat /\ Target(f) \in Nat /\ s.phase \in {0, 1}
      /\ k + 1 <= 2 * (Target(f) - f.countdown + 1) - s.phase
  BY CounterFields DEF Quiet, CyclesLeft
<1>2. /\ t \in Nat /\ f.countdown + t <= Target(f) /\ (s.phase + k) % 2 \in {0, 1}
      /\ TicksOf(s, k + 1) = t + (1 + ((s.phase + k) % 2)) \div 2
      /\ (((s.phase + k) % 2) + 1) % 2 = (s.phase + (k + 1)) % 2
  <2> DEFINE c == f.countdown  T == Target(f)  ph == s.phase
  <2> HIDE DEF c, T, ph, f
  <2>1. c \in Nat /\ T \in Nat /\ ph \in {0, 1} /\ k + 1 <= 2 * (T - c + 1) - ph
    BY <1>1 DEF c, T, ph
  <2>2. /\ (k + ph) \div 2 \in Nat /\ c + (k + ph) \div 2 <= T /\ (ph + k) % 2 \in {0, 1}
        /\ ((k + 1) + ph) \div 2 = (k + ph) \div 2 + (1 + ((ph + k) % 2)) \div 2
        /\ (((ph + k) % 2) + 1) % 2 = (ph + (k + 1)) % 2
    BY <2>1
  <2>. QED BY <2>2 DEF TicksOf, c, T, ph
<1>3. /\ g \in FrameCounter /\ g.countdown = f.countdown + t /\ g.step = f.step
      /\ g.irq = f.irq /\ g.quarter = f.quarter /\ g.half = f.half
      /\ g.resetDelay = f.resetDelay /\ Target(g) = Target(f)
      /\ \A u \in Nat : [g EXCEPT !.countdown = @ + u] = [f EXCEPT !.countdown = @ + (t + u)]
      /\ \A five, disable : DueOf(g, five, disable) = DueOf(f, five, disable)
  BY <1>1, <1>2, CountedOn
<1>4. q = [phase |-> (s.phase + k) % 2, frame |-> g, frameIrq |-> s.frameIrq,
           length |-> s.length, quarters |-> s.quarters, five |-> s.five,
           disable |-> s.disable, halt |-> s.halt, enabled |-> s.enabled]
  <2>1. ~Expires(f, t)
    BY <1>1, <1>2 DEF Expires
  <2>. QED BY <2>1, QuietStep
<1>5. Quiet(q)
  <2> HIDE DEF g
  <2>1. /\ q.phase = (s.phase + k) % 2 /\ q.frame = g /\ q.frameIrq = s.frameIrq
        /\ q.length = s.length /\ q.quarters = s.quarters
    BY <1>4
  <2>. QED BY <1>2, <1>3, <2>1 DEF Quiet
<1> HIDE DEF g, q
<1>6. /\ q.phase = (s.phase + k) % 2 /\ q.frame = g /\ q.frameIrq = s.frameIrq
      /\ q.length = s.length /\ q.quarters = s.quarters /\ q.five = s.five
      /\ q.disable = s.disable /\ q.halt = s.halt /\ q.enabled = s.enabled
  BY <1>4
<1> DEFINE u == TicksOf(q, 1)
<1>7. u \in {0, 1} /\ TicksOf(s, k + 1) = t + u
      /\ (q.phase + 1) % 2 = (s.phase + (k + 1)) % 2
  BY <1>2, <1>6 DEF TicksOf
<1> HIDE DEF t, u, f
<1>8. Settled(s.frame, s.phase) = f /\ Halves(s) = 0 /\ Quarters(s) = 0
      /\ Settled(q.frame, q.phase) = g /\ Halves(q) = 0 /\ Quarters(q) = 0
  BY <1>5, <1>6, QuietSettles DEF f
<1>9. Expires(g, u) <=> Expires(f, t + u)
  <2> DEFINE c == f.countdown  T == Target(f)  e == g.countdown
  <2>1. c \in Nat /\ T \in Nat /\ t \in Nat /\ c + t <= T /\ e = c + t /\ u \in {0, 1} /\ Target(g) = T
    BY <1>1, <1>2, <1>3, <1>7
  <2> HIDE DEF c, T, e
  <2>2. (u > 0 /\ e + u > T) <=> (t + u > 0 /\ c + (t + u) > T)
    BY <2>1
  <2>. QED BY <2>1, <2>2 DEF Expires, c, T, e
<1>10. Ticked(g, u, s.five, s.disable) = Ticked(f, t + u, s.five, s.disable)
  <2>1. u \in Nat
    BY <1>7
  <2>. QED BY <1>3, <1>9, <2>1, Zenon DEF Ticked
<1>11. Raises(g, s.five, s.disable) = Raises(f, s.five, s.disable)
  BY <1>3, Zenon DEF Raises
<1>12. /\ (q.frameIrq \/ (q.frame.irq /\ ~q.disable) \/ (Expires(g, u) /\ Raises(g, q.five, q.disable)))
          = (s.frameIrq \/ (s.frame.irq /\ ~s.disable) \/ (Expires(f, t + u) /\ Raises(f, s.five, s.disable)))
  <2>1. (q.frameIrq \/ (q.frame.irq /\ ~q.disable) \/ (Expires(g, u) /\ Raises(g, q.five, q.disable)))
        <=> (s.frameIrq \/ (s.frame.irq /\ ~s.disable) \/ (Expires(f, t + u) /\ Raises(f, s.five, s.disable)))
    BY <1>3, <1>6, <1>9, <1>11, Zenon DEF f
  <2>2. \A a, b \in BOOLEAN : (a <=> b) => a = b
    OBVIOUS
  <2>. QED BY <2>1, <2>2, Zenon
<1> DEFINE irqNow == s.frameIrq \/ (s.frame.irq /\ ~s.disable)
                       \/ (Expires(f, t + u) /\ Raises(f, s.five, s.disable))
           then == [phase |-> (s.phase + (k + 1)) % 2,
                    frame |-> Ticked(f, t + u, s.five, s.disable),
                    frameIrq |-> irqNow,
                    length |-> ClockedBy(s.length, s.halt, 0),
                    quarters |-> (s.quarters + 0) % QuarterWrap,
                    five |-> s.five, disable |-> s.disable, halt |-> s.halt, enabled |-> s.enabled]
<1>13. After(s, k + 1) = then
  BY <1>7, <1>8, Zenon DEF After
<1>14. After(q, 1) = then
  <2>1. After(q, 1) =
          [phase |-> (q.phase + 1) % 2,
           frame |-> Ticked(g, u, q.five, q.disable),
           frameIrq |-> q.frameIrq \/ (q.frame.irq /\ ~q.disable)
                          \/ (Expires(g, u) /\ Raises(g, q.five, q.disable)),
           length |-> ClockedBy(q.length, q.halt, 0),
           quarters |-> (q.quarters + 0) % QuarterWrap,
           five |-> q.five, disable |-> q.disable, halt |-> q.halt, enabled |-> q.enabled]
    BY <1>8, Zenon DEF After, u
  <2>2. (q.frameIrq \/ (q.frame.irq /\ ~q.disable)
           \/ (Expires(g, u) /\ Raises(g, q.five, q.disable))) = irqNow
    BY <1>12, Zenon
  <2> HIDE DEF irqNow
  <2>. QED BY <1>6, <1>7, <1>10, <2>1, <2>2
<1> HIDE DEF then
<1>15. q = After(s, k)
  BY DEF q
<1>. QED BY <1>13, <1>14, <1>15, Zenon

-----------------------------------------------------------------------------
(* The twin's way to the APU: one state a cycle. *)

\* r is the way of m cycles from one state to another.
Way(r, m, from, to) ==
  /\ r[0] = from /\ r[m] = to
  /\ \A i \in 0..(m - 1) : r[i + 1] = After(r[i], 1)

LEMMA LongerWay ==
  ASSUME NEW r, NEW m \in Nat, NEW n \in Nat \ {0}, NEW from, NEW to,
         Way(r, m, from, to),
         n = 1 \/ (Quiet(to) /\ n <= CyclesLeft(to))
  PROVE  \E q : Way(q, m + n, from, After(to, n))
<1> DEFINE q == [i \in 0..(m + n) |-> IF i <= m THEN r[i] ELSE After(to, i - m)]
<1>1. \A i \in 0..(m + n) : q[i] = IF i <= m THEN r[i] ELSE After(to, i - m)
  OBVIOUS
<1>2. \A i \in 0..(m + n) : i \in Nat /\ i <= m + n
  OBVIOUS
<1>3. r[0] = from /\ r[m] = to /\ \A i \in 0..(m - 1) : r[i + 1] = After(r[i], 1)
  BY DEF Way
<1> HIDE DEF q
<1>4. q[0] = from
  <2>. QED BY <1>1, <1>3
<1>5. q[m + n] = After(to, n)
  <2>1. m + n \in 0..(m + n) /\ ~(m + n <= m) /\ (m + n) - m = n
    OBVIOUS
  <2>. QED BY <1>1, <2>1, Zenon
<1>6. ASSUME NEW i \in 0..((m + n) - 1) PROVE q[i + 1] = After(q[i], 1)
  <2>1. i \in 0..(m + n) /\ i + 1 \in 0..(m + n) /\ i \in Nat
    OBVIOUS
  <2>2. CASE i < m
    <3>1. i \in 0..(m - 1) /\ i <= m /\ i + 1 <= m
      BY <2>1, <2>2
    <3>. QED BY <1>1, <1>3, <2>1, <3>1, Zenon
  <2>3. CASE i = m
    <3>1. i <= m /\ ~(i + 1 <= m) /\ (i + 1) - m = 1
      BY <2>1, <2>3
    <3>. QED BY <1>1, <1>3, <2>1, <2>3, <3>1, Zenon
  <2>4. CASE i > m
    <3> DEFINE k == i - m
    <3>1. k \in Nat \ {0} /\ k + 1 <= n /\ (i + 1) - m = k + 1 /\ ~(i <= m) /\ ~(i + 1 <= m)
      BY <2>1, <2>4
    <3>2. Quiet(to) /\ k + 1 <= CyclesLeft(to)
      <4>1. n <= CyclesLeft(to) /\ Quiet(to)
        BY <3>1
      <4>2. CyclesLeft(to) \in Int
        BY <4>1, CounterFields DEF CyclesLeft, Quiet
      <4>. QED BY <3>1, <4>1, <4>2
    <3>3. q[i] = After(to, k) /\ q[i + 1] = After(to, k + 1)
      BY <1>1, <2>1, <3>1, Zenon
    <3> HIDE DEF k
    <3>. QED BY <3>1, <3>2, <3>3, OneMore
  <2>. QED BY <2>1, <2>2, <2>3, <2>4
<1>7. Way(q, m + n, from, After(to, n))
  BY <1>4, <1>5, <1>6, Zenon DEF Way
<1>. QED BY <1>7

LEMMA ShorterWay ==
  ASSUME NEW r, NEW m \in Nat \ {0}, NEW from, NEW to,
         Way(r, m, from, to)
  PROVE  \E q : Way(q, m - 1, After(from, 1), to)
<1> DEFINE q == [i \in 0..(m - 1) |-> r[i + 1]]
<1>1. \A i \in 0..(m - 1) : q[i] = r[i + 1]
  OBVIOUS
<1>2. r[0] = from /\ r[m] = to /\ \A i \in 0..(m - 1) : r[i + 1] = After(r[i], 1)
  BY DEF Way
<1> HIDE DEF q
<1>3. q[0] = After(from, 1)
  <2>1. 0 \in 0..(m - 1) /\ 0 + 1 = 1
    OBVIOUS
  <2>. QED BY <1>1, <1>2, <2>1
<1>4. q[m - 1] = to
  <2>1. m - 1 \in 0..(m - 1) /\ (m - 1) + 1 = m
    OBVIOUS
  <2>. QED BY <1>1, <1>2, <2>1
<1>5. ASSUME NEW i \in 0..((m - 1) - 1) PROVE q[i + 1] = After(q[i], 1)
  <2>1. i \in 0..(m - 1) /\ i + 1 \in 0..(m - 1)
    OBVIOUS
  <2>. QED BY <1>1, <1>2, <2>1, Zenon
<1>6. Way(q, m - 1, After(from, 1), to)
  BY <1>3, <1>4, <1>5, Zenon DEF Way
<1>. QED BY <1>6

Behind == owed + tTodo - todo

\* The twin is Behind cycles behind the APU.
TwinInv ==
  /\ owed \in Nat /\ tTodo \in {0, 1} /\ todo <= owed /\ (todo > 0 => tTodo = 0)
  /\ (ApuAtRest => irq = frameIrq) /\ (Twin!ApuAtRest => tIrq = tFrameIrq)
  /\ \E r : Way(r, Behind, TwinApu, Apu)

LEMMA TwinInit ==
  ASSUME BatchInit
  PROVE  TwinInv
<1>1. /\ todo = 0 /\ tTodo = 0 /\ owed = 0
      /\ irq = frameIrq /\ tIrq = tFrameIrq
  BY Zenon DEF BatchInit, ApuInit, Twin!ApuInit
<1>2. TwinApu = Apu
  BY DEF BatchInit, ApuInit, Twin!ApuInit, TwinApu, Apu
<1>3. Behind = 0
  BY <1>1 DEF Behind
<1>4. Way([i \in {0} |-> Apu], 0, TwinApu, Apu)
  BY <1>2 DEF Way
<1>. QED BY <1>1, <1>3, <1>4 DEF TwinInv

\* Cycles are handed out: nothing moves.
LEMMA TwinIdle ==
  ASSUME TwinInv, ApuTypeOK,
         \/ \E n \in ApuBatches : CpuBatch(n)
         \/ TwinCycle
         \/ UNCHANGED batchVars
  PROVE  TwinInv'
<1>1. PICK r : Way(r, Behind, TwinApu, Apu)
  BY Zenon DEF TwinInv
<1>2. /\ UNCHANGED <<phase, frame, frameIrq, length, quarters, fiveStep, irqDisable, halt, enabled>>
      /\ UNCHANGED <<tPhase, tFrame, tFrameIrq, tLength, tQuarters, tFiveStep, tIrqDisable, tHalt,
                     tEnabled>>
      /\ UNCHANGED <<irq, tIrq>>
  BY DEF CpuBatch, TwinCycle, ApuTicks, Twin!ApuTicks, batchVars, apuVars, twinVars,
         seqVars, modeVars, irqVars, chanVars,
         Twin!seqVars, Twin!modeVars, Twin!irqVars, Twin!chanVars
<1>3. TwinApu' = TwinApu /\ Apu' = Apu
  BY <1>2 DEF TwinApu, Apu
<1>4. /\ owed' \in Nat /\ tTodo' \in {0, 1} /\ todo' <= owed' /\ (todo' > 0 => tTodo' = 0)
      /\ Behind' = Behind /\ (todo' = 0 => todo = 0) /\ (tTodo' = 0 => tTodo = 0)
  <2>0. owed \in Nat /\ tTodo \in {0, 1} /\ todo \in Nat
    BY DEF TwinInv, ApuTypeOK
  <2>1. CASE \E n \in ApuBatches : CpuBatch(n)
    <3>1. PICK n \in ApuBatches : CpuBatch(n)
      BY <2>1
    <3>2. /\ owed = 0 /\ todo = 0 /\ tTodo = 0 /\ owed' = n /\ todo' = n /\ tTodo' = 0
          /\ n \in Nat \ {0}
      BY <3>1, ApuConstants
         DEF CpuBatch, InStep, ApuTicks, ApuAtRest, Twin!ApuAtRest, twinVars
    <3>. QED BY <3>2 DEF Behind
  <2>2. CASE TwinCycle
    <3>1. todo = 0 /\ owed > 0 /\ tTodo = 0 /\ tTodo' = 1 /\ owed' = owed - 1 /\ todo' = todo
      BY <2>2 DEF TwinCycle, ApuAtRest, Twin!ApuTicks, Twin!ApuAtRest, apuVars
    <3>. QED BY <2>0, <3>1 DEF Behind
  <2>3. CASE UNCHANGED batchVars
    <3>1. UNCHANGED <<owed, todo, tTodo>>
      BY <2>3 DEF batchVars, apuVars, twinVars
    <3>. QED BY <2>0, <3>1 DEF Behind, TwinInv
  <2>. QED BY <2>1, <2>2, <2>3
<1>5. \E q : Way(q, Behind', TwinApu', Apu')
  BY <1>1, <1>3, <1>4, Zenon
<1>. QED BY <1>2, <1>4, <1>5 DEF TwinInv, ApuAtRest, Twin!ApuAtRest

\* An iteration makes the way longer.
LEMMA ApuMoves ==
  ASSUME TwinInv, ApuInv, NEW n \in StepLengths, ApuStep(n), UNCHANGED <<twinVars, owed>>
  PROVE  TwinInv'
<1>1. PICK r : Way(r, Behind, TwinApu, Apu)
  BY Zenon DEF TwinInv
<1>2. ApuTypeOK /\ InTime(frame) /\ todo \in Nat \ {0} /\ todo' = todo - n
      /\ irq' = IF n = todo THEN frameIrq' ELSE irq
  BY DEF ApuInv, ApuTypeOK, ApuStep, ApuAtRest
<1>3. /\ UNCHANGED <<tTodo, tFrameIrq, tIrq, owed>> /\ TwinApu' = TwinApu
  BY DEF twinVars, TwinApu
<1>4. Apu' = After(Apu, n)
  BY StepIsAfter
<1>5. /\ n \in Nat \ {0} /\ n <= todo
      /\ owed \in Nat /\ tTodo = 0 /\ todo <= owed
  BY <1>2 DEF StepLengths, TwinInv
<1>6. Behind \in Nat /\ Behind' = Behind + n /\ todo' \in Nat /\ todo' <= owed' /\ tTodo' = 0
  BY <1>2, <1>3, <1>5 DEF Behind
<1>7. n = 1 \/ (Quiet(Apu) /\ n <= CyclesLeft(Apu))
  <2>1. CASE Pending
    BY <2>1 DEF StepLengths
  <2>2. CASE ~Pending
    <3>1. n <= CyclesToFrameStep(frame)
      BY <2>2 DEF StepLengths
    <3>2. /\ Apu.frame = frame /\ Apu.phase = phase /\ Apu.length = length
          /\ Apu.quarters = quarters /\ Apu.frameIrq = frameIrq
      BY DEF Apu
    <3>3. frame \in FrameCounter /\ frame.resetDelay \in 0..4
      BY <1>2, CounterFields DEF ApuTypeOK
    <3>4. ~frame.irq /\ ~frame.quarter /\ ~frame.half /\ frame.resetDelay = 0
      BY <2>2, <3>3 DEF Pending
    <3>5. Quiet(Apu)
      BY <1>2, <3>2, <3>4, Zenon DEF Quiet, ApuTypeOK
    <3>. QED BY <3>1, <3>2, <3>5 DEF CyclesLeft, CyclesToFrameStep
  <2>. QED BY <2>1, <2>2
<1>8. \E q : Way(q, Behind + n, TwinApu, After(Apu, n))
  BY <1>1, <1>5, <1>6, <1>7, LongerWay
<1>9. \E q : Way(q, Behind', TwinApu', Apu')
  BY <1>3, <1>4, <1>6, <1>8, Zenon
<1>10. todo' = 0 => n = todo
  BY <1>2, <1>5
<1>11. todo' = 0 => irq' = frameIrq'
  BY <1>2, <1>10, Zenon
<1>12. Twin!ApuAtRest' => tIrq' = tFrameIrq'
  BY <1>3, Zenon DEF TwinInv, Twin!ApuAtRest
<1>. QED BY <1>3, <1>5, <1>6, <1>9, <1>11, <1>12 DEF TwinInv, ApuAtRest

\* A cycle of the twin makes it shorter.
LEMMA TwinMoves ==
  ASSUME TwinInv, ApuTypeOK, TwinStep
  PROVE  TwinInv'
<1>1. PICK r : Way(r, Behind, TwinApu, Apu)
  BY Zenon DEF TwinInv
<1>2. /\ Twin!ApuStep(1) /\ tTodo' = tTodo - 1 /\ tTodo # 0
      /\ tIrq' = IF 1 = tTodo THEN tFrameIrq' ELSE tIrq
  BY DEF TwinStep, Twin!ApuStep, Twin!ApuAtRest
<1>3. UNCHANGED <<todo, frameIrq, irq, owed>> /\ Apu' = Apu /\ todo = 0
  BY DEF TwinStep, apuVars, seqVars, modeVars, irqVars, chanVars, Apu, ApuAtRest
<1>4. owed \in Nat /\ tTodo = 1 /\ tTodo' = 0
  BY <1>2 DEF TwinInv
<1>5. TwinApu' = After(TwinApu, 1)
  BY <1>2, TwinStepIsAfter
<1>6. Behind \in Nat \ {0} /\ Behind' = Behind - 1
  BY <1>3, <1>4 DEF Behind
<1>7. \E q : Way(q, Behind - 1, After(TwinApu, 1), Apu)
  BY <1>1, <1>6, ShorterWay
<1>8. \E q : Way(q, Behind', TwinApu', Apu')
  BY <1>3, <1>5, <1>6, <1>7, Zenon
<1>9. irq' = frameIrq'
  BY <1>3, Zenon DEF TwinInv, ApuAtRest
<1>10. tIrq' = tFrameIrq'
  BY <1>2, <1>4
<1>11. todo' <= owed' /\ owed' \in Nat
  BY <1>3, <1>4
<1>. QED BY <1>4, <1>8, <1>9, <1>10, <1>11 DEF TwinInv

\* When both have served every cycle there is no way left.
LEMMA SameInStep ==
  ASSUME TwinInv, InStep
  PROVE  /\ tPhase = phase /\ tFrame = frame /\ tFrameIrq = frameIrq /\ tLength = length
         /\ tQuarters = quarters /\ tFiveStep = fiveStep /\ tIrqDisable = irqDisable
         /\ tHalt = halt /\ tEnabled = enabled
         /\ irq = frameIrq /\ tIrq = frameIrq
<1>1. PICK r : Way(r, Behind, TwinApu, Apu)
  BY Zenon DEF TwinInv
<1>2. todo = 0 /\ tTodo = 0 /\ owed = 0 /\ Behind = 0
  BY DEF InStep, ApuAtRest, Twin!ApuAtRest, Behind
<1>3. TwinApu = Apu
  BY <1>1, <1>2 DEF Way
<1>4. /\ TwinApu.phase = tPhase /\ TwinApu.frame = tFrame /\ TwinApu.frameIrq = tFrameIrq
      /\ TwinApu.length = tLength /\ TwinApu.quarters = tQuarters /\ TwinApu.five = tFiveStep
      /\ TwinApu.disable = tIrqDisable /\ TwinApu.halt = tHalt /\ TwinApu.enabled = tEnabled
  BY DEF TwinApu
<1>5. /\ Apu.phase = phase /\ Apu.frame = frame /\ Apu.frameIrq = frameIrq
      /\ Apu.length = length /\ Apu.quarters = quarters /\ Apu.five = fiveStep
      /\ Apu.disable = irqDisable /\ Apu.halt = halt /\ Apu.enabled = enabled
  BY DEF Apu
<1>6. irq = frameIrq /\ tIrq = tFrameIrq
  BY <1>2, Zenon DEF TwinInv, ApuAtRest, Twin!ApuAtRest
<1>. QED BY <1>3, <1>4, <1>5, <1>6, Zenon

\* A register access does the same to both.
LEMMA BothAccessed ==
  ASSUME TwinInv, ApuTypeOK, Access
  PROVE  TwinInv'
<1>1. InStep /\ todo = 0 /\ tTodo = 0 /\ owed = 0 /\ owed' = 0
  BY DEF Access, InStep, ApuAtRest, Twin!ApuAtRest
<1>2. /\ tPhase = phase /\ tFrame = frame /\ tFrameIrq = frameIrq /\ tLength = length
      /\ tQuarters = quarters /\ tFiveStep = fiveStep /\ tIrqDisable = irqDisable
      /\ tHalt = halt /\ tEnabled = enabled
      /\ irq = frameIrq /\ tIrq = frameIrq
  BY <1>1, SameInStep
<1> DEFINE Alike ==
      /\ tPhase' = phase' /\ tFrame' = frame' /\ tFrameIrq' = frameIrq' /\ tLength' = length'
      /\ tQuarters' = quarters' /\ tFiveStep' = fiveStep' /\ tIrqDisable' = irqDisable'
      /\ tHalt' = halt' /\ tEnabled' = enabled'
           Quits == todo' = 0 /\ tTodo' = 0 /\ irq' = frameIrq' /\ tIrq' = tFrameIrq'
<1>3. Alike /\ Quits
  <2>1. CASE ApuStatusRead /\ Twin!ApuStatusRead
    <3>1. (irq /\ ~frameIrq) = FALSE /\ (tIrq /\ ~tFrameIrq) = FALSE
      BY <1>2, Zenon
    <3>. QED BY <1>1, <1>2, <2>1, <3>1, Zenon
       DEF ApuStatusRead, Twin!ApuStatusRead, seqVars, modeVars, chanVars,
           Twin!seqVars, Twin!modeVars, Twin!chanVars
  <2>2. CASE \E e \in BOOLEAN : ApuStatusWrite(e) /\ Twin!ApuStatusWrite(e)
    BY <1>1, <1>2, <2>2, Zenon
       DEF ApuStatusWrite, Twin!ApuStatusWrite, seqVars, modeVars, Twin!seqVars, Twin!modeVars
  <2>3. CASE \E five, disable \in BOOLEAN :
               FrameCounterWrite(five, disable) /\ Twin!FrameCounterWrite(five, disable)
    <3>1. PICK five \in BOOLEAN, disable \in BOOLEAN :
                 FrameCounterWrite(five, disable) /\ Twin!FrameCounterWrite(five, disable)
      BY <2>3, Zenon
    <3>2. /\ UNCHANGED <<todo, phase, length, halt, enabled, quarters>>
          /\ UNCHANGED <<tTodo, tPhase, tLength, tHalt, tEnabled, tQuarters>>
          /\ fiveStep' = five /\ tFiveStep' = five
          /\ irqDisable' = disable /\ tIrqDisable' = disable
      BY <3>1 DEF FrameCounterWrite, Twin!FrameCounterWrite, chanVars, Twin!chanVars
    <3>3. tFrame' = frame'
      BY <1>2, <3>1, Zenon DEF FrameCounterWrite, Twin!FrameCounterWrite
    <3>4. tFrameIrq' = frameIrq' /\ irq' = frameIrq' /\ tIrq' = tFrameIrq'
      <4>1. /\ frameIrq' = (frameIrq /\ ~disable) /\ irq' = (irq /\ ~disable)
            /\ tFrameIrq' = (tFrameIrq /\ ~disable) /\ tIrq' = (tIrq /\ ~disable)
        BY <3>1, Zenon DEF FrameCounterWrite, Twin!FrameCounterWrite
      <4>. QED BY <1>2, <4>1, Zenon
    <3>. QED BY <1>1, <1>2, <3>2, <3>3, <3>4
  <2>4. CASE \E h \in BOOLEAN : HaltWrite(h) /\ Twin!HaltWrite(h)
    <3>1. PICK h \in BOOLEAN : HaltWrite(h) /\ Twin!HaltWrite(h)
      BY <2>4, Zenon
    <3>2. /\ UNCHANGED <<todo, phase, fiveStep, irqDisable, frameIrq, irq, enabled>>
          /\ UNCHANGED <<tTodo, tPhase, tFiveStep, tIrqDisable, tFrameIrq, tIrq, tEnabled>>
          /\ halt' = h /\ tHalt' = h
      BY <3>1 DEF HaltWrite, Twin!HaltWrite, modeVars, irqVars, Twin!modeVars, Twin!irqVars
    <3>3. tFrame' = frame' /\ tQuarters' = quarters'
      BY <1>2, <3>1, Zenon
         DEF HaltWrite, Twin!HaltWrite, Flush, Twin!Flush, Flushed, Twin!Flushed, Count, Twin!Count
    <3>4. tLength' = length'
      BY <1>2, <3>1, Zenon
         DEF HaltWrite, Twin!HaltWrite, Clocked, Twin!Clocked, Count, Twin!Count
    <3>. QED BY <1>1, <1>2, <3>2, <3>3, <3>4, Zenon
  <2>5. CASE \E load \in LengthLoads : LengthWrite(load) /\ Twin!LengthWrite(load)
    <3>1. PICK load \in LengthLoads : LengthWrite(load) /\ Twin!LengthWrite(load)
      BY <2>5, Zenon
    <3> DEFINE clocked == Clocked(Count(frame.half))
    <3>2. Twin!Clocked(Twin!Count(tFrame.half)) = clocked
      BY <1>2, Zenon DEF Clocked, Twin!Clocked, Count, Twin!Count
    <3>3. (Flush <=> frame' = Flushed /\ quarters' = (quarters + Count(frame.quarter)) % QuarterWrap)
          /\ (Twin!Flush <=> tFrame' = Flushed /\ tQuarters' = (quarters + Count(frame.quarter)) % QuarterWrap)
      BY <1>2, Zenon DEF Flush, Twin!Flush, Flushed, Twin!Flushed, Count, Twin!Count
    <3> HIDE DEF clocked
    <3>4. /\ UNCHANGED <<todo, phase, fiveStep, irqDisable, frameIrq, irq, halt, enabled>>
          /\ UNCHANGED <<tTodo, tPhase, tFiveStep, tIrqDisable, tFrameIrq, tIrq, tHalt, tEnabled>>
      BY <3>1 DEF LengthWrite, Twin!LengthWrite, modeVars, irqVars, Twin!modeVars, Twin!irqVars
    <3>5. CASE enabled
      <4>1. /\ Flush /\ length' = IF clocked = length THEN load ELSE clocked
            /\ Twin!Flush /\ tLength' = IF clocked = length THEN load ELSE clocked
        BY <1>2, <3>1, <3>2, <3>5, Zenon DEF LengthWrite, Twin!LengthWrite, clocked
      <4>. QED BY <1>1, <1>2, <3>3, <3>4, <4>1, Zenon
    <3>6. CASE ~enabled
      <4>1. UNCHANGED <<frame, quarters, length>> /\ UNCHANGED <<tFrame, tQuarters, tLength>>
        BY <1>2, <3>1, <3>6, Zenon DEF LengthWrite, Twin!LengthWrite
      <4>. QED BY <1>1, <1>2, <3>4, <4>1
    <3>. QED BY <3>5, <3>6
  <2>. QED BY <2>1, <2>2, <2>3, <2>4, <2>5 DEF Access
<1>4. Apu' = TwinApu'
  BY <1>3, Zenon DEF Apu, TwinApu
<1>5. Behind' = 0
  BY <1>1, <1>3 DEF Behind
<1>6. Way([i \in {0} |-> Apu'], 0, TwinApu', Apu')
  BY <1>4 DEF Way
<1>7. \E q : Way(q, Behind', TwinApu', Apu')
  BY <1>5, <1>6, Zenon
<1>8. owed' \in Nat /\ tTodo' \in {0, 1} /\ todo' <= owed' /\ ~(todo' > 0)
  BY <1>1, <1>3
<1>. QED BY <1>3, <1>7, <1>8, Zenon DEF TwinInv, ApuAtRest, Twin!ApuAtRest

\* Run in batches, the APU is the one of ApuSpec.
THEOREM BatchImplementsApu == BatchSpec => ApuSpec
<1>1. BatchInit => ApuInit
  BY DEF BatchInit
<1>2. [BatchNext]_batchVars => [ApuNext]_apuVars
  BY DEF BatchNext, CpuBatch, BatchStep, TwinCycle, TwinStep, Access, ApuNext, ApuWrite, batchVars
<1>. QED BY <1>1, <1>2, PTL DEF BatchSpec, ApuSpec

\* What joins the APU to its twin, in every state of both.
THEOREM TwinInvariant == BatchSpec => []TwinInv
<1>1. TwinInv /\ ApuInv /\ [BatchNext]_batchVars => TwinInv'
  <2> SUFFICES ASSUME TwinInv, ApuInv, [BatchNext]_batchVars PROVE TwinInv'
    OBVIOUS
  <2>0. ApuTypeOK
    BY DEF ApuInv
  <2>1. CASE BatchStep
    BY <2>1, ApuMoves DEF BatchStep
  <2>2. CASE TwinStep
    BY <2>0, <2>2, TwinMoves
  <2>3. CASE Access
    BY <2>0, <2>3, BothAccessed
  <2>4. CASE (\E n \in ApuBatches : CpuBatch(n)) \/ TwinCycle \/ UNCHANGED batchVars
    BY <2>0, <2>4, TwinIdle
  <2>. QED BY <2>1, <2>2, <2>3, <2>4 DEF BatchNext
<1>. QED BY <1>1, TwinInit, BatchImplementsApu, ApuInvariant, PTL DEF BatchSpec

\* SkippingIsExact of every reachable state, for every table of frame steps, batch and way
\* of cutting the time into iterations (apu.c 796-910).
THEOREM SkippingTheorem == BatchSpec => []SkippingIsExact
<1>1. TwinInv => SkippingIsExact
  BY SameInStep DEF SkippingIsExact
<1>. QED BY <1>1, TwinInvariant, PTL
=============================================================================
