------------------------------- MODULE ApuTone -------------------------------
(***************************************************************************)
(* A pulse channel, the triangle and the noise channel of apu/apu.c: their *)
(* timers and sequencers, the envelopes, the sweep, the length and linear  *)
(* counters, the outputs they cache, and the sample clock.                 *)
(* ApuTicksExecute does not count cycles: it steps to the next event,      *)
(* wraps the timer of a silent channel by division (ApuTimerSkipWraps) and *)
(* adds the mix of a step up by multiplication.                            *)
(*                                                                         *)
(* The frame counter is in ApuFrame: here its signals come at any tick.    *)
(* The DMC is in ApuDmc.  The mixer's tables are abstract: the mix is the  *)
(* sum of the outputs.                                                     *)
(***************************************************************************)
EXTENDS Integers, FiniteSetsExt

CONSTANTS
  Periods,         \* timer periods a program may write
  MinTimerPeriod,  \* MIN_TIMER_PERIOD, 8: a pulse with a shorter one is muted
  MaxPeriod,       \* SWEEP_OVERFLOW, 0x7FF
  DutySteps,       \* 8 positions of the pulse sequencer
  DutyHigh,        \* those at which the duty in use is 1
  TriangleSteps,   \* 32 positions of the triangle sequencer
  NoiseBits,       \* 15 bits of the noise shift register
  NoisePeriods,    \* noisePeriodTable
  MaxDecay,        \* MAX_DECAY_COUNTER, 15
  OnesComplement,  \* the sweep of the first pulse channel subtracts in one's complement
  Switches,        \* what a program writes to $4015
  Controls,        \* what a program writes to R0 of pulse and noise
  Sweeps,          \* to R1 of the pulse
  Linears,         \* to R0 of the triangle
  LengthLoads,     \* what the length table may load
  SampleRate,      \* AUDIO_SAMPLE_RATE
  ClockRate,       \* CPU_CLOCK_RATE
  ToneBatches,     \* the numbers of CPU cycles one ApuTicksExecute call covers
  MaxEvents        \* bound: register writes and quarter frame signals

ASSUME ToneConstants ==
  /\ Periods \subseteq 0..MaxPeriod
  /\ MinTimerPeriod \in Nat /\ MaxPeriod \in Nat
  /\ DutySteps \in Nat \ {0} /\ TriangleSteps \in Nat \ {0}
  /\ NoiseBits \in Nat \ {0} /\ MaxDecay \in Nat
  /\ NoisePeriods \subseteq Nat \ {0} /\ NoisePeriods # {}
  /\ SampleRate \in Nat \ {0} /\ ClockRate \in Nat /\ SampleRate < ClockRate
  /\ OnesComplement \in BOOLEAN /\ ToneBatches \subseteq Nat \ {0} /\ MaxEvents \in Nat
  /\ LengthLoads \subseteq Nat
  /\ \A v \in Sweeps : v.shift \in 0..7
  /\ \A c \in Controls : c.volume \in Nat

VARIABLES
  todo,    \* cpuCycles: what the running call still has to serve
  tone,    \* the state of the channels, their registers and the sample clock
  events   \* history: register writes and quarter frame signals

toneVars == <<todo, tone, events>>

\* ApuInit.  The sweep's target and the mix are not computed before the first write and
\* the first step.  pushed is the last sample handed to the audio backend.
PowerUp ==
  [phase |-> 0,
   on |-> [pulse |-> FALSE, tri |-> FALSE, noise |-> FALSE],
   pulse |-> [countdown |-> 0, period |-> 0, duty |-> 0, length |-> 0, out |-> 0,
              control |-> [loop |-> FALSE, constant |-> FALSE, volume |-> 0],
              start |-> FALSE, divider |-> 0, decay |-> 0],
   sweep |-> [enabled |-> FALSE, period |-> 0, negate |-> FALSE, shift |-> 0,
              reload |-> FALSE, divider |-> 0, target |-> 0, mute |-> FALSE],
   tri |-> [countdown |-> 0, period |-> 0, seq |-> 0, length |-> 0, out |-> TriangleSteps \div 2,
            control |-> [loop |-> FALSE, load |-> 0], linear |-> 0, reload |-> FALSE],
   noise |-> [countdown |-> Min(NoisePeriods), period |-> Min(NoisePeriods),
              lfsr |-> 1, mode |-> FALSE, length |-> 0, out |-> 0,
              control |-> [loop |-> FALSE, constant |-> FALSE, volume |-> 0],
              start |-> FALSE, divider |-> 0, decay |-> 0],
   base |-> 0, mix |-> 0, quarter |-> FALSE, half |-> FALSE,
   sum |-> 0, count |-> 0, clock |-> 0, pushed |-> 0]

-----------------------------------------------------------------------------
(* Outputs. *)

Level(ch) == IF ch.control.constant THEN ch.control.volume ELSE ch.decay

\* ApuPulseOutput, ApuTriangleOutput (beyond hearing: the level in the middle) and
\* ApuNoiseOutput.
PulseOutput(s) ==
  IF ~s.sweep.mute /\ s.pulse.length > 0 /\ s.pulse.duty \in DutyHigh THEN Level(s.pulse) ELSE 0
TriangleOutput(s) == IF s.tri.period < 2 THEN TriangleSteps \div 2 ELSE s.tri.seq
NoiseOutput(s) == IF s.noise.length > 0 /\ s.noise.lfsr % 2 = 0 THEN Level(s.noise) ELSE 0

\* ApuGetMixedSample.
Mixed(s) == s.pulse.out + s.tri.out + s.base

\* ApuUpdateOutput.
Updated(s) ==
  LET t == [s EXCEPT !.pulse.out = PulseOutput(s), !.tri.out = TriangleOutput(s),
                     !.noise.out = NoiseOutput(s), !.base = NoiseOutput(s)]
  IN  [t EXCEPT !.mix = Mixed(t)]

\* ApuSweepCalcTarget.
SweepTarget(s) ==
  LET change == s.pulse.period \div (2 ^ s.sweep.shift)
      target == IF s.sweep.negate THEN s.pulse.period - change - (IF OnesComplement THEN 1 ELSE 0)
                ELSE s.pulse.period + change
  IN  IF target < 0 THEN 0 ELSE target

SweepMutes(s, target) == s.pulse.period < MinTimerPeriod \/ target > MaxPeriod

SweepCalc(s) ==
  [s EXCEPT !.sweep.target = SweepTarget(s), !.sweep.mute = SweepMutes(s, SweepTarget(s))]

-----------------------------------------------------------------------------
(* The clocks of the frame counter. *)

\* ApuEnvelopeTick.
EnvelopeTick(ch) ==
  IF ch.start THEN [ch EXCEPT !.start = FALSE, !.decay = MaxDecay, !.divider = ch.control.volume]
  ELSE IF ch.divider > 0 THEN [ch EXCEPT !.divider = @ - 1]
  ELSE [ch EXCEPT !.divider = ch.control.volume,
                  !.decay = IF @ > 0 THEN @ - 1 ELSE IF ch.control.loop THEN MaxDecay ELSE 0]

\* ApuLinearCounterTick.
LinearTick(tri) ==
  [tri EXCEPT !.linear = IF tri.reload THEN tri.control.load ELSE IF @ > 0 THEN @ - 1 ELSE 0,
              !.reload = @ /\ tri.control.loop]

\* ApuLengthCounterTick.
LengthTick(ch) ==
  [ch EXCEPT !.length = IF @ > 0 /\ ~ch.control.loop THEN @ - 1 ELSE @]

SweepMoves(s) == s.sweep.divider = 0 /\ s.sweep.enabled /\ s.sweep.shift > 0 /\ ~s.sweep.mute

\* Faulty: the period that was swept leaves the next target as it was.
SweepTickStale(s) ==
  LET t == IF SweepMoves(s) THEN [s EXCEPT !.pulse.period = s.sweep.target] ELSE s
  IN  IF t.sweep.divider = 0 \/ t.sweep.reload
        THEN [t EXCEPT !.sweep.divider = t.sweep.period, !.sweep.reload = FALSE]
        ELSE [t EXCEPT !.sweep.divider = @ - 1]

\* ApuSweepTick.
SweepTick(s) ==
  LET t == IF SweepMoves(s) THEN SweepCalc([s EXCEPT !.pulse.period = s.sweep.target]) ELSE s
  IN  IF t.sweep.divider = 0 \/ t.sweep.reload
        THEN [t EXCEPT !.sweep.divider = t.sweep.period, !.sweep.reload = FALSE]
        ELSE [t EXCEPT !.sweep.divider = @ - 1]

QuarterTick(s) ==
  [s EXCEPT !.pulse = EnvelopeTick(@), !.noise = EnvelopeTick(@), !.tri = LinearTick(@)]

HalfTick(s) ==
  SweepTick([s EXCEPT !.pulse = LengthTick(@), !.tri = LengthTick(@), !.noise = LengthTick(@)])

\* ApuFlushFrameSignals.
Flushed(s) ==
  LET t == IF s.quarter THEN QuarterTick(s) ELSE s
      u == IF s.half THEN HalfTick(t) ELSE t
  IN  [u EXCEPT !.quarter = FALSE, !.half = FALSE]

Pending(s) == s.quarter \/ s.half

-----------------------------------------------------------------------------
(* The timers. *)

\* Faulty: the wrap that ends the first countdown is not counted.
SkippedShort(t, ticks) ==
  LET over == ticks - t.countdown - 1
  IN  [countdown |-> t.period - (over % (t.period + 1)), wraps |-> over \div (t.period + 1)]

\* ApuTimerSkipWraps: where the countdown is after so many ticks, and how often it
\* has wrapped on the way.
Skipped(t, ticks) ==
  LET over == ticks - t.countdown - 1
  IN  [countdown |-> t.period - (over % (t.period + 1)), wraps |-> (over \div (t.period + 1)) + 1]

PulseSounds(s) == ~s.sweep.mute /\ s.pulse.length > 0
TriangleSounds(s) == s.tri.length > 0 /\ s.tri.linear > 0

\* ApuPulseTick.
PulseTick(s, ticks) ==
  IF ticks <= s.pulse.countdown THEN [s EXCEPT !.pulse.countdown = @ - ticks]
  ELSE IF PulseSounds(s)
    THEN LET t == [s EXCEPT !.pulse.countdown = s.pulse.period, !.pulse.duty = (@ - 1) % DutySteps]
         IN  [t EXCEPT !.pulse.out = PulseOutput(t)]
    ELSE LET k == Skipped(s.pulse, ticks)
         IN  [s EXCEPT !.pulse.countdown = k.countdown, !.pulse.duty = (@ - k.wraps) % DutySteps]

\* ApuTriangleTick, at the rate of the CPU.
TriangleTick(s, cycles) ==
  IF cycles <= s.tri.countdown THEN [s EXCEPT !.tri.countdown = @ - cycles]
  ELSE IF TriangleSounds(s)
    THEN LET t == [s EXCEPT !.tri.countdown = s.tri.period, !.tri.seq = (@ + 1) % TriangleSteps]
         IN  [t EXCEPT !.tri.out = TriangleOutput(t)]
    ELSE [s EXCEPT !.tri.countdown = Skipped(s.tri, cycles).countdown]

\* ApuNoiseTick: the shift register runs whether or not it is heard.
NoiseTick(s, ticks) ==
  IF ticks < s.noise.countdown THEN [s EXCEPT !.noise.countdown = @ - ticks]
  ELSE LET tap == IF s.noise.mode THEN 2 ELSE 1
           feedback == (s.noise.lfsr + (s.noise.lfsr \div (2 ^ tap))) % 2
           t == [s EXCEPT !.noise.countdown = s.noise.period,
                          !.noise.lfsr = (@ \div 2) + (feedback * (2 ^ (NoiseBits - 1)))]
       IN  IF s.noise.length = 0 THEN t
           ELSE [t EXCEPT !.noise.out = NoiseOutput(t), !.base = NoiseOutput(t)]

-----------------------------------------------------------------------------
\* The sample accumulator: the mix before the step counts for all of its cycles but
\* the last.
Sampled(s, before, n) ==
  LET sum == s.sum + before * (n - 1) + s.mix
      count == s.count + n
      clock == s.clock + SampleRate * n
  IN  IF clock >= ClockRate
        THEN [s EXCEPT !.sum = 0, !.count = 0, !.clock = clock - ClockRate,
                       !.pushed = sum \div count]
        ELSE [s EXCEPT !.sum = sum, !.count = count, !.clock = clock]

\* The body of the loop of ApuTicksExecute for a step of n cycles.
Serve(s, n) ==
  LET ticks == (n + s.phase) \div 2
      due == IF Pending(s) THEN Updated(Flushed(s)) ELSE s
      ticked == IF ticks = 0 THEN due ELSE NoiseTick(PulseTick(due, ticks), ticks)
      played == TriangleTick(ticked, n)
      mixed == [played EXCEPT !.mix = Mixed(played)]
  IN  [Sampled(mixed, due.mix, n) EXCEPT !.phase = (s.phase + n) % 2]

\* ApuCyclesToChannelEvent: how far one step may go.
StepLengths ==
  IF Pending(tone) THEN {1} \cap 1..todo ELSE
  {n \in 1..todo :
     /\ PulseSounds(tone) => n <= 2 * (tone.pulse.countdown + 1) - tone.phase
     /\ TriangleSounds(tone) => n <= tone.tri.countdown + 1
     /\ n <= 2 * tone.noise.countdown - tone.phase
     /\ n <= (ClockRate - tone.clock + SampleRate - 1) \div SampleRate}

-----------------------------------------------------------------------------
(* Register writes: what they make of the state, before ApuUpdateOutput. *)

\* $4015: the length counters of the channels that are switched off become 0.
Status(s, on) ==
  [s EXCEPT !.on = on,
            !.pulse.length = IF on.pulse THEN @ ELSE 0,
            !.tri.length = IF on.tri THEN @ ELSE 0,
            !.noise.length = IF on.noise THEN @ ELSE 0]

\* R0: pending clocks come first.
PulseR0(s, c) == [Flushed(s) EXCEPT !.pulse.control = c]
TriangleR0(s, c) == [Flushed(s) EXCEPT !.tri.control = c]
NoiseR0(s, c) == [Flushed(s) EXCEPT !.noise.control = c]

\* R1: the sweep.
PulseR1(s, v) ==
  SweepCalc([s EXCEPT !.sweep.enabled = v.enabled, !.sweep.period = v.period,
                      !.sweep.negate = v.negate, !.sweep.shift = v.shift, !.sweep.reload = TRUE])

\* R2: a new period acts at the next wrap.
PulseR2(s, p) == SweepCalc([s EXCEPT !.pulse.period = p])
TriangleR2(s, p) == [s EXCEPT !.tri.period = p]
NoiseR2(s, p, mode) == [s EXCEPT !.noise.period = p, !.noise.mode = mode]

\* R3: a channel that is on gets a new length after the pending clocks, unless they
\* counted it.  The sweep is one of them and goes by the target of the period before.
Loaded(old, new, load) == IF new.length = old.length THEN load ELSE new.length

PulseR3(s, p, load) ==
  LET t == [s EXCEPT !.pulse.period = p, !.pulse.duty = 0]
      u == IF s.on.pulse
             THEN [Flushed(t) EXCEPT !.pulse.length = Loaded(t.pulse, Flushed(t).pulse, load)]
             ELSE t
  IN  SweepCalc([u EXCEPT !.pulse.start = TRUE])

TriangleR3(s, p, load) ==
  LET t == [s EXCEPT !.tri.period = p]
      u == IF s.on.tri
             THEN [Flushed(t) EXCEPT !.tri.length = Loaded(t.tri, Flushed(t).tri, load)]
             ELSE t
  IN  [u EXCEPT !.tri.reload = TRUE]

NoiseR3(s, load) ==
  LET u == IF s.on.noise
             THEN [Flushed(s) EXCEPT !.noise.length = Loaded(s.noise, Flushed(s).noise, load)]
             ELSE s
  IN  [u EXCEPT !.noise.start = TRUE]

AllOn == [pulse |-> TRUE, tri |-> TRUE, noise |-> TRUE]

\* A program that starts all three channels at once.
Started(s, p, load, c, tri) ==
  NoiseR3(NoiseR0(TriangleR3(TriangleR0(
    PulseR3(PulseR0(Status(s, AllOn), c), p, load), tri), p, load), c), load)

-----------------------------------------------------------------------------
\* ApuInit; the program has perhaps started the channels.
ToneInit ==
  /\ todo = 0
  /\ \/ tone = PowerUp
     \/ \E p \in Periods, load \in LengthLoads, c \in Controls, tri \in Linears :
          tone = Updated(Started(PowerUp, p, load, c, tri))
  /\ events = 0

ToneTicks(n) ==
  /\ todo = 0
  /\ todo' = n
  /\ UNCHANGED <<tone, events>>

\* Other channels may have their event earlier.  A tick of the frame counter may schedule
\* its signals for the next cycle.  (The clocks that a $4017 write in five-step mode gives
\* at once come like all others: at any time, a cycle late.)
ToneStep(n) ==
  /\ n \in StepLengths
  /\ todo' = todo - n
  /\ \E quarter, half \in BOOLEAN :
       /\ half => quarter
       /\ quarter => n + tone.phase > 1 /\ events < MaxEvents
       /\ tone' = [Serve(tone, n) EXCEPT !.quarter = quarter, !.half = half]
       /\ events' = IF quarter THEN events + 1 ELSE events

Write(s) ==
  /\ todo = 0
  /\ events < MaxEvents
  /\ events' = events + 1
  /\ tone' = Updated(s)
  /\ UNCHANGED todo

ToneWrite ==
  \/ \E on \in Switches : Write(Status(tone, on))
  \/ \E c \in Controls : Write(PulseR0(tone, c)) \/ Write(NoiseR0(tone, c))
  \/ \E c \in Linears : Write(TriangleR0(tone, c))
  \/ \E v \in Sweeps : Write(PulseR1(tone, v))
  \/ \E p \in Periods : Write(PulseR2(tone, p)) \/ Write(TriangleR2(tone, p))
  \/ \E p \in NoisePeriods, mode \in BOOLEAN : Write(NoiseR2(tone, p, mode))
  \/ \E p \in Periods, load \in LengthLoads :
       Write(PulseR3(tone, p, load)) \/ Write(TriangleR3(tone, p, load))
  \/ \E load \in LengthLoads : Write(NoiseR3(tone, load))

ToneNext ==
  \/ \E n \in ToneBatches : ToneTicks(n)
  \/ \E n \in StepLengths : ToneStep(n)
  \/ ToneWrite

ToneSpec == ToneInit /\ [][ToneNext]_toneVars

-----------------------------------------------------------------------------
\* What is cached is what the registers and counters give: the outputs, the base of the
\* mixer's index, and the sweep's target with its muting, on which skipping depends.  Clocks
\* still to come are not in it; nor is what ApuInit leaves to the first step and the first
\* write (apu.c 75-178, 406, 475-504, 527-531, 643-655, 814-826).  A swept period keeps
\* its 11 bits (apu.c 82).
OutputsAreFresh ==
  /\ <<tone.pulse.out, tone.tri.out, tone.noise.out>> =
       <<PulseOutput(tone), TriangleOutput(tone), NoiseOutput(tone)>>
  /\ tone.count > 0 => tone.mix = tone.pulse.out + tone.tri.out + tone.noise.out
SweepIsFresh ==
  /\ tone.pulse.period <= MaxPeriod
  /\ tone.pulse.length > 0 =>
       tone.sweep.target = SweepTarget(tone) /\ tone.sweep.mute = SweepMutes(tone, SweepTarget(tone))
CachesAreFresh == OutputsAreFresh /\ SweepIsFresh

\* n cycles served one by one.
CycleByCycle(n) ==
  LET after[k \in 0..n] == IF k = 0 THEN tone ELSE Serve(after[k - 1], 1)
  IN  after[n]

\* A step to the next event leaves the timers, the sequencers, the accumulated
\* samples and the sample pushed exactly as if every cycle had been served alone
\* (apu.c 450-532, 831-908), but for the first step, which uses the mix that ApuInit left.
StepIsExact ==
  [][\A n \in 1..todo :
       ToneStep(n) /\ tone.mix = Mixed(tone) =>
         tone' = [CycleByCycle(n) EXCEPT !.quarter = tone'.quarter, !.half = tone'.half]]_toneVars
=============================================================================
