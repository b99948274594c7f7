---------------------------- MODULE ApuDmc_proofs ----------------------------
(***************************************************************************)
(* Proofs about the delta modulation channel: its IRQ means a sample read  *)
(* to its end, and does not come before the deadline up to which the CPU   *)
(* batches its instructions.  Then the two channels of ApuDmcBatching: one *)
(* run in batches is, at every access, where one run cycle by cycle is.    *)
(* They hold for every rate, size of a sample and batch.                   *)
(***************************************************************************)
EXTENDS ApuDmcBatching, TLAPS

DmcTypeOK ==
  /\ todo \in Nat /\ phase \in {0, 1}
  /\ period \in Nat \ {0} /\ countdown \in Nat \ {0}
  /\ bits \in Nat \ {0} /\ bytes \in Nat
  /\ buffer = None \/ buffer \in {0, 1}
  /\ addr \in {0, 1}
  /\ level \in 0..LevelMax
  /\ control \in [irqEnabled : BOOLEAN, loop : BOOLEAN, size : Nat \ {0}]
  /\ dmcIrq \in BOOLEAN
  /\ promise \in Nat

\* An IRQ is to come.
Expected == control.irqEnabled /\ ~control.loop /\ bytes > 0

\* What is left of the deadline that the CPU was given is not more than the channel still
\* needs, counted to the half APU cycle; a step of an odd number of CPU cycles moves phase.
PromiseKept == Expected => promise <= ApuCyclesToDmcIRQ + 1 - phase

DmcInv == DmcTypeOK /\ IrqMeansSampleRead /\ PromiseKept

-----------------------------------------------------------------------------
(* The memory reader. *)

\* What a fetch does to a reader that has one: one byte less, the buffer full, and the
\* IRQ with the last byte (DmcMemoryReaderTick).
LEMMA FetchFacts ==
  ASSUME control \in [irqEnabled : BOOLEAN, loop : BOOLEAN, size : Nat \ {0}],
         NEW r, r.bytes \in Nat, r.addr \in {0, 1}, r.buffer = None \/ r.buffer \in {0, 1},
         r.irq \in BOOLEAN
  PROVE  /\ Fetch(r).bytes \in Nat /\ Fetch(r).addr \in {0, 1} /\ Fetch(r).irq \in BOOLEAN
         /\ Fetch(r).buffer = None \/ Fetch(r).buffer \in {0, 1}
         /\ r.irq => Fetch(r).irq
         /\ Fetch(r).irq /\ ~r.irq =>
              /\ r.bytes = 1 /\ r.buffer = None /\ Fetch(r).bytes = 0
              /\ control.irqEnabled /\ ~control.loop
         /\ r.bytes = 0 \/ r.buffer # None => Fetch(r) = r
         /\ r.bytes > 0 /\ r.buffer = None /\ ~control.loop =>
              Fetch(r).bytes = r.bytes - 1 /\ Fetch(r).buffer # None
         /\ r.bytes > 0 => Fetch(r).buffer # None
<1>1. control.irqEnabled \in BOOLEAN /\ control.loop \in BOOLEAN /\ control.size \in Nat \ {0}
  OBVIOUS
<1>2. CASE r.buffer # None \/ r.bytes = 0
  BY <1>2 DEF Fetch
<1>3. CASE r.buffer = None /\ r.bytes # 0
  <2> DEFINE last == r.bytes = 1
  <2>1. /\ Fetch(r).bytes = IF last /\ control.loop THEN control.size ELSE r.bytes - 1
        /\ Fetch(r).addr = IF last /\ control.loop THEN 0 ELSE (r.addr + 1) % 2
        /\ Fetch(r).buffer = r.addr
        /\ Fetch(r).irq = (r.irq \/ (last /\ ~control.loop /\ control.irqEnabled))
    BY <1>3, Zenon DEF Fetch
  <2>2. r.addr # None
    BY DEF None
  <2>3. Fetch(r).irq \in BOOLEAN /\ (r.irq => Fetch(r).irq)
        /\ (Fetch(r).irq /\ ~r.irq => last /\ ~control.loop /\ control.irqEnabled)
    BY <2>1, Zenon
  <2>. QED BY <1>1, <1>3, <2>1, <2>2, <2>3
<1>. QED BY <1>2, <1>3

-----------------------------------------------------------------------------
(* The deadline. *)

LEMMA DeadlineFacts ==
  ASSUME NEW ctl, NEW left \in Nat \ {0}, NEW buf, NEW b \in Nat \ {0}, NEW cd \in Nat \ {0},
         NEW p \in Nat \ {0}, ctl.irqEnabled, ~ctl.loop
  PROVE  /\ buf = None => DmcDeadline(ctl, left, buf, b, cd, p) = 2
         /\ buf # None =>
              DmcDeadline(ctl, left, buf, b, cd, p) = 2 * (cd + (b + (left - 1) * ByteBits - 1) * p)
         /\ (b + (left - 1) * ByteBits - 1) \in Nat
         /\ (b + (left - 1) * ByteBits - 1) * p \in Nat
         /\ DmcDeadline(ctl, left, buf, b, cd, p) \in Nat
         /\ DmcDeadline(ctl, left, buf, b, cd, p) >= 2
<1>1. (left - 1) * ByteBits \in Nat
  BY DmcConstants
<1> DEFINE k == b + (left - 1) * ByteBits - 1
<1>2. k \in Nat
  BY <1>1
<1>3. /\ buf = None => DmcDeadline(ctl, left, buf, b, cd, p) = 2
      /\ buf # None => DmcDeadline(ctl, left, buf, b, cd, p) = 2 * (cd + k * p)
  BY DEF DmcDeadline
<1> HIDE DEF k
<1>4. k * p \in Nat
  BY <1>2
<1>5. 2 * (cd + k * p) \in Nat /\ 2 * (cd + k * p) >= 2
  BY <1>4
<1>. QED BY <1>2, <1>3, <1>4, <1>5 DEF k

\* The deadline is a number in every state.
LEMMA DeadlineIsNat ==
  ASSUME NEW ctl, ctl.irqEnabled \in BOOLEAN, ctl.loop \in BOOLEAN, NEW left \in Nat, NEW buf,
         NEW b \in Nat \ {0}, NEW cd \in Nat \ {0}, NEW p \in Nat \ {0}
  PROVE  DmcDeadline(ctl, left, buf, b, cd, p) \in Nat
<1>1. CASE ctl.irqEnabled /\ ~ctl.loop /\ left # 0
  BY <1>1, DeadlineFacts
<1>2. CASE ~(ctl.irqEnabled /\ ~ctl.loop /\ left # 0)
  BY <1>2, DmcConstants DEF DmcDeadline
<1>. QED BY <1>1, <1>2

-----------------------------------------------------------------------------
(* The steps of ApuTicksExecute. *)

\* The APU ticks in a step, whose length the timer bounds.
LEMMA TicksFacts ==
  ASSUME DmcTypeOK, NEW n \in StepLengths
  PROVE  /\ n \in Nat \ {0} /\ n <= todo
         /\ TicksIn(n) \in Nat /\ TicksIn(n) <= countdown
         /\ (phase + n) % 2 \in {0, 1}
         /\ n + phase = 2 * TicksIn(n) + ((phase + n) % 2)
<1>1. n \in Nat \ {0} /\ n <= todo /\ n <= 2 * countdown - phase /\ phase \in {0, 1} /\ countdown \in Nat
  BY DEF StepLengths, DmcTypeOK
<1>. QED BY <1>1 DEF TicksIn

\* A step, by what the timer and the reader do in it.  A sample that has bytes left is
\* one that has more than it will have, and the deadline of the state reached is the old one
\* less the ticks, or the buffer was empty.
LEMMA StepFacts ==
  ASSUME DmcTypeOK, IrqMeansSampleRead, NEW n \in StepLengths,
         TimerRuns(TicksIn(n)) \/ TimerExpires(TicksIn(n)), UNCHANGED <<period, control>>
  PROVE  /\ countdown' \in Nat \ {0} /\ bits' \in Nat \ {0} /\ bytes' \in Nat
         /\ buffer' = None \/ buffer' \in {0, 1}
         /\ addr' \in {0, 1} /\ level' \in 0..LevelMax /\ dmcIrq' \in BOOLEAN
         /\ dmcIrq => dmcIrq' /\ bytes' = 0
         /\ dmcIrq' /\ ~dmcIrq =>
              /\ Expected /\ bytes' = 0 /\ TicksIn(n) > 0
              /\ TicksIn(n) = 1 => ApuCyclesToDmcIRQ = 2
         /\ ~control.loop /\ bytes' > 0 => bytes > 0
         /\ Expected /\ bytes' > 0 /\ buffer # None =>
              /\ buffer' # None
              /\ 2 * (countdown' + (bits' + (bytes' - 1) * ByteBits - 1) * period)
                   = ApuCyclesToDmcIRQ - 2 * TicksIn(n)
<1> DEFINE t == TicksIn(n)
<1>0. /\ phase \in {0, 1} /\ period \in Nat \ {0} /\ countdown \in Nat \ {0}
      /\ bits \in Nat \ {0} /\ bytes \in Nat /\ addr \in {0, 1} /\ level \in 0..LevelMax
      /\ buffer = None \/ buffer \in {0, 1}
      /\ control \in [irqEnabled : BOOLEAN, loop : BOOLEAN, size : Nat \ {0}]
      /\ dmcIrq \in BOOLEAN
      /\ dmcIrq => control.irqEnabled /\ bytes = 0
  BY DEF DmcTypeOK, IrqMeansSampleRead
<1>1. t \in Nat /\ t <= countdown
  BY TicksFacts
<1>2. /\ Reader.bytes = bytes /\ Reader.addr = addr /\ Reader.buffer = buffer /\ Reader.irq = dmcIrq
  BY DEF Reader
<1> DEFINE f == Fetch(Reader)
<1>3. /\ f.bytes \in Nat /\ f.addr \in {0, 1} /\ f.irq \in BOOLEAN
      /\ f.buffer = None \/ f.buffer \in {0, 1}
      /\ dmcIrq => f.irq
      /\ f.irq /\ ~dmcIrq =>
           bytes = 1 /\ buffer = None /\ f.bytes = 0 /\ control.irqEnabled /\ ~control.loop
      /\ bytes = 0 \/ buffer # None => f = Reader
      /\ bytes > 0 => f.buffer # None
  BY <1>0, <1>2, FetchFacts
<1>4. ApuCyclesToDmcIRQ = DmcDeadline(control, bytes, buffer, bits, countdown, period)
  BY DEF ApuCyclesToDmcIRQ
<1>5. /\ Expected => bytes \in Nat \ {0} /\ control.irqEnabled /\ ~control.loop
      /\ Expected /\ buffer = None => ApuCyclesToDmcIRQ = 2
      /\ Expected /\ buffer # None =>
           ApuCyclesToDmcIRQ = 2 * (countdown + (bits + (bytes - 1) * ByteBits - 1) * period)
  BY <1>0, <1>4, DeadlineFacts DEF Expected
<1> HIDE DEF t, f
<1>6. CASE TimerRuns(t)
  <2>1. /\ t < countdown /\ countdown' = countdown - t /\ bits' = bits /\ level' = level
        /\ \/ t = 0 /\ bytes' = bytes /\ addr' = addr /\ buffer' = buffer /\ dmcIrq' = dmcIrq
           \/ t > 0 /\ bytes' = f.bytes /\ addr' = f.addr /\ buffer' = f.buffer /\ dmcIrq' = f.irq
    BY <1>1, <1>2, <1>6 DEF TimerRuns, f
  <2>0. ASSUME Expected, buffer # None, bytes' = bytes
        PROVE  2 * (countdown' + (bits' + (bytes' - 1) * ByteBits - 1) * period)
                 = ApuCyclesToDmcIRQ - 2 * t
    <3> DEFINE k == (bits + (bytes - 1) * ByteBits - 1) * period
    <3>1. k \in Nat /\ ApuCyclesToDmcIRQ = 2 * (countdown + k)
      BY <1>0, <1>5, <2>0, DeadlineFacts
    <3>2. (bits' + (bytes' - 1) * ByteBits - 1) * period = k
      BY <2>0, <2>1
    <3> HIDE DEF k
    <3>. QED BY <1>0, <1>1, <2>1, <3>1, <3>2
  <2>2. CASE t = 0
    <3>1. bytes' = bytes /\ addr' = addr /\ buffer' = buffer /\ dmcIrq' = dmcIrq
      BY <2>1, <2>2
    <3>. QED BY <1>0, <1>5, <2>0, <2>1, <2>2, <3>1 DEF t
  <2>3. CASE t > 0
    <3>1. bytes' = f.bytes /\ addr' = f.addr /\ buffer' = f.buffer /\ dmcIrq' = f.irq
      BY <2>1, <2>3
    <3>2. /\ dmcIrq => dmcIrq' /\ bytes' = 0
          /\ dmcIrq' /\ ~dmcIrq => Expected /\ bytes' = 0 /\ ApuCyclesToDmcIRQ = 2
          /\ bytes' > 0 => bytes > 0
          /\ buffer # None => bytes' = bytes /\ buffer' = buffer
      BY <1>0, <1>2, <1>3, <1>5, <3>1 DEF Expected
    <3>. QED BY <1>0, <1>1, <1>3, <2>0, <2>1, <2>3, <3>1, <3>2 DEF t
  <2>. QED BY <1>1, <2>2, <2>3
<1>7. CASE TimerExpires(t)
  <2> DEFINE early == IF t > 1 THEN f ELSE Reader
             taken == IF bits = 1 THEN [early EXCEPT !.buffer = None] ELSE early
             r == Fetch(taken)
  <2>1. /\ t >= countdown /\ countdown' = period /\ level' = Moved(level)
        /\ bits' = IF bits = 1 THEN ByteBits ELSE bits - 1
        /\ bytes' = r.bytes /\ addr' = r.addr /\ buffer' = r.buffer /\ dmcIrq' = r.irq
    BY <1>7 DEF TimerExpires, f
  <2>2. t = countdown
    BY <1>0, <1>1, <2>1
  <2>3. level' \in 0..LevelMax
    BY <1>0, <2>1, DmcConstants DEF Moved
  <2>4. /\ early.bytes \in Nat /\ early.addr \in {0, 1} /\ early.irq \in BOOLEAN
        /\ early.buffer = None \/ early.buffer \in {0, 1}
        /\ dmcIrq => early.irq
        /\ early.irq /\ ~dmcIrq =>
             t > 1 /\ bytes = 1 /\ early.bytes = 0 /\ control.irqEnabled /\ ~control.loop
        /\ bytes = 0 \/ buffer # None => early = Reader
        /\ t = 1 => early = Reader
    BY <1>0, <1>1, <1>2, <1>3
  <2>5. /\ taken.bytes = early.bytes /\ taken.addr = early.addr /\ taken.irq = early.irq
        /\ taken.buffer = IF bits = 1 THEN None ELSE early.buffer
    <3>1. early = [bytes |-> early.bytes, addr |-> early.addr, buffer |-> early.buffer, irq |-> early.irq]
      BY DEF Reader, f, Fetch
    <3>. QED BY <3>1
  <2> HIDE DEF early, taken, r
  <2>6. /\ r.bytes \in Nat /\ r.addr \in {0, 1} /\ r.irq \in BOOLEAN
        /\ r.buffer = None \/ r.buffer \in {0, 1}
        /\ taken.irq => r.irq
        /\ r.irq /\ ~taken.irq =>
             taken.bytes = 1 /\ taken.buffer = None /\ r.bytes = 0 /\ control.irqEnabled /\ ~control.loop
        /\ taken.bytes = 0 \/ taken.buffer # None => r = taken
        /\ taken.bytes > 0 /\ taken.buffer = None /\ ~control.loop =>
             r.bytes = taken.bytes - 1 /\ r.buffer # None
    <3>1. /\ taken.bytes \in Nat /\ taken.addr \in {0, 1} /\ taken.irq \in BOOLEAN
          /\ taken.buffer = None \/ taken.buffer \in {0, 1}
      BY <2>4, <2>5
    <3>. QED BY <1>0, <3>1, FetchFacts DEF r
  <2>7. dmcIrq => dmcIrq' /\ bytes' = 0
    BY <1>0, <1>2, <2>1, <2>4, <2>5, <2>6
  <2>8. ~control.loop /\ bytes' > 0 => bytes > 0
    BY <1>0, <1>2, <2>1, <2>4, <2>5, <2>6
  <2>9. ASSUME dmcIrq', ~dmcIrq
        PROVE  Expected /\ bytes' = 0 /\ t > 0 /\ (t = 1 => ApuCyclesToDmcIRQ = 2)
    <3>1. CASE early.irq
      BY <1>0, <1>1, <2>1, <2>4, <2>5, <2>6, <2>9, <3>1 DEF Expected
    <3>2. CASE ~early.irq
      <4>1. /\ early.bytes = 1 /\ taken.buffer = None /\ bytes' = 0
            /\ control.irqEnabled /\ ~control.loop
        BY <2>1, <2>4, <2>5, <2>6, <2>9, <3>2
      <4>2. bytes > 0
        BY <1>0, <1>2, <2>4, <4>1
      <4>3. ASSUME t = 1 PROVE ApuCyclesToDmcIRQ = 2
        <5>1. bytes = 1 /\ countdown = 1 /\ (bits = 1 \/ buffer = None)
          BY <1>2, <2>2, <2>4, <2>5, <4>1, <4>3
        <5>2. CASE buffer = None
          BY <1>5, <4>1, <4>2, <5>2 DEF Expected
        <5>3. CASE buffer # None
          <6>1. ApuCyclesToDmcIRQ = 2 * (1 + (1 + (1 - 1) * ByteBits - 1) * period)
            BY <1>5, <4>1, <4>2, <5>1, <5>3 DEF Expected
          <6>2. (1 - 1) * ByteBits = 0
            BY DmcConstants
          <6>3. (1 + 0 - 1) * period = 0
            BY <1>0
          <6>. QED BY <6>1, <6>2, <6>3
        <5>. QED BY <5>2, <5>3
      <4>. QED BY <1>0, <2>2, <4>1, <4>2, <4>3 DEF Expected
    <3>. QED BY <3>1, <3>2, <2>4
  <2>10. ASSUME Expected, bytes' > 0, buffer # None
         PROVE  /\ buffer' # None
                /\ 2 * (countdown' + (bits' + (bytes' - 1) * ByteBits - 1) * period)
                     = ApuCyclesToDmcIRQ - 2 * t
    <3> DEFINE k == bits + (bytes - 1) * ByteBits - 1
    <3>1. k \in Nat /\ k * period \in Nat /\ ApuCyclesToDmcIRQ = 2 * (countdown + k * period)
      BY <1>0, <1>5, <2>10, DeadlineFacts
    <3>2. early.bytes = bytes /\ early.buffer = buffer
      BY <1>2, <2>4, <2>10
    <3>3. buffer' # None /\ bits' + (bytes' - 1) * ByteBits - 1 = k - 1 /\ k - 1 \in Int
      <4>1. CASE bits = 1
        <5>1. bytes' = bytes - 1 /\ buffer' # None /\ bits' = ByteBits
          BY <1>5, <2>1, <2>5, <2>6, <2>10, <3>2, <4>1
        <5>2. ByteBits + (bytes - 1 - 1) * ByteBits = (bytes - 1) * ByteBits /\ (bytes - 1) * ByteBits \in Int
          BY <1>0, DmcConstants
        <5>. QED BY <4>1, <5>1, <5>2, DmcConstants
      <4>2. CASE bits # 1
        <5>1. bytes' = bytes /\ buffer' = buffer /\ bits' = bits - 1
          BY <2>1, <2>5, <2>6, <2>10, <3>2, <4>2
        <5>2. (bytes - 1) * ByteBits \in Int
          BY <1>0, DmcConstants
        <5>. QED BY <1>0, <2>10, <5>1, <5>2
      <4>. QED BY <4>1, <4>2
    <3> HIDE DEF k
    <3>4. (k - 1) * period = k * period - period
      BY <1>0, <3>1
    <3>5. 2 * (period + (k - 1) * period) = 2 * (countdown + k * period) - 2 * countdown
      BY <1>0, <3>1, <3>4
    <3>. QED BY <2>1, <2>2, <3>1, <3>3, <3>5
  <2>11. bits' \in Nat \ {0}
    BY <1>0, <2>1, DmcConstants
  <2>. QED BY <1>0, <2>1, <2>3, <2>6, <2>7, <2>8, <2>9, <2>10, <2>11 DEF t
<1>. QED BY <1>6, <1>7 DEF t

-----------------------------------------------------------------------------
(* The invariant. *)

LEMMA DmcInitInv == DmcInit => DmcInv
<1> SUFFICES ASSUME DmcInit PROVE DmcInv
  OBVIOUS
<1>1. control \in [irqEnabled : {FALSE}, loop : {FALSE}, size : SampleBytes] /\ dmcIrq = FALSE
  BY DEF DmcInit
<1>2. control \in [irqEnabled : BOOLEAN, loop : BOOLEAN, size : Nat \ {0}] /\ control.irqEnabled = FALSE
  BY <1>1, DmcConstants
<1>3. dmcIrq \in BOOLEAN
  BY <1>1, Zenon
<1>4. /\ todo = 0 /\ phase = 0 /\ period \in DmcRates /\ countdown = period /\ bits = ByteBits
      /\ bytes = 0 /\ addr = 0 /\ buffer = None /\ level = 0 /\ promise = Never
  BY DEF DmcInit
<1>5. DmcTypeOK
  BY <1>2, <1>3, <1>4, DmcConstants DEF DmcTypeOK
<1>. QED BY <1>1, <1>2, <1>5, Zenon DEF DmcInv, IrqMeansSampleRead, PromiseKept, Expected

\* One iteration of the loop: what is left of the promise shrinks by its cycles, what
\* the channel needs by its ticks, and phase makes up for the half tick.
LEMMA DmcStepInv ==
  ASSUME DmcInv, NEW n \in StepLengths, DmcStep(n)
  PROVE  DmcInv'
<1>0. DmcTypeOK /\ IrqMeansSampleRead /\ PromiseKept
  BY DEF DmcInv
<1>1. /\ TimerRuns(TicksIn(n)) \/ TimerExpires(TicksIn(n))
      /\ phase' = (phase + n) % 2 /\ todo' = todo - n
      /\ UNCHANGED <<period, control>>
      /\ promise' = IF n = todo
                      THEN DmcDeadline(control, bytes', buffer', bits', countdown', period)
                      ELSE IF promise > n THEN promise - n ELSE 0
  BY DEF DmcStep
<1> DEFINE t == TicksIn(n)  D == ApuCyclesToDmcIRQ
           due == DmcDeadline(control, bytes', buffer', bits', countdown', period)
<1>2. /\ n \in Nat \ {0} /\ n <= todo /\ t \in Nat /\ phase' \in {0, 1}
      /\ n + phase = 2 * t + phase'
  BY <1>0, <1>1, TicksFacts
<1>3. /\ countdown' \in Nat \ {0} /\ bits' \in Nat \ {0} /\ bytes' \in Nat
      /\ buffer' = None \/ buffer' \in {0, 1}
      /\ addr' \in {0, 1} /\ level' \in 0..LevelMax /\ dmcIrq' \in BOOLEAN
      /\ dmcIrq => dmcIrq' /\ bytes' = 0
      /\ dmcIrq' /\ ~dmcIrq => Expected /\ bytes' = 0
      /\ ~control.loop /\ bytes' > 0 => bytes > 0
      /\ Expected /\ bytes' > 0 /\ buffer # None =>
           /\ buffer' # None
           /\ 2 * (countdown' + (bits' + (bytes' - 1) * ByteBits - 1) * period) = D - 2 * t
  BY <1>0, <1>1, StepFacts
<1>4. /\ phase \in {0, 1} /\ todo \in Nat /\ promise \in Nat /\ period \in Nat \ {0}
      /\ control.irqEnabled \in BOOLEAN /\ control.loop \in BOOLEAN
      /\ bits \in Nat \ {0} /\ countdown \in Nat \ {0} /\ bytes \in Nat
      /\ dmcIrq => control.irqEnabled
  BY <1>0 DEF DmcTypeOK, IrqMeansSampleRead
<1>5. due \in Nat
  BY <1>3, <1>4, DeadlineIsNat
<1>6. ApuCyclesToDmcIRQ' = due
  BY <1>1 DEF ApuCyclesToDmcIRQ
<1>7. promise' \in Nat
  BY <1>1, <1>2, <1>4, <1>5
<1>8. DmcTypeOK'
  <2>1. todo' \in Nat
    BY <1>1, <1>2, <1>4
  <2>. QED BY <1>0, <1>1, <1>2, <1>3, <1>7, <2>1 DEF DmcTypeOK
<1>9. IrqMeansSampleRead'
  <2>1. dmcIrq' => control.irqEnabled /\ bytes' = 0
    BY <1>3, <1>4, Zenon DEF Expected
  <2>. QED BY <1>1, <2>1, Zenon DEF IrqMeansSampleRead
<1>10. PromiseKept'
  <2> SUFFICES ASSUME Expected' PROVE promise' <= due + 1 - phase'
    BY <1>6 DEF PromiseKept
  <2>1. control.irqEnabled /\ ~control.loop /\ bytes' > 0 /\ Expected
    BY <1>1, <1>3 DEF Expected
  <2>2. /\ D \in Nat /\ D >= 2 /\ (buffer = None => D = 2)
    <3>1. bytes \in Nat \ {0}
      BY <1>4, <2>1 DEF Expected
    <3>. QED BY <1>4, <2>1, <3>1, DeadlineFacts DEF ApuCyclesToDmcIRQ
  <2>3. /\ due >= 2
        /\ buffer' # None =>
             due = 2 * (countdown' + (bits' + (bytes' - 1) * ByteBits - 1) * period)
    <3>1. bytes' \in Nat \ {0}
      BY <1>3, <2>1
    <3>. QED BY <1>3, <1>4, <2>1, <3>1, DeadlineFacts
  <2>4. D - 2 * t <= due
    <3>1. CASE buffer = None
      BY <1>2, <1>5, <2>2, <2>3, <3>1
    <3>2. CASE buffer # None
      <4>1. due = D - 2 * t
        BY <1>3, <2>1, <2>3, <3>2
      <4>. QED BY <1>5, <4>1
    <3>. QED BY <3>1, <3>2
  <2>5. promise <= D + 1 - phase
    BY <1>0, <2>1 DEF PromiseKept
  <2> HIDE DEF D, due, t
  <2>. QED BY <1>1, <1>2, <1>4, <1>5, <2>2, <2>3, <2>4, <2>5 DEF due
<1>. QED BY <1>8, <1>9, <1>10 DEF DmcInv

\* The register writes: each ends with a deadline for the state it leaves.
LEMMA DmcWriteInv ==
  ASSUME DmcInv, DmcWrite
  PROVE  DmcInv' /\ (dmcIrq' => dmcIrq)
<1>0. /\ DmcTypeOK /\ IrqMeansSampleRead
      /\ todo \in Nat /\ phase \in {0, 1} /\ period \in Nat \ {0} /\ countdown \in Nat \ {0}
      /\ bits \in Nat \ {0} /\ bytes \in Nat /\ addr \in {0, 1} /\ level \in 0..LevelMax
      /\ buffer = None \/ buffer \in {0, 1}
      /\ control \in [irqEnabled : BOOLEAN, loop : BOOLEAN, size : Nat \ {0}]
      /\ dmcIrq \in BOOLEAN
      /\ dmcIrq => control.irqEnabled /\ bytes = 0
  BY DEF DmcInv, DmcTypeOK, IrqMeansSampleRead
<1> DEFINE Written ==
             /\ UNCHANGED <<todo, phase, countdown, bits, buffer>>
             /\ period' \in Nat \ {0} /\ bytes' \in Nat /\ addr' \in {0, 1} /\ level' \in 0..LevelMax
             /\ control' \in [irqEnabled : BOOLEAN, loop : BOOLEAN, size : Nat \ {0}]
             /\ dmcIrq' \in BOOLEAN
             /\ dmcIrq' => dmcIrq /\ control'.irqEnabled /\ bytes' = 0
             /\ promise' = DmcDeadline(control', bytes', buffer', bits', countdown', period')
<1>1. Written
  <2>1. ASSUME NEW rate \in DmcRates, NEW enable \in BOOLEAN, NEW loop \in BOOLEAN,
               DmcControlWrite(rate, enable, loop)
        PROVE  Written
    <3>1. /\ period' = rate /\ control' = [control EXCEPT !.irqEnabled = enable, !.loop = loop]
          /\ dmcIrq' = (dmcIrq /\ enable)
          /\ promise' = DmcDeadline(control', bytes, buffer, bits, countdown, rate)
          /\ UNCHANGED <<todo, phase, countdown, bits, level, bytes, addr, buffer>>
      BY <2>1 DEF DmcControlWrite, timerVars, readerVars
    <3>2. /\ control' \in [irqEnabled : BOOLEAN, loop : BOOLEAN, size : Nat \ {0}]
          /\ control'.irqEnabled = enable
      BY <1>0, <3>1, Zenon
    <3>3. dmcIrq' \in BOOLEAN /\ (dmcIrq' => dmcIrq /\ enable /\ bytes = 0)
      BY <1>0, <3>1, Zenon
    <3>. QED BY <1>0, <3>1, <3>2, <3>3, DmcConstants
  <2>2. ASSUME NEW l \in {0, LevelMax}, DmcLoadWrite(l) PROVE Written
    BY <1>0, <2>2, DmcConstants DEF DmcLoadWrite, readerVars, ApuCyclesToDmcIRQ
  <2>3. ASSUME NEW size \in SampleBytes, DmcLengthWrite(size) PROVE Written
    <3>1. /\ control' = [control EXCEPT !.size = size]
          /\ promise' = DmcDeadline(control, bytes, buffer, bits, countdown, period)'
          /\ UNCHANGED <<todo, phase, countdown, bits, level, bytes, addr, buffer, period, dmcIrq>>
      BY <2>3 DEF DmcLengthWrite, timerVars, readerVars, ApuCyclesToDmcIRQ, DmcDeadline
    <3>. QED BY <1>0, <3>1, DmcConstants
  <2>4. ASSUME NEW on \in BOOLEAN, DmcEnableWrite(on) PROVE Written
    BY <1>0, <2>4 DEF DmcEnableWrite, timerVars
  <2>. QED BY <2>1, <2>2, <2>3, <2>4 DEF DmcWrite
<1>2. control'.irqEnabled \in BOOLEAN /\ control'.loop \in BOOLEAN
  BY <1>1
<1>3. promise' \in Nat
  BY <1>0, <1>1, <1>2, DeadlineIsNat
<1>4. DmcTypeOK'
  BY <1>0, <1>1, <1>3 DEF DmcTypeOK
<1>5. IrqMeansSampleRead' /\ (dmcIrq' => dmcIrq)
  BY <1>1, Zenon DEF IrqMeansSampleRead
<1>6. PromiseKept'
  <2>1. promise' = ApuCyclesToDmcIRQ'
    BY <1>1 DEF ApuCyclesToDmcIRQ
  <2> DEFINE now == promise'  at == ApuCyclesToDmcIRQ'  ph == phase'
  <2>2. now = at /\ now \in Nat /\ ph \in {0, 1}
    BY <1>0, <1>1, <1>3, <2>1
  <2> HIDE DEF now, at, ph
  <2>3. now <= at + 1 - ph
    BY <2>2
  <2>. QED BY <2>3 DEF PromiseKept, now, at, ph
<1>. QED BY <1>4, <1>5, <1>6 DEF DmcInv

\* A call of ApuTicksExecute begins, or nothing happens.
LEMMA DmcIdleInv ==
  ASSUME DmcInv, (\E n \in DmcBatches : DmcTicks(n)) \/ UNCHANGED dmcVars
  PROVE  DmcInv' /\ UNCHANGED dmcIrq
<1>1. /\ todo' \in Nat
      /\ UNCHANGED <<timerVars, period, readerVars, control, dmcIrq, promise>>
  BY DmcConstants DEF DmcInv, DmcTypeOK, DmcTicks, dmcVars
<1>2. UNCHANGED <<phase, countdown, bits, level, period, bytes, addr, buffer, control, dmcIrq, promise>>
  BY <1>1 DEF timerVars, readerVars
<1>3. ApuCyclesToDmcIRQ' = ApuCyclesToDmcIRQ
  BY <1>2 DEF ApuCyclesToDmcIRQ, DmcDeadline
<1>. QED BY <1>1, <1>2, <1>3 DEF DmcInv, DmcTypeOK, IrqMeansSampleRead, PromiseKept, Expected

-----------------------------------------------------------------------------
\* What the channel keeps in every state.
THEOREM DmcInvariant == DmcSpec => []DmcInv
<1>1. DmcInv /\ [DmcNext]_dmcVars => DmcInv'
  BY DmcStepInv, DmcWriteInv, DmcIdleInv DEF DmcNext
<1>. QED BY <1>1, DmcInitInv, PTL DEF DmcSpec

\* IrqMeansSampleRead of every reachable state, for every rate, size and batch.
THEOREM SampleReadTheorem == DmcSpec => []IrqMeansSampleRead
BY DmcInvariant, PTL DEF DmcInv

\* DmcDeadlineHolds of every step: the IRQ is not raised before the cycle up to which
\* ApuCyclesToDmcIRQ lets the CPU batch (apu.c 927-942).
THEOREM DmcDeadlineTheorem == DmcSpec => DmcDeadlineHolds
<1>1. DmcInv /\ [DmcNext]_dmcVars => (dmcIrq' /\ ~dmcIrq /\ todo - todo' = 1 => promise <= 2)
  <2> SUFFICES ASSUME DmcInv, [DmcNext]_dmcVars, dmcIrq', ~dmcIrq, todo - todo' = 1
               PROVE  promise <= 2
    OBVIOUS
  <2>1. PICK n \in StepLengths : DmcStep(n)
    BY DmcWriteInv, DmcIdleInv DEF DmcNext
  <2>2. /\ DmcTypeOK /\ IrqMeansSampleRead /\ PromiseKept
        /\ todo \in Nat /\ phase \in {0, 1} /\ promise \in Nat
    BY DEF DmcInv, DmcTypeOK
  <2>3. /\ TimerRuns(TicksIn(n)) \/ TimerExpires(TicksIn(n))
        /\ UNCHANGED <<period, control>> /\ todo' = todo - n
    BY <2>1 DEF DmcStep
  <2>4. /\ n = 1 /\ TicksIn(n) \in Nat /\ (phase + n) % 2 \in {0, 1}
        /\ n + phase = 2 * TicksIn(n) + ((phase + n) % 2)
    <3>1. n \in Nat
      BY <2>2, TicksFacts
    <3>2. n = 1
      BY <2>2, <2>3, <3>1
    <3>. QED BY <2>2, <3>2, TicksFacts
  <2>5. Expected /\ TicksIn(n) > 0 /\ (TicksIn(n) = 1 => ApuCyclesToDmcIRQ = 2)
    BY <2>2, <2>3, StepFacts
  <2>6. phase = 1 /\ TicksIn(n) = 1
    BY <2>2, <2>4, <2>5
  <2>7. promise <= 2 + 1 - 1
    BY <2>2, <2>5, <2>6 DEF PromiseKept
  <2>. QED BY <2>2, <2>7
<1>. QED BY <1>1, DmcInvariant, PTL DEF DmcSpec, DmcDeadlineHolds

-----------------------------------------------------------------------------
(***************************************************************************)
(* The twin of ApuDmcBatching.  The batched channel is ahead of its twin   *)
(* by the cycles the twin is owed.  What holds in between is that the way  *)
(* from the twin to it, one cycle at a time, exists: a function r from the *)
(* number of cycles to the state of a channel.  A step of n cycles of the  *)
(* batched channel makes the way longer by n, a cycle of the twin takes    *)
(* off its first place; when nothing is owed they are the same.  That n    *)
(* cycles at once are n single ones is put one cycle at a time too: k + 1  *)
(* of them are k and one more.                                             *)
(***************************************************************************)

\* The fetch of ApuDmc for a reader of either channel.
FetchBy(r, ctl) ==
  IF r.buffer # None \/ r.bytes = 0 THEN r
  ELSE LET last == r.bytes = 1
       IN [bytes  |-> IF last /\ ctl.loop THEN ctl.size ELSE r.bytes - 1,
           addr   |-> IF last /\ ctl.loop THEN 0 ELSE (r.addr + 1) % 2,
           buffer |-> r.addr,
           irq    |-> r.irq \/ (last /\ ~ctl.loop /\ ctl.irqEnabled)]

MovedTo(l, bit) ==
  CASE bit = 1 /\ l < LevelMax - 1 -> l + 2
    [] bit = 0 /\ l > 1 -> l - 2
    [] OTHER -> l

Channel ==
  [phase |-> phase, countdown |-> countdown, bits |-> bits, shiftReg |-> shiftReg, level |-> level,
   reader |-> Reader]
TwinChannel ==
  [phase |-> tPhase, countdown |-> tCountdown, bits |-> tBits, shiftReg |-> tShiftReg, level |-> tLevel,
   reader |-> Twin!Reader]

\* The ticks in n CPU cycles of a channel.
TicksOf(s, n) == (n + s.phase) \div 2
Emptied(r) == [bytes |-> r.bytes, addr |-> r.addr, buffer |-> None, irq |-> r.irq]

Ran(s, n, ctl) ==
  [phase     |-> (s.phase + n) % 2,
   countdown |-> s.countdown - TicksOf(s, n),
   bits      |-> s.bits, shiftReg |-> s.shiftReg, level |-> s.level,
   reader    |-> IF TicksOf(s, n) > 0 THEN FetchBy(s.reader, ctl) ELSE s.reader]

Expired(s, n, ctl, p) ==
  LET early == IF TicksOf(s, n) > 1 THEN FetchBy(s.reader, ctl) ELSE s.reader
  IN [phase     |-> (s.phase + n) % 2,
      countdown |-> p,
      bits      |-> IF s.bits = 1 THEN ByteBits ELSE s.bits - 1,
      shiftReg  |-> IF s.bits = 1 THEN early.buffer ELSE s.shiftReg,
      level     |-> MovedTo(s.level, s.shiftReg),
      reader    |-> FetchBy(IF s.bits = 1 THEN Emptied(early) ELSE early, ctl)]

\* What a step of n cycles makes of a channel.
After(s, n, ctl, p) ==
  IF TicksOf(s, n) < s.countdown THEN Ran(s, n, ctl) ELSE Expired(s, n, ctl, p)

LEMMA EmptiedFacts ==
  ASSUME NEW r, r = [bytes |-> r.bytes, addr |-> r.addr, buffer |-> r.buffer, irq |-> r.irq]
  PROVE  [r EXCEPT !.buffer = None] = Emptied(r)
<1> DEFINE b == r.bytes  a == r.addr  f == r.buffer  i == r.irq
<1>1. r = [bytes |-> b, addr |-> a, buffer |-> f, irq |-> i]
  OBVIOUS
<1>2. Emptied(r) = [bytes |-> b, addr |-> a, buffer |-> None, irq |-> i]
  BY DEF Emptied
<1> HIDE DEF b, a, f, i
<1>3. [[bytes |-> b, addr |-> a, buffer |-> f, irq |-> i] EXCEPT !.buffer = None]
        = [bytes |-> b, addr |-> a, buffer |-> None, irq |-> i]
  OBVIOUS
<1>. QED BY <1>1, <1>2, <1>3, Zenon

LEMMA FetchesAgree ==
  ASSUME NEW r
  PROVE  Fetch(r) = FetchBy(r, control) /\ Twin!Fetch(r) = FetchBy(r, tControl)
BY DEF Fetch, Twin!Fetch, FetchBy, None, Twin!None

\* One step of the loop, of the channel and of its twin.
LEMMA StepIsAfter ==
  ASSUME DmcTypeOK, NEW n \in StepLengths, TimerRuns(TicksIn(n)) \/ TimerExpires(TicksIn(n)),
         phase' = (phase + n) % 2
  PROVE  Channel' = After(Channel, n, control, period)
<1>1. TicksOf(Channel, n) = TicksIn(n) /\ TicksIn(n) \in Nat /\ countdown \in Nat
  BY TicksFacts DEF TicksOf, TicksIn, Channel, DmcTypeOK
<1>2. CASE TimerRuns(TicksIn(n))
  <2>1. Channel' = Ran(Channel, n, control)
    <3>1. Reader' = IF TicksIn(n) > 0 THEN FetchBy(Reader, control) ELSE Reader
      <4>1. Fetch(Reader) = FetchBy(Reader, control)
        BY FetchesAgree
      <4>2. CASE TicksIn(n) > 0
        <5>1. Reader' = [bytes |-> Fetch(Reader).bytes, addr |-> Fetch(Reader).addr,
                         buffer |-> Fetch(Reader).buffer, irq |-> Fetch(Reader).irq]
          BY <1>2, <4>2 DEF TimerRuns, Reader
        <5>2. Fetch(Reader) = [bytes |-> Fetch(Reader).bytes, addr |-> Fetch(Reader).addr,
                         buffer |-> Fetch(Reader).buffer, irq |-> Fetch(Reader).irq]
          BY DEF Fetch, Reader
        <5>. QED BY <4>1, <4>2, <5>1, <5>2
      <4>3. CASE ~(TicksIn(n) > 0)
        BY <1>2, <4>3 DEF TimerRuns, Reader
      <4>. QED BY <4>2, <4>3
    <3>2. phase' = (phase + n) % 2 /\ countdown' = countdown - TicksIn(n)
          /\ bits' = bits /\ shiftReg' = shiftReg /\ level' = level
      BY <1>2 DEF TimerRuns
    <3>. QED BY <1>1, <3>1, <3>2 DEF Ran, Channel
  <2>2. TicksIn(n) < countdown
    BY <1>2 DEF TimerRuns
  <2>. QED BY <1>1, <2>1, <2>2 DEF After, Channel
<1>3. CASE TimerExpires(TicksIn(n))
  <2>1. Channel' = Expired(Channel, n, control, period)
    <3> DEFINE early == IF TicksIn(n) > 1 THEN Fetch(Reader) ELSE Reader
               taken == IF bits = 1 THEN [early EXCEPT !.buffer = None] ELSE early
    <3>1. /\ shiftReg' = IF bits = 1 THEN early.buffer ELSE shiftReg
          /\ bytes' = Fetch(taken).bytes /\ addr' = Fetch(taken).addr
          /\ buffer' = Fetch(taken).buffer /\ dmcIrq' = Fetch(taken).irq
      BY <1>3, Zenon DEF TimerExpires
    <3>2. early = [bytes |-> early.bytes, addr |-> early.addr, buffer |-> early.buffer, irq |-> early.irq]
      BY DEF Fetch, Reader
    <3>3. [early EXCEPT !.buffer = None] = Emptied(early)
      BY <3>2, EmptiedFacts, Zenon
    <3>4. taken = IF bits = 1 THEN Emptied(early) ELSE early
      BY <3>3, Zenon
    <3>5. taken = [bytes |-> taken.bytes, addr |-> taken.addr, buffer |-> taken.buffer, irq |-> taken.irq]
      BY <3>2, <3>4 DEF Emptied
    <3> HIDE DEF taken, early
    <3>6. Fetch(taken) = [bytes |-> Fetch(taken).bytes, addr |-> Fetch(taken).addr,
                          buffer |-> Fetch(taken).buffer, irq |-> Fetch(taken).irq]
      BY <3>5 DEF Fetch
    <3>7. Reader' = Fetch(taken)
      BY <3>1, <3>6, Zenon DEF Reader
    <3>8. Reader' = FetchBy(IF bits = 1 THEN Emptied(early) ELSE early, control)
      BY <3>4, <3>7, FetchesAgree, Zenon
    <3>9. early = IF TicksIn(n) > 1 THEN FetchBy(Reader, control) ELSE Reader
      BY FetchesAgree, Zenon DEF early
    <3>10. level' = MovedTo(level, shiftReg)
      BY <1>3 DEF TimerExpires, Moved, MovedTo
    <3>11. phase' = (phase + n) % 2 /\ countdown' = period
           /\ bits' = IF bits = 1 THEN ByteBits ELSE bits - 1
      BY <1>3, Zenon DEF TimerExpires
    <3>. QED BY <1>1, <3>1, <3>8, <3>9, <3>10, <3>11, Zenon DEF Expired, Channel
  <2>2. ~(TicksIn(n) < countdown)
    BY <1>1, <1>3 DEF TimerExpires
  <2>. QED BY <1>1, <2>1, <2>2 DEF After, Channel
<1>. QED BY <1>2, <1>3

\* One cycle of the twin.
LEMMA TwinCycleIsAfter ==
  ASSUME tPhase \in {0, 1}, tCountdown \in Nat \ {0},
         Twin!TimerRuns(Twin!TicksIn(1)) \/ Twin!TimerExpires(Twin!TicksIn(1)),
         tPhase' = (tPhase + 1) % 2
  PROVE  TwinChannel' = After(TwinChannel, 1, tControl, tPeriod)
<1> DEFINE t == Twin!TicksIn(1)
<1>1. TicksOf(TwinChannel, 1) = t /\ t \in {0, 1}
  BY DEF TicksOf, Twin!TicksIn, TwinChannel
<1>2. /\ Twin!Fetch(Twin!Reader) = FetchBy(Twin!Reader, tControl)
      /\ Twin!Reader = [bytes |-> tBytes, addr |-> tAddr, buffer |-> tBuffer, irq |-> tDmcIrq]
  BY FetchesAgree DEF Twin!Reader
<1> HIDE DEF t
<1>3. CASE Twin!TimerRuns(t)
  <2>1. Twin!Reader' = IF t > 0 THEN FetchBy(Twin!Reader, tControl) ELSE Twin!Reader
    <3>1. Twin!Fetch(Twin!Reader)
            = [bytes |-> Twin!Fetch(Twin!Reader).bytes, addr |-> Twin!Fetch(Twin!Reader).addr,
               buffer |-> Twin!Fetch(Twin!Reader).buffer, irq |-> Twin!Fetch(Twin!Reader).irq]
      BY DEF Twin!Fetch, Twin!Reader
    <3>. QED BY <1>2, <1>3, <3>1 DEF Twin!TimerRuns, Twin!Reader
  <2>2. /\ t < tCountdown /\ tCountdown' = tCountdown - t
        /\ tBits' = tBits /\ tShiftReg' = tShiftReg /\ tLevel' = tLevel
    BY <1>3 DEF Twin!TimerRuns
  <2>3. TwinChannel' = Ran(TwinChannel, 1, tControl)
    BY <1>1, <2>1, <2>2 DEF Ran, TwinChannel
  <2>. QED BY <1>1, <2>2, <2>3 DEF After, TwinChannel
<1>4. CASE Twin!TimerExpires(t)
  <2> DEFINE taken == IF tBits = 1 THEN Emptied(Twin!Reader) ELSE Twin!Reader
  <2>1. [Twin!Reader EXCEPT !.buffer = None] = Emptied(Twin!Reader)
    BY EmptiedFacts DEF Twin!Reader
  <2>2. /\ t >= tCountdown /\ tCountdown' = tPeriod
        /\ tBits' = IF tBits = 1 THEN ByteBits ELSE tBits - 1
        /\ tShiftReg' = IF tBits = 1 THEN tBuffer ELSE tShiftReg
        /\ tBytes' = Twin!Fetch(taken).bytes /\ tAddr' = Twin!Fetch(taken).addr
        /\ tBuffer' = Twin!Fetch(taken).buffer /\ tDmcIrq' = Twin!Fetch(taken).irq
    <3>1. ~(t > 1)
      BY <1>1
    <3>2. Twin!None = None
      BY DEF None, Twin!None
    <3>. QED BY <1>2, <1>4, <2>1, <3>1, <3>2, Zenon DEF Twin!TimerExpires
  <2>3. taken = [bytes |-> taken.bytes, addr |-> taken.addr, buffer |-> taken.buffer, irq |-> taken.irq]
    BY <1>2 DEF Emptied
  <2> HIDE DEF taken
  <2>4. Twin!Fetch(taken) = [bytes |-> Twin!Fetch(taken).bytes, addr |-> Twin!Fetch(taken).addr,
                             buffer |-> Twin!Fetch(taken).buffer, irq |-> Twin!Fetch(taken).irq]
    BY <2>3 DEF Twin!Fetch
  <2>5. Twin!Reader' = FetchBy(taken, tControl)
    BY <2>2, <2>4, FetchesAgree, Zenon DEF Twin!Reader
  <2>6. tLevel' = MovedTo(tLevel, tShiftReg)
    BY <1>4 DEF Twin!TimerExpires, Twin!Moved, MovedTo
  <2>7. Twin!Reader.buffer = tBuffer /\ ~(TicksOf(TwinChannel, 1) > 1)
    BY <1>1, <1>2
  <2>8. TwinChannel' = Expired(TwinChannel, 1, tControl, tPeriod)
    BY <2>2, <2>5, <2>6, <2>7, Zenon DEF Expired, TwinChannel, taken
  <2>9. ~(t < tCountdown)
    BY <1>1, <2>2
  <2>. QED BY <1>1, <2>8, <2>9 DEF After, TwinChannel
<1>. QED BY <1>3, <1>4 DEF t

-----------------------------------------------------------------------------
\* A reader that has fetched has nothing more to fetch.
LEMMA FetchOnce ==
  ASSUME NEW r, NEW ctl, r.addr \in {0, 1}, r.bytes \in Nat
  PROVE  FetchBy(FetchBy(r, ctl), ctl) = FetchBy(r, ctl)
BY DEF FetchBy, None

\* A step of k + 1 cycles is one of k and one more, as long as the timer allows it: that is
\* why ApuTicksExecute may take the time in steps up to the channel's next event.
LEMMA OneMore ==
  ASSUME NEW s, NEW ctl, NEW p, NEW k \in Nat \ {0},
         s.phase \in {0, 1}, s.countdown \in Nat \ {0}, s.reader.addr \in {0, 1},
         s.reader.bytes \in Nat, k + 1 <= 2 * s.countdown - s.phase
  PROVE  After(After(s, k, ctl, p), 1, ctl, p) = After(s, k + 1, ctl, p)
<1> DEFINE t == TicksOf(s, k)
           q == Ran(s, k, ctl)
<1>1. /\ t \in Nat /\ t < s.countdown /\ (s.phase + k) % 2 \in {0, 1}
      /\ TicksOf(s, k + 1) \in Nat
      /\ TicksOf(s, k + 1) = t + (1 + ((s.phase + k) % 2)) \div 2
      /\ (((s.phase + k) % 2) + 1) % 2 = (s.phase + (k + 1)) % 2
  BY DEF TicksOf
<1>2. After(s, k, ctl, p) = q
  BY <1>1, Zenon DEF After
<1>3. /\ q.phase = (s.phase + k) % 2 /\ q.countdown = s.countdown - t
      /\ q.bits = s.bits /\ q.shiftReg = s.shiftReg /\ q.level = s.level
      /\ q.reader = IF t > 0 THEN FetchBy(s.reader, ctl) ELSE s.reader
  BY DEF Ran
<1> DEFINE u == TicksOf(q, 1)
<1>4. u \in {0, 1} /\ TicksOf(s, k + 1) = t + u /\ (q.phase + 1) % 2 = (s.phase + (k + 1)) % 2
  BY <1>1, <1>3 DEF TicksOf
<1> HIDE DEF t, u, q
<1>5. CASE t + u < s.countdown
  <2>1. After(q, 1, ctl, p) = Ran(q, 1, ctl) /\ After(s, k + 1, ctl, p) = Ran(s, k + 1, ctl)
    <3>1. u < q.countdown
      BY <1>1, <1>3, <1>4, <1>5
    <3>. QED BY <1>4, <1>5, <3>1, Zenon DEF After, u
  <2>2. (IF u > 0 THEN FetchBy(q.reader, ctl) ELSE q.reader)
          = IF t + u > 0 THEN FetchBy(s.reader, ctl) ELSE s.reader
    BY <1>1, <1>3, <1>4, FetchOnce
  <2>3. q.countdown - u = s.countdown - (t + u)
    BY <1>1, <1>3, <1>4
  <2>4. Ran(q, 1, ctl) = Ran(s, k + 1, ctl)
    BY <1>3, <1>4, <2>2, <2>3, Zenon DEF Ran, u
  <2>. QED BY <1>2, <2>1, <2>4, Zenon
<1>6. CASE ~(t + u < s.countdown)
  <2>1. After(q, 1, ctl, p) = Expired(q, 1, ctl, p)
        /\ After(s, k + 1, ctl, p) = Expired(s, k + 1, ctl, p)
    <3>1. ~(u < q.countdown)
      BY <1>1, <1>3, <1>4, <1>6
    <3>. QED BY <1>4, <1>6, <3>1, Zenon DEF After, u
  <2>2. (IF u > 1 THEN FetchBy(q.reader, ctl) ELSE q.reader)
          = IF t + u > 1 THEN FetchBy(s.reader, ctl) ELSE s.reader
    <3>1. u = 1 /\ ~(u > 1) /\ (t + u > 1 <=> t > 0)
      BY <1>1, <1>4, <1>6
    <3>. QED BY <1>3, <3>1, Zenon
  <2>3. Expired(q, 1, ctl, p) = Expired(s, k + 1, ctl, p)
    BY <1>3, <1>4, <2>2, Zenon DEF Expired, u
  <2>. QED BY <1>2, <2>1, <2>3, Zenon
<1>. QED BY <1>5, <1>6

-----------------------------------------------------------------------------
(* The twin's way to the channel: one state a cycle. *)

\* r is the way of m cycles from one state to another.
Way(r, m, from, to, ctl, p) ==
  /\ r[0] = from /\ r[m] = to
  /\ \A i \in 0..(m - 1) : r[i + 1] = After(r[i], 1, ctl, p)

LEMMA LongerWay ==
  ASSUME NEW r, NEW m \in Nat, NEW n \in Nat \ {0}, NEW from, NEW to, NEW ctl, NEW p,
         Way(r, m, from, to, ctl, p),
         to.phase \in {0, 1}, to.countdown \in Nat \ {0}, to.reader.addr \in {0, 1},
         to.reader.bytes \in Nat, n <= 2 * to.countdown - to.phase
  PROVE  \E q : Way(q, m + n, from, After(to, n, ctl, p), ctl, p)
<1> DEFINE q == [i \in 0..(m + n) |-> IF i <= m THEN r[i] ELSE After(to, i - m, ctl, p)]
<1>1. \A i \in 0..(m + n) : q[i] = IF i <= m THEN r[i] ELSE After(to, i - m, ctl, p)
  OBVIOUS
<1>2. \A i \in 0..(m + n) : i \in Nat /\ i <= m + n
  OBVIOUS
<1>3. r[0] = from /\ r[m] = to /\ \A i \in 0..(m - 1) : r[i + 1] = After(r[i], 1, ctl, p)
  BY DEF Way
<1> HIDE DEF q
<1>4. q[0] = from
  <2>. QED BY <1>1, <1>3
<1>5. q[m + n] = After(to, n, ctl, p)
  <2>1. m + n \in 0..(m + n) /\ ~(m + n <= m) /\ (m + n) - m = n
    OBVIOUS
  <2>. QED BY <1>1, <2>1, Zenon
<1>6. ASSUME NEW i \in 0..((m + n) - 1) PROVE q[i + 1] = After(q[i], 1, ctl, p)
  <2>1. i \in 0..(m + n) /\ i + 1 \in 0..(m + n) /\ i \in Nat
    OBVIOUS
  <2>2. CASE i < m
    <3>1. i \in 0..(m - 1) /\ i <= m /\ i + 1 <= m
      BY <2>1, <2>2
    <3>. QED BY <1>1, <1>3, <2>1, <3>1, Zenon
  <2>3. CASE i = m
    <3>1. i <= m /\ ~(i + 1 <= m) /\ (i + 1) - m = 1
      BY <2>1, <2>3
    <3>. QED BY <1>1, <1>3, <2>1, <2>3, <3>1, Zenon
  <2>4. CASE i > m
    <3> DEFINE k == i - m
    <3>1. k \in Nat \ {0} /\ k + 1 <= n /\ (i + 1) - m = k + 1 /\ ~(i <= m) /\ ~(i + 1 <= m)
      BY <2>1, <2>4
    <3>2. k + 1 <= 2 * to.countdown - to.phase
      <4>1. 2 * to.countdown - to.phase \in Int
        OBVIOUS
      <4>. QED BY <3>1, <4>1
    <3>3. q[i] = After(to, k, ctl, p) /\ q[i + 1] = After(to, k + 1, ctl, p)
      BY <1>1, <2>1, <3>1, Zenon
    <3> HIDE DEF k
    <3>. QED BY <3>1, <3>2, <3>3, OneMore
  <2>. QED BY <2>1, <2>2, <2>3, <2>4
<1>7. Way(q, m + n, from, After(to, n, ctl, p), ctl, p)
  BY <1>4, <1>5, <1>6, Zenon DEF Way
<1>. QED BY <1>7

LEMMA ShorterWay ==
  ASSUME NEW r, NEW m \in Nat \ {0}, NEW from, NEW to, NEW ctl, NEW p,
         Way(r, m, from, to, ctl, p)
  PROVE  \E q : Way(q, m - 1, After(from, 1, ctl, p), to, ctl, p)
<1> DEFINE q == [i \in 0..(m - 1) |-> r[i + 1]]
<1>1. \A i \in 0..(m - 1) : q[i] = r[i + 1]
  OBVIOUS
<1>2. r[0] = from /\ r[m] = to /\ \A i \in 0..(m - 1) : r[i + 1] = After(r[i], 1, ctl, p)
  BY DEF Way
<1> HIDE DEF q
<1>3. q[0] = After(from, 1, ctl, p)
  <2>1. 0 \in 0..(m - 1) /\ 0 + 1 = 1
    OBVIOUS
  <2>. QED BY <1>1, <1>2, <2>1
<1>4. q[m - 1] = to
  <2>1. m - 1 \in 0..(m - 1) /\ (m - 1) + 1 = m
    OBVIOUS
  <2>. QED BY <1>1, <1>2, <2>1
<1>5. ASSUME NEW i \in 0..((m - 1) - 1) PROVE q[i + 1] = After(q[i], 1, ctl, p)
  <2>1. i \in 0..(m - 1) /\ i + 1 \in 0..(m - 1)
    OBVIOUS
  <2>. QED BY <1>1, <1>2, <2>1, Zenon
<1>6. Way(q, m - 1, After(from, 1, ctl, p), to, ctl, p)
  BY <1>3, <1>4, <1>5, Zenon DEF Way
<1>. QED BY <1>6

Behind == owed + tTodo - todo

\* The twin is Behind cycles behind the channel, with the same registers.
TwinInv ==
  /\ owed \in Nat /\ tTodo \in {0, 1} /\ todo <= owed /\ (todo > 0 => tTodo = 0)
  /\ tPhase \in {0, 1} /\ tCountdown \in Nat \ {0}
  /\ tPeriod = period /\ tControl = control
  /\ (DmcAtRest => irq = dmcIrq) /\ (Twin!DmcAtRest => tIrq = tDmcIrq)
  /\ \E r : Way(r, Behind, TwinChannel, Channel, control, period)

LEMMA TwinInit ==
  ASSUME BatchInit
  PROVE  TwinInv
<1>1. /\ todo = 0 /\ tTodo = 0 /\ owed = 0
      /\ tPeriod = period /\ tControl = control
      /\ period \in DmcRates /\ countdown = period /\ tCountdown = tPeriod
      /\ phase = 0 /\ bits = ByteBits /\ bytes = 0 /\ addr = 0 /\ buffer = None /\ shiftReg = None
      /\ level = 0 /\ dmcIrq = FALSE /\ irq = FALSE
  BY DEF BatchInit, DmcInit, Twin!DmcInit
<1>2. /\ tPhase = 0 /\ tBits = ByteBits /\ tBytes = 0 /\ tAddr = 0 /\ tBuffer = None
      /\ tShiftReg = None /\ tLevel = 0 /\ tDmcIrq = FALSE /\ tIrq = FALSE
  BY DEF BatchInit, Twin!DmcInit, None, Twin!None
<1>3. TwinChannel = Channel
  BY <1>1, <1>2 DEF TwinChannel, Channel, Reader, Twin!Reader
<1>4. Way([i \in {0} |-> Channel], Behind, TwinChannel, Channel, control, period)
  BY <1>1, <1>3 DEF Way, Behind
<1>5. countdown \in Nat \ {0}
  BY <1>1, DmcConstants
<1>6. \E r : Way(r, Behind, TwinChannel, Channel, control, period)
  BY <1>4, Zenon
<1>7. todo <= owed /\ ~(todo > 0)
  BY <1>1
<1>8. irq = dmcIrq /\ tIrq = tDmcIrq
  BY <1>1, <1>2, Zenon
<1>. QED BY <1>1, <1>2, <1>5, <1>6, <1>7, <1>8 DEF TwinInv, DmcAtRest, Twin!DmcAtRest

\* Cycles are handed out: nothing moves.
LEMMA TwinIdle ==
  ASSUME TwinInv, DmcTypeOK,
         \/ \E n \in DmcBatches : CpuBatch(n)
         \/ TwinCycle
         \/ UNCHANGED batchVars
  PROVE  TwinInv'
<1>1. PICK r : Way(r, Behind, TwinChannel, Channel, control, period)
  BY Zenon DEF TwinInv
<1>2. /\ UNCHANGED <<phase, countdown, bits, shiftReg, level, bytes, addr, buffer, dmcIrq>>
      /\ UNCHANGED <<tPhase, tCountdown, tBits, tShiftReg, tLevel, tBytes, tAddr, tBuffer, tDmcIrq>>
      /\ UNCHANGED <<period, control, tPeriod, tControl, irq, tIrq>>
  BY DEF CpuBatch, TwinCycle, DmcTicks, Twin!DmcTicks, batchVars, dmcVars, twinVars,
         timerVars, readerVars, Twin!timerVars, Twin!readerVars
<1>3. TwinChannel' = TwinChannel /\ Channel' = Channel
  BY <1>2 DEF TwinChannel, Channel, Reader, Twin!Reader
<1>4. /\ owed' \in Nat /\ tTodo' \in {0, 1} /\ todo' <= owed' /\ (todo' > 0 => tTodo' = 0)
      /\ Behind' = Behind /\ (todo' = 0 => todo = 0) /\ (tTodo' = 0 => tTodo = 0)
  <2>0. owed \in Nat /\ tTodo \in {0, 1} /\ todo \in Nat
    BY DEF TwinInv, DmcTypeOK
  <2>1. CASE \E n \in DmcBatches : CpuBatch(n)
    <3>1. PICK n \in DmcBatches : CpuBatch(n)
      BY <2>1
    <3>2. /\ owed = 0 /\ todo = 0 /\ tTodo = 0 /\ owed' = n /\ todo' = n /\ tTodo' = 0
          /\ n \in Nat \ {0}
      BY <3>1, DmcConstants
         DEF CpuBatch, InStep, DmcTicks, DmcAtRest, Twin!DmcAtRest, twinVars
    <3>. QED BY <3>2 DEF Behind
  <2>2. CASE TwinCycle
    <3>1. todo = 0 /\ owed > 0 /\ tTodo = 0 /\ tTodo' = 1 /\ owed' = owed - 1 /\ todo' = todo
      BY <2>2 DEF TwinCycle, DmcAtRest, Twin!DmcTicks, Twin!DmcAtRest, dmcVars
    <3>. QED BY <2>0, <3>1 DEF Behind
  <2>3. CASE UNCHANGED batchVars
    <3>1. UNCHANGED <<owed, todo, tTodo>>
      BY <2>3 DEF batchVars, dmcVars, twinVars
    <3>. QED BY <2>0, <3>1 DEF Behind, TwinInv
  <2>. QED BY <2>1, <2>2, <2>3
<1>5. \E q : Way(q, Behind', TwinChannel', Channel', control', period')
  BY <1>1, <1>2, <1>3, <1>4, Zenon
<1>. QED BY <1>2, <1>4, <1>5 DEF TwinInv, DmcAtRest, Twin!DmcAtRest

\* A step of the channel makes the way longer.
LEMMA ChannelMoves ==
  ASSUME TwinInv, DmcTypeOK, NEW n \in StepLengths, DmcStep(n), UNCHANGED <<twinVars, owed>>
  PROVE  TwinInv'
<1>1. PICK r : Way(r, Behind, TwinChannel, Channel, control, period)
  BY Zenon DEF TwinInv
<1>2. /\ TimerRuns(TicksIn(n)) \/ TimerExpires(TicksIn(n))
      /\ phase' = (phase + n) % 2 /\ todo' = todo - n
      /\ irq' = IF n = todo THEN dmcIrq' ELSE irq
      /\ UNCHANGED <<period, control>>
  BY DEF DmcStep
<1>3. /\ UNCHANGED <<tTodo, tPhase, tCountdown, tPeriod, tControl, tDmcIrq, tIrq, owed>>
      /\ TwinChannel' = TwinChannel
  BY DEF twinVars, TwinChannel, Twin!Reader
<1>4. Channel' = After(Channel, n, control, period)
  BY <1>2, StepIsAfter
<1>5. /\ n \in Nat \ {0} /\ n <= todo /\ n <= 2 * countdown - phase
      /\ todo \in Nat /\ owed \in Nat /\ tTodo = 0 /\ todo <= owed
  BY DEF StepLengths, TwinInv, DmcTypeOK
<1>6. Behind \in Nat /\ Behind' = Behind + n /\ todo' \in Nat /\ todo' <= owed' /\ tTodo' = 0
  BY <1>2, <1>3, <1>5 DEF Behind
<1>7. /\ Channel.phase \in {0, 1} /\ Channel.countdown \in Nat \ {0}
      /\ Channel.reader.addr \in {0, 1} /\ Channel.reader.bytes \in Nat
      /\ n <= 2 * Channel.countdown - Channel.phase
  BY <1>5 DEF Channel, Reader, DmcTypeOK
<1>8. \E q : Way(q, Behind + n, TwinChannel, After(Channel, n, control, period), control, period)
  BY <1>1, <1>5, <1>6, <1>7, LongerWay
<1>9. \E q : Way(q, Behind', TwinChannel', Channel', control', period')
  BY <1>2, <1>3, <1>4, <1>6, <1>8, Zenon
<1>10. todo' = 0 => n = todo
  BY <1>2, <1>5
<1>. QED BY <1>2, <1>3, <1>6, <1>9, <1>10 DEF TwinInv, DmcAtRest, Twin!DmcAtRest

\* A cycle of the twin makes it shorter.
LEMMA TwinMoves ==
  ASSUME TwinInv, DmcTypeOK, TwinStep
  PROVE  TwinInv'
<1>1. PICK r : Way(r, Behind, TwinChannel, Channel, control, period)
  BY Zenon DEF TwinInv
<1>2. /\ Twin!TimerRuns(Twin!TicksIn(1)) \/ Twin!TimerExpires(Twin!TicksIn(1))
      /\ tPhase' = (tPhase + 1) % 2 /\ tTodo' = tTodo - 1
      /\ tIrq' = IF 1 = tTodo THEN tDmcIrq' ELSE tIrq
      /\ UNCHANGED <<tPeriod, tControl>> /\ tTodo # 0
  BY DEF TwinStep, Twin!DmcStep, Twin!DmcAtRest
<1>3. /\ UNCHANGED <<todo, period, control, dmcIrq, irq, owed>> /\ Channel' = Channel
      /\ todo = 0
  BY DEF TwinStep, dmcVars, timerVars, readerVars, Channel, Reader, DmcAtRest
<1>4. /\ tPhase \in {0, 1} /\ tCountdown \in Nat \ {0} /\ tPeriod = period /\ tControl = control
      /\ owed \in Nat /\ tTodo = 1 /\ tTodo' = 0
  BY <1>2 DEF TwinInv
<1>5. TwinChannel' = After(TwinChannel, 1, control, period)
  BY <1>2, <1>4, TwinCycleIsAfter
<1>6. Behind \in Nat \ {0} /\ Behind' = Behind - 1
  BY <1>3, <1>4 DEF Behind
<1>7. \E q : Way(q, Behind - 1, After(TwinChannel, 1, control, period), Channel, control, period)
  BY <1>1, <1>6, ShorterWay
<1>8. \E q : Way(q, Behind', TwinChannel', Channel', control', period')
  BY <1>3, <1>5, <1>6, <1>7, Zenon
<1>9. tPhase' \in {0, 1} /\ tCountdown' \in Nat \ {0}
  <2>1. period \in Nat \ {0} /\ Twin!TicksIn(1) \in Nat
    BY <1>4 DEF DmcTypeOK, Twin!TicksIn
  <2>. QED BY <1>2, <1>4, <2>1 DEF Twin!TimerRuns, Twin!TimerExpires
<1>10. todo' = 0 => irq' = dmcIrq'
  BY <1>3, Zenon DEF TwinInv, DmcAtRest
<1>11. tIrq' = tDmcIrq'
  BY <1>2, <1>4
<1>12. todo' <= owed'
  BY <1>3, <1>4
<1>. QED BY <1>2, <1>3, <1>4, <1>8, <1>9, <1>10, <1>11, <1>12 DEF TwinInv, DmcAtRest, Twin!DmcAtRest

\* When both have served every cycle there is no way left.
LEMMA SameInStep ==
  ASSUME TwinInv, InStep
  PROVE  /\ TwinChannel = Channel
         /\ tPhase = phase /\ tCountdown = countdown /\ tBits = bits /\ tShiftReg = shiftReg
         /\ tLevel = level /\ tBytes = bytes /\ tAddr = addr /\ tBuffer = buffer
         /\ tDmcIrq = dmcIrq /\ irq = dmcIrq /\ tIrq = tDmcIrq /\ Behind = 0
<1>1. PICK r : Way(r, Behind, TwinChannel, Channel, control, period)
  BY Zenon DEF TwinInv
<1>2. todo = 0 /\ tTodo = 0 /\ owed = 0 /\ Behind = 0
  BY DEF InStep, DmcAtRest, Twin!DmcAtRest, Behind
<1>3. TwinChannel = Channel
  BY <1>1, <1>2 DEF Way
<1>4. /\ TwinChannel.phase = tPhase /\ TwinChannel.countdown = tCountdown
      /\ TwinChannel.bits = tBits /\ TwinChannel.shiftReg = tShiftReg
      /\ TwinChannel.level = tLevel
      /\ TwinChannel.reader.bytes = tBytes /\ TwinChannel.reader.addr = tAddr
      /\ TwinChannel.reader.buffer = tBuffer /\ TwinChannel.reader.irq = tDmcIrq
  BY DEF TwinChannel, Twin!Reader
<1>5. /\ Channel.phase = phase /\ Channel.countdown = countdown
      /\ Channel.bits = bits /\ Channel.shiftReg = shiftReg
      /\ Channel.level = level
      /\ Channel.reader.bytes = bytes /\ Channel.reader.addr = addr
      /\ Channel.reader.buffer = buffer /\ Channel.reader.irq = dmcIrq
  BY DEF Channel, Reader
<1>6. irq = dmcIrq /\ tIrq = tDmcIrq
  BY <1>2 DEF TwinInv, DmcAtRest, Twin!DmcAtRest
<1>. QED BY <1>2, <1>3, <1>4, <1>5, <1>6, Zenon

\* A register write does the same to both.
LEMMA BothWritten ==
  ASSUME TwinInv, DmcTypeOK, Access
  PROVE  TwinInv'
<1>1. InStep /\ todo = 0 /\ tTodo = 0 /\ owed = 0 /\ owed' = 0 /\ tPeriod = period
      /\ tControl = control
  BY DEF Access, InStep, DmcAtRest, Twin!DmcAtRest, TwinInv
<1>2. /\ tPhase = phase /\ tCountdown = countdown /\ tBits = bits /\ tShiftReg = shiftReg
      /\ tLevel = level /\ tBytes = bytes /\ tAddr = addr /\ tBuffer = buffer
      /\ tDmcIrq = dmcIrq /\ irq = dmcIrq /\ tIrq = tDmcIrq
  BY <1>1, SameInStep
<1> DEFINE Same ==
      /\ todo' = 0 /\ tTodo' = 0 /\ tPeriod' = period' /\ tControl' = control'
      /\ UNCHANGED <<phase, countdown, bits, shiftReg, level, buffer>>
      /\ UNCHANGED <<tPhase, tCountdown, tBits, tShiftReg, tLevel, tBuffer>>
      /\ tBytes' = bytes' /\ tAddr' = addr'
      /\ tDmcIrq' = dmcIrq' /\ irq' = dmcIrq' /\ tIrq' = tDmcIrq'
<1>3. Same
  <2>1. CASE \E rate \in DmcRates, enable, loop \in BOOLEAN :
               DmcControlWrite(rate, enable, loop) /\ Twin!DmcControlWrite(rate, enable, loop)
    <3>1. PICK rate \in DmcRates, enable \in BOOLEAN, loop \in BOOLEAN :
                 DmcControlWrite(rate, enable, loop) /\ Twin!DmcControlWrite(rate, enable, loop)
      BY <2>1, Zenon
    <3>2. /\ todo' = todo /\ tTodo' = tTodo /\ period' = rate /\ tPeriod' = rate
          /\ control' = [control EXCEPT !.irqEnabled = enable, !.loop = loop]
          /\ tControl' = [tControl EXCEPT !.irqEnabled = enable, !.loop = loop]
          /\ dmcIrq' = (dmcIrq /\ enable) /\ irq' = (irq /\ enable)
          /\ tDmcIrq' = (tDmcIrq /\ enable) /\ tIrq' = (tIrq /\ enable)
          /\ UNCHANGED <<phase, countdown, bits, shiftReg, level, bytes, addr, buffer>>
          /\ UNCHANGED <<tPhase, tCountdown, tBits, tShiftReg, tLevel, tBytes, tAddr, tBuffer>>
      BY <3>1 DEF DmcControlWrite, Twin!DmcControlWrite, timerVars, readerVars,
                  Twin!timerVars, Twin!readerVars
    <3>. QED BY <1>1, <1>2, <3>2, Zenon
  <2>2. CASE \E size \in SampleBytes : DmcLengthWrite(size) /\ Twin!DmcLengthWrite(size)
    BY <1>1, <1>2, <2>2 DEF DmcLengthWrite, Twin!DmcLengthWrite, timerVars, readerVars,
                  Twin!timerVars, Twin!readerVars
  <2>3. CASE \E on \in BOOLEAN : DmcEnableWrite(on) /\ Twin!DmcEnableWrite(on)
    BY <1>1, <1>2, <2>3 DEF DmcEnableWrite, Twin!DmcEnableWrite, timerVars, readerVars,
                  Twin!timerVars, Twin!readerVars
  <2>. QED BY <2>1, <2>2, <2>3, Zenon DEF Access
<1>4. Channel' = TwinChannel'
  BY <1>2, <1>3 DEF Channel, TwinChannel, Reader, Twin!Reader
<1>5. Behind' = 0
  BY <1>1, <1>3 DEF Behind
<1>6. Way([i \in {0} |-> Channel'], 0, TwinChannel', Channel', control', period')
  BY <1>4 DEF Way
<1>7. \E q : Way(q, Behind', TwinChannel', Channel', control', period')
  BY <1>5, <1>6, Zenon
<1>8. tPhase' \in {0, 1} /\ tCountdown' \in Nat \ {0}
  BY <1>3 DEF TwinInv
<1>. QED BY <1>1, <1>3, <1>7, <1>8 DEF TwinInv, DmcAtRest, Twin!DmcAtRest

\* Run in batches, the channel is the one of DmcSpec.
THEOREM BatchImplementsDmc == BatchSpec => DmcSpec
<1>1. BatchInit => DmcInit
  BY DEF BatchInit
<1>2. [BatchNext]_batchVars => [DmcNext]_dmcVars
  BY DEF BatchNext, CpuBatch, BatchStep, TwinCycle, TwinStep, Access, DmcNext, DmcWrite, batchVars
<1>. QED BY <1>1, <1>2, PTL DEF BatchSpec, DmcSpec

\* What joins the channel to its twin, in every state of both.
THEOREM TwinInvariant == BatchSpec => []TwinInv
<1>1. TwinInv /\ DmcInv /\ [BatchNext]_batchVars => TwinInv'
  <2> SUFFICES ASSUME TwinInv, DmcTypeOK, [BatchNext]_batchVars PROVE TwinInv'
    BY DEF DmcInv
  <2>1. CASE BatchStep
    BY <2>1, ChannelMoves DEF BatchStep
  <2>2. CASE TwinStep
    BY <2>2, TwinMoves
  <2>3. CASE Access
    BY <2>3, BothWritten
  <2>4. CASE (\E n \in DmcBatches : CpuBatch(n)) \/ TwinCycle \/ UNCHANGED batchVars
    BY <2>4, TwinIdle
  <2>. QED BY <2>1, <2>2, <2>3, <2>4 DEF BatchNext
<1>. QED BY <1>1, TwinInit, BatchImplementsDmc, DmcInvariant, PTL DEF BatchSpec

\* DmcSkippingIsExact of every reachable state, for every rate, batch and way of cutting the
\* time into steps (apu.c 559-618, 855-910).
THEOREM DmcSkippingTheorem == BatchSpec => []DmcSkippingIsExact
<1>1. TwinInv => DmcSkippingIsExact
  <2> SUFFICES ASSUME TwinInv, InStep
               PROVE  /\ timerVars = <<tPhase, tCountdown, tBits, tShiftReg, tLevel>>
                      /\ readerVars = <<tBytes, tAddr, tBuffer>>
                      /\ <<dmcIrq, irq>> = <<tDmcIrq, tIrq>>
    BY DEF DmcSkippingIsExact
  <2>. QED BY SameInStep DEF timerVars, readerVars
<1>. QED BY <1>1, TwinInvariant, PTL
=============================================================================
