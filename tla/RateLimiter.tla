----------------------------- MODULE RateLimiter -----------------------------
(***************************************************************************)
(* audio/rate_limiter.c: where no audio device paces the emulator,         *)
(* AudioRateLimiterTick, called with every batch of samples, sleeps until  *)
(* the samples pushed since a baseline are due.  After a stall the         *)
(* baseline is set anew, so that the emulator does not run to catch up.    *)
(*                                                                         *)
(* Times are in units of a nanosecond, scaled; the clock counts from the   *)
(* baseline.  A sleep may be a little long, and one in which SIGALRM       *)
(* arrives is cut short.                                                   *)
(***************************************************************************)
EXTENDS Integers

CONSTANTS
  UnitsPerSec,  \* NS_PER_SEC
  AudioRate,    \* AUDIO_SAMPLE_RATE
  Batch,        \* samples of a call
  MaxDrift,     \* MAX_DRIFT_NS
  Rebuffer,     \* REBUFFER_NS
  Word,         \* 2^64, the range of uint64_t
  Between,      \* the times that pass between two calls
  Overslept,    \* by how much a sleep may be too long
  MaxOverflows  \* bound: overflows of samplesPushed * NS_PER_SEC in such a stretch
                \* of time as ahead is about

ASSUME RateConstants ==
  /\ {UnitsPerSec, AudioRate, Batch, Word} \subseteq Nat \ {0}
  /\ MaxDrift \in Nat /\ Rebuffer \in 0..MaxDrift
  /\ Between \cup Overslept \subseteq Nat /\ MaxOverflows \in Nat

VARIABLES
  running,        \* startTimeNs is set
  elapsed,        \* the time since startTimeNs
  samplesPushed,
  cut,            \* the last sleep was cut short
  ahead,          \* history: by how much the samples of the recent past, wherever that
                  \* begins, take longer to play than it lasted, in units / AudioRate
  overflows       \* history: the overflows of the product since then

rateVars == <<running, elapsed, samplesPushed, cut, ahead, overflows>>

RateInit ==
  /\ running = FALSE /\ elapsed = 0 /\ samplesPushed = 0
  /\ cut = FALSE /\ ahead = 0 /\ overflows = 0

\* expectedNs: the product is that of 64-bit words.
Expected(samples) == ((samples * UnitsPerSec) % Word) \div AudioRate

NotBelow0(n) == IF n < 0 THEN 0 ELSE n
Passed(since, time) == NotBelow0(since - time * AudioRate)

\* SleepNs, cut short at most every other time: the timer behind SIGALRM has a period
\* of half a second, a call comes every few milliseconds at least.
Sleeps(n) == {n + over : over \in Overslept} \cup (IF cut THEN {} ELSE 0..(n - 1))

\* Faulty: the stall stays on the account.
RebasedNot(clock) == [elapsed |-> clock, pushed |-> samplesPushed + Batch]

\* A baseline Rebuffer ago, and nothing pushed since.
Rebased(clock) == [elapsed |-> Rebuffer, pushed |-> 0]

\* The call, at clock: sleep, go on, or take the delay for a stall.
Pace(clock, pushed, owing) ==
  LET due == Expected(pushed)
  IN \/ /\ due > clock
        /\ \E s \in Sleeps(due - clock) :
             /\ elapsed' = clock + s /\ samplesPushed' = pushed
             /\ cut' = (s < due - clock)
             /\ ahead' = Passed(owing, s)
     \/ /\ due <= clock /\ clock - due <= MaxDrift
        /\ elapsed' = clock /\ samplesPushed' = pushed /\ cut' = FALSE /\ ahead' = owing
     \/ /\ due <= clock /\ clock - due > MaxDrift
        /\ elapsed' = Rebased(clock).elapsed /\ samplesPushed' = Rebased(clock).pushed
        /\ cut' = FALSE /\ ahead' = owing

Overflows(pushed) == pushed * UnitsPerSec >= Word

AudioRateLimiterTick ==
  LET pushed == samplesPushed + Batch
      anew == Overflows(pushed) /\ overflows = MaxOverflows   \* the history begins again
  IN \E time \in Between :
       /\ running' = TRUE
       /\ Pace(IF running THEN elapsed + time ELSE 0, pushed,
               IF anew THEN 0 ELSE Passed(ahead, time) + Batch * UnitsPerSec)
       /\ overflows' = IF anew \/ ahead' = 0 THEN 0
                       ELSE IF Overflows(pushed) THEN overflows + 1 ELSE overflows

RateSpec == RateInit /\ [][AudioRateLimiterTick]_rateVars

-----------------------------------------------------------------------------
\* Over no stretch of time, and after no stall, does the emulator run further ahead
\* than MAX_DRIFT_NS, two batches and a rounding: not when sleeps are cut short, and
\* when the number of samples outgrows 64 bits, which the limiter takes for a stall, by no
\* more than REBUFFER_NS, two batches and a rounding once (rate_limiter.c 37-58).
PaceIsKept ==
  ahead <= (MaxDrift + overflows * Rebuffer) * AudioRate
             + (1 + overflows) * (2 * Batch * UnitsPerSec + AudioRate)
=============================================================================
