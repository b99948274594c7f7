---------------------------- MODULE Sound_proofs -----------------------------
(***************************************************************************)
(* Proofs about the outputs of Sound and about the whole, in which the APU *)
(* drives them: first the rate limiter, for every rate, batch, drift and   *)
(* width of the counter, and for all times that calls and sleeps may take; *)
(* then CoreAudio, for every size of a buffer and every number of failing  *)
(* enqueues; then the channels and what they cache; last their steps,      *)
(* which are what single cycles would be, for steps of any length.         *)
(***************************************************************************)
EXTENDS Sound, SequenceTheorems, WellFoundedInduction, TLAPS

(***************************************************************************)
(* The account is what the limiter itself goes by: the samples since the   *)
(* baseline less the time since it.  It says how far ahead the emulator is *)
(* but for Slack: what a stall has wiped out, and what every overflow that *)
(* was taken for a stall has given away.  While the product of the samples *)
(* does not fit a word, the account says nothing.                          *)
(***************************************************************************)
BatchTime == Batch * UnitsPerSec
Account == samplesPushed * UnitsPerSec - elapsed * AudioRate
PerOverflow == Rebuffer * AudioRate + 2 * BatchTime + AudioRate
Slack(n) == MaxDrift * AudioRate + BatchTime + n * PerOverflow
Wrapped(samples) == samples * UnitsPerSec >= Word

RateTypeOK ==
  /\ running \in BOOLEAN /\ cut \in BOOLEAN
  /\ elapsed \in Nat /\ samplesPushed \in Nat /\ ahead \in Nat
  /\ overflows \in 0..MaxOverflows
  /\ ~running => elapsed = 0 /\ samplesPushed = 0 /\ ahead = 0

AccountLow == ~Wrapped(samplesPushed) => Account < AudioRate + (IF cut THEN BatchTime ELSE 0)
AccountTells == ~Wrapped(samplesPushed) /\ ahead > 0 => ahead <= Account + Slack(overflows)
WrappedLow ==
  Wrapped(samplesPushed) /\ ahead > 0 => ahead <= Slack(overflows) - Rebuffer * AudioRate

RateInv == RateTypeOK /\ AccountLow /\ AccountTells /\ WrappedLow

-----------------------------------------------------------------------------
(***************************************************************************)
(* Arithmetic, with the products as opaque terms.                          *)
(***************************************************************************)

\* Multiplying by the rate keeps an order, strictly by a whole rate.
LEMMA RateTimes ==
  ASSUME NEW a \in Int, NEW b \in Int, NEW r \in Nat
  PROVE  /\ a * r \in Int
         /\ a <= b => a * r <= b * r
         /\ a < b => a * r + r <= b * r
         /\ (a + b) * r = a * r + b * r
         /\ (a - b) * r = a * r - b * r
<1>1. a * r \in Int /\ (a + b) * r = a * r + b * r /\ (a - b) * r = a * r - b * r
  OBVIOUS
<1>2. ASSUME a <= b PROVE a * r <= b * r
  BY <1>2, SMT
<1>3. ASSUME a < b PROVE a * r + r <= b * r
  <2>1. a + 1 <= b
    BY <1>3
  <2>2. (a + 1) * r <= b * r
    BY <2>1, SMT
  <2>3. (a + 1) * r = a * r + r
    OBVIOUS
  <2> QED
    BY <2>2, <2>3
<1> QED
  BY <1>1, <1>2, <1>3

\* The time that samples take to play, rounded down, where nothing wraps.
LEMMA ExpectedFits ==
  ASSUME RateConstants, NEW n \in Nat, ~Wrapped(n)
  PROVE  /\ Expected(n) \in Nat
         /\ Expected(n) * AudioRate <= n * UnitsPerSec
         /\ n * UnitsPerSec < Expected(n) * AudioRate + AudioRate
<1> DEFINE product == n * UnitsPerSec
<1>1. product \in Nat /\ product < Word /\ Word \in Nat /\ AudioRate \in Nat \ {0}
  BY DEF RateConstants, Wrapped
<1>2. Expected(n) = product \div AudioRate
  <2>1. product % Word = product
    BY <1>1
  <2> QED
    BY <2>1 DEF Expected
<1> HIDE DEF product
<1>3. /\ product \div AudioRate \in Nat
      /\ (product \div AudioRate) * AudioRate <= product
      /\ product < (product \div AudioRate) * AudioRate + AudioRate
  BY <1>1, SMT
<1> QED
  BY <1>2, <1>3 DEF product

\* What is expected is a number, wrapped or not.
LEMMA ExpectedNat ==
  ASSUME RateConstants, NEW n \in Nat
  PROVE  Expected(n) \in Nat
<1>1. n * UnitsPerSec \in Nat /\ Word \in Nat \ {0} /\ AudioRate \in Nat \ {0}
  BY DEF RateConstants
<1>2. (n * UnitsPerSec) % Word \in Nat
  BY <1>1, SMT
<1> QED
  BY <1>1, <1>2, SMT DEF Expected

\* What an overflow adds to the slack.
LEMMA SlackGrows ==
  ASSUME RateConstants, NEW n \in Nat
  PROVE  /\ Slack(n) \in Nat /\ PerOverflow \in Nat /\ BatchTime \in Nat
         /\ AudioRate \in Nat \ {0}
         /\ Rebuffer * AudioRate \in Nat /\ MaxDrift * AudioRate \in Nat
         /\ Rebuffer * AudioRate <= MaxDrift * AudioRate
         /\ PerOverflow = Rebuffer * AudioRate + 2 * BatchTime + AudioRate
         /\ Slack(n + 1) = Slack(n) + PerOverflow
         /\ MaxDrift * AudioRate + BatchTime <= Slack(n)
<1>1. /\ BatchTime \in Nat /\ AudioRate \in Nat \ {0} /\ MaxDrift \in Nat /\ Rebuffer \in Nat
      /\ Rebuffer <= MaxDrift
  BY DEF RateConstants, BatchTime
<1>2. Rebuffer * AudioRate \in Nat /\ MaxDrift * AudioRate \in Nat
  BY <1>1
<1>3. Rebuffer * AudioRate <= MaxDrift * AudioRate
  BY <1>1, RateTimes
<1>4. PerOverflow \in Nat
  BY <1>1, <1>2 DEF PerOverflow
<1>5. n * PerOverflow \in Nat /\ (n + 1) * PerOverflow = n * PerOverflow + PerOverflow
  BY <1>4
<1> QED
  BY <1>1, <1>2, <1>3, <1>4, <1>5 DEF PerOverflow, Slack

-----------------------------------------------------------------------------
(***************************************************************************)
(* What a call leaves behind, for a clock, samples and a debt of any size. *)
(***************************************************************************)

\* Time only reduces what is owed.
LEMMA PassedLess ==
  ASSUME RateConstants, NEW n \in Nat, NEW t \in Nat
  PROVE  /\ Passed(n, t) \in Nat /\ t * AudioRate \in Nat /\ Passed(n, t) <= n
         /\ Passed(n, t) > 0 => Passed(n, t) = n - t * AudioRate
<1>1. t * AudioRate \in Nat
  BY DEF RateConstants
<1> QED
  BY <1>1 DEF Passed, NotBelow0

\* A new baseline leaves the account REBUFFER_NS behind.
LEMMA NewBaseline ==
  ASSUME RateConstants, samplesPushed' = 0, elapsed' = Rebuffer
  PROVE  Account' = -(Rebuffer * AudioRate)
BY DEF Account, RateConstants

\* The types, and what holds whether or not the product of the samples wraps.
LEMMA PaceTypes ==
  ASSUME RateConstants, NEW c \in Nat, NEW p \in Nat, NEW o \in Nat, Pace(c, p, o)
  PROVE  /\ elapsed' \in Nat /\ samplesPushed' \in Nat /\ ahead' \in Nat /\ ahead' <= o
         /\ samplesPushed' = p \/ (samplesPushed' = 0 /\ elapsed' = Rebuffer /\ ~cut')
<1> DEFINE due == Expected(p)
<1>1. due \in Nat
  BY ExpectedNat
<1>2. Rebuffer \in Nat /\ Overslept \subseteq Nat
  BY DEF RateConstants
<1>3. ASSUME due > c, NEW s \in Sleeps(due - c), elapsed' = c + s, samplesPushed' = p,
             ahead' = Passed(o, s)
      PROVE  elapsed' \in Nat /\ ahead' \in Nat /\ ahead' <= o
  <2>1. due - c \in Nat
    BY <1>1, <1>3
  <2>2. s \in Nat
    BY <1>2, <1>3, <2>1 DEF Sleeps
  <2> QED
    BY <1>3, <2>2, PassedLess
<1>4. \/ /\ due > c
         /\ \E s \in Sleeps(due - c) :
              elapsed' = c + s /\ samplesPushed' = p /\ ahead' = Passed(o, s)
      \/ samplesPushed' = p /\ elapsed' = c /\ ahead' = o
      \/ samplesPushed' = 0 /\ elapsed' = Rebuffer /\ ~cut' /\ ahead' = o
  BY DEF Pace, Rebased
<1> HIDE DEF due
<1> QED
  BY <1>2, <1>3, <1>4

\* A sleep is cut short or not.
LEMMA PaceCut ==
  ASSUME NEW c, NEW p, NEW o, Pace(c, p, o)
  PROVE  cut' \in BOOLEAN
<1>1. \/ \E s : cut' = (s < Expected(p) - c)
      \/ cut' = FALSE
  BY Zenon DEF Pace
<1>2. ASSUME NEW s, cut' = (s < Expected(p) - c) PROVE cut' \in BOOLEAN
  <2>1. (s < Expected(p) - c) \in BOOLEAN
    OBVIOUS
  <2> QED
    BY <1>2, <2>1, Zenon
<1>3. ASSUME cut' = FALSE PROVE cut' \in BOOLEAN
  BY <1>3, Zenon
<1> QED
  BY <1>1, <1>2, <1>3, Zenon

\* Where nothing wraps, and the debt is a batch or what the account tells, the account
\* tells afterwards: a sleep shortens both alike, and to go on, or to wipe the account
\* clean, happens only where it is at most MAX_DRIFT_NS low.
LEMMA PaceTells ==
  ASSUME RateConstants, NEW c \in Nat, NEW p \in Nat, NEW o \in Nat, NEW n \in Nat,
         ~Wrapped(p), Pace(c, p, o),
         o <= BatchTime \/ o <= p * UnitsPerSec - c * AudioRate + Slack(n)
  PROVE  ahead' > 0 => ahead' <= Account' + Slack(n)
<1> DEFINE due == Expected(p)
           product == p * UnitsPerSec
           M == MaxDrift * AudioRate
           B == Rebuffer * AudioRate
           S == Slack(n)
<1>1. /\ due \in Nat /\ due * AudioRate <= product /\ product < due * AudioRate + AudioRate
      /\ product \in Nat /\ c * AudioRate \in Nat /\ due * AudioRate \in Nat
  BY ExpectedFits DEF RateConstants
<1>2. /\ Rebuffer \in Nat /\ Overslept \subseteq Nat /\ MaxDrift \in Nat /\ AudioRate \in Nat \ {0}
      /\ S \in Nat /\ M \in Nat /\ B \in Nat /\ B <= M /\ BatchTime \in Nat /\ M + BatchTime <= S
  <2>1. Rebuffer \in Nat /\ Overslept \subseteq Nat /\ MaxDrift \in Nat
    BY DEF RateConstants
  <2> QED
    BY <2>1, SlackGrows
<1>3. ASSUME due > c, NEW s \in Sleeps(due - c), elapsed' = c + s, samplesPushed' = p,
             ahead' = Passed(o, s), ahead' > 0
      PROVE  ahead' <= Account' + S
  <2>1. s \in Nat
    <3>1. due - c \in Nat
      BY <1>1, <1>3
    <3> QED
      BY <1>2, <1>3, <3>1 DEF Sleeps
  <2>2. ahead' = o - s * AudioRate /\ s * AudioRate \in Nat
    BY <1>3, <2>1, PassedLess
  <2>3. Account' = product - c * AudioRate - s * AudioRate
    <3>1. Account' = product - (c + s) * AudioRate
      BY <1>3 DEF Account
    <3>2. (c + s) * AudioRate = c * AudioRate + s * AudioRate
      BY <1>2, <2>1, RateTimes
    <3> QED
      BY <1>1, <2>2, <3>1, <3>2
  <2>4. c * AudioRate + AudioRate <= due * AudioRate
    BY <1>1, <1>2, <1>3, RateTimes
  <2> HIDE DEF due, product, M, B, S
  <2>5. CASE o <= BatchTime
    BY <1>1, <1>2, <2>2, <2>3, <2>4, <2>5
  <2>6. CASE o <= product - c * AudioRate + S
    BY <1>1, <1>2, <2>2, <2>3, <2>6
  <2> QED
    BY <2>5, <2>6 DEF product, S
<1>4. ASSUME due <= c, c - due <= MaxDrift, samplesPushed' = p, elapsed' = c, ahead' = o
      PROVE  ahead' <= Account' + S
  <2>1. Account' = product - c * AudioRate
    BY <1>4 DEF Account
  <2>2. (c - due) * AudioRate <= M
    BY <1>1, <1>2, <1>4, RateTimes
  <2>3. (c - due) * AudioRate = c * AudioRate - due * AudioRate
    BY <1>1, <1>2, RateTimes
  <2> HIDE DEF due, product, M, B, S
  <2>4. CASE o <= BatchTime
    BY <1>1, <1>2, <1>4, <2>1, <2>2, <2>3, <2>4
  <2>5. CASE o <= product - c * AudioRate + S
    BY <1>1, <1>2, <1>4, <2>1, <2>5
  <2> QED
    BY <2>4, <2>5 DEF product, S
<1>5. ASSUME c - due > MaxDrift, samplesPushed' = 0, elapsed' = Rebuffer, ahead' = o
      PROVE  ahead' <= Account' + S
  <2>1. Account' = -B
    BY <1>5, NewBaseline
  <2>2. M + AudioRate <= (c - due) * AudioRate
    BY <1>1, <1>2, <1>5, RateTimes
  <2>3. (c - due) * AudioRate = c * AudioRate - due * AudioRate
    BY <1>1, <1>2, RateTimes
  <2> HIDE DEF due, product, M, B, S
  <2>4. CASE o <= BatchTime
    BY <1>1, <1>2, <1>5, <2>1, <2>4
  <2>5. CASE o <= product - c * AudioRate + S
    BY <1>1, <1>2, <1>5, <2>1, <2>2, <2>3, <2>5
  <2> QED
    BY <2>4, <2>5 DEF product, S
<1>6. \/ /\ due > c
         /\ \E s \in Sleeps(due - c) :
              elapsed' = c + s /\ samplesPushed' = p /\ ahead' = Passed(o, s)
      \/ /\ due <= c /\ c - due <= MaxDrift
         /\ samplesPushed' = p /\ elapsed' = c /\ ahead' = o
      \/ /\ c - due > MaxDrift
         /\ samplesPushed' = 0 /\ elapsed' = Rebuffer /\ ahead' = o
  BY DEF Pace, Rebased
<1> HIDE DEF due
<1> QED
  BY <1>3, <1>4, <1>5, <1>6

\* Nor is the account ever high: a sleep brings it down to a rounding unless it is cut
\* short, and then it was low before the batch.
LEMMA PaceLow ==
  ASSUME RateConstants, NEW c \in Nat, NEW p \in Nat, NEW o \in Nat,
         ~Wrapped(p), Pace(c, p, o),
         ~cut => p * UnitsPerSec - c * AudioRate < AudioRate + BatchTime
  PROVE  Account' < AudioRate + (IF cut' THEN BatchTime ELSE 0)
<1> DEFINE due == Expected(p)
           product == p * UnitsPerSec
<1>1. /\ due \in Nat /\ due * AudioRate <= product /\ product < due * AudioRate + AudioRate
      /\ product \in Nat /\ c * AudioRate \in Nat /\ due * AudioRate \in Nat
  BY ExpectedFits DEF RateConstants
<1>2. /\ Rebuffer \in Nat /\ Overslept \subseteq Nat /\ AudioRate \in Nat \ {0}
      /\ BatchTime \in Nat /\ Rebuffer * AudioRate \in Nat
  BY SlackGrows DEF RateConstants
<1>3. ASSUME due > c, NEW s \in Sleeps(due - c), elapsed' = c + s, samplesPushed' = p,
             cut' = (s < due - c)
      PROVE  Account' < AudioRate + (IF cut' THEN BatchTime ELSE 0)
  <2>1. s \in Nat /\ (s < due - c => ~cut)
    <3>1. due - c \in Nat
      BY <1>1, <1>3
    <3> QED
      BY <1>2, <1>3, <3>1 DEF Sleeps
  <2>2. Account' = product - (c + s) * AudioRate
    BY <1>3 DEF Account
  <2>3. CASE s < due - c
    <3>1. c * AudioRate <= (c + s) * AudioRate
      BY <1>2, <2>1, RateTimes
    <3>2. product - c * AudioRate < AudioRate + BatchTime
      BY <2>1, <2>3
    <3>3. (c + s) * AudioRate \in Nat
      BY <1>2, <2>1
    <3>4. cut'
      BY <1>3, <2>3, Zenon
    <3> HIDE DEF due, product
    <3> QED
      BY <1>1, <1>2, <2>2, <3>1, <3>2, <3>3, <3>4
  <2>4. CASE ~(s < due - c)
    <3>1. due <= c + s
      BY <1>1, <2>1, <2>4
    <3>2. due * AudioRate <= (c + s) * AudioRate
      BY <1>1, <1>2, <2>1, <3>1, RateTimes
    <3>3. (c + s) * AudioRate \in Nat
      BY <1>2, <2>1
    <3>4. ~cut'
      BY <1>3, <2>4, Zenon
    <3> HIDE DEF due, product
    <3> QED
      BY <1>1, <1>2, <2>2, <3>2, <3>3, <3>4
  <2> QED
    BY <2>3, <2>4
<1>4. ASSUME due <= c, samplesPushed' = p, elapsed' = c
      PROVE  Account' < AudioRate + (IF cut' THEN BatchTime ELSE 0)
  <2>1. Account' = product - c * AudioRate
    BY <1>4 DEF Account
  <2>2. due * AudioRate <= c * AudioRate
    BY <1>1, <1>2, <1>4, RateTimes
  <2> HIDE DEF due, product
  <2> QED
    BY <1>1, <1>2, <2>1, <2>2
<1>5. ASSUME samplesPushed' = 0, elapsed' = Rebuffer
      PROVE  Account' < AudioRate + (IF cut' THEN BatchTime ELSE 0)
  <2>1. Account' = -(Rebuffer * AudioRate)
    BY <1>5, NewBaseline
  <2> QED
    BY <1>2, <2>1
<1>6. \/ /\ due > c
         /\ \E s \in Sleeps(due - c) :
              elapsed' = c + s /\ samplesPushed' = p /\ cut' = (s < due - c)
      \/ due <= c /\ samplesPushed' = p /\ elapsed' = c
      \/ samplesPushed' = 0 /\ elapsed' = Rebuffer
  BY DEF Pace, Rebased
<1> HIDE DEF due
<1> QED
  BY <1>3, <1>4, <1>5, <1>6

-----------------------------------------------------------------------------
(***************************************************************************)
(* The invariant.                                                          *)
(***************************************************************************)

\* Before the first call.
LEMMA RateInitInv == ASSUME RateConstants, RateInit PROVE RateInv
<1>1. RateTypeOK
  <2>1. running \in BOOLEAN /\ cut \in BOOLEAN
    BY Zenon DEF RateInit
  <2>2. overflows \in 0..MaxOverflows
    BY DEF RateConstants, RateInit
  <2> QED
    BY <2>1, <2>2 DEF RateInit, RateTypeOK
<1>2. AccountLow
  <2>1. Account = 0 /\ ~cut /\ AudioRate > 0
    BY DEF RateConstants, RateInit, Account
  <2> QED
    BY <2>1 DEF AccountLow
<1>3. AccountTells /\ WrappedLow
  BY DEF RateInit, AccountTells, WrappedLow
<1> QED
  BY <1>1, <1>2, <1>3 DEF RateInv

\* What a call has to go by, once the time before it has passed and its batch is counted.
LEMMA BeforePace ==
  ASSUME RateConstants, RateInv, NEW time \in Nat, NEW p, p = samplesPushed + Batch,
         NEW c, c = IF running THEN elapsed + time ELSE 0,
         NEW o, o = Passed(ahead, time) + BatchTime
  PROVE  /\ p \in Nat /\ c \in Nat /\ o \in Nat
         /\ ~Wrapped(p) => /\ o <= BatchTime \/ o <= p * UnitsPerSec - c * AudioRate + Slack(overflows)
                           /\ ~cut => p * UnitsPerSec - c * AudioRate < AudioRate + BatchTime
         /\ o <= Slack(overflows) + 2 * BatchTime + AudioRate
<1> DEFINE before == samplesPushed * UnitsPerSec
           S == Slack(overflows)
           B == Rebuffer * AudioRate
<1>1. /\ time \in Nat /\ Batch \in Nat \ {0} /\ UnitsPerSec \in Nat \ {0} /\ AudioRate \in Nat \ {0}
      /\ elapsed \in Nat /\ samplesPushed \in Nat /\ ahead \in Nat /\ overflows \in Nat
      /\ MaxOverflows \in Nat /\ Word \in Nat
  BY DEF RateConstants, RateInv, RateTypeOK
<1>2. p \in Nat /\ c \in Nat /\ before \in Nat /\ BatchTime \in Nat
  BY <1>1 DEF BatchTime
<1>3. p * UnitsPerSec = before + BatchTime
  BY <1>1, <1>2 DEF BatchTime
<1>4. /\ Passed(ahead, time) \in Nat /\ time * AudioRate \in Nat /\ Passed(ahead, time) <= ahead
      /\ Passed(ahead, time) > 0 => Passed(ahead, time) = ahead - time * AudioRate
  BY <1>1, PassedLess
<1>5. /\ S \in Nat /\ B \in Nat
  BY <1>1, SlackGrows
<1>6. ~Wrapped(p) => ~Wrapped(samplesPushed)
  BY <1>1, <1>2, <1>3 DEF Wrapped
<1>7. /\ c * AudioRate \in Nat /\ elapsed * AudioRate \in Nat
      /\ running => c * AudioRate = elapsed * AudioRate + time * AudioRate
      /\ ~running => c * AudioRate = 0 /\ before = 0 /\ ahead = 0 /\ elapsed * AudioRate = 0
  <2>1. CASE running
    <3>1. c = elapsed + time
      BY <2>1
    <3> QED
      BY <1>1, <2>1, <3>1, RateTimes
  <2>2. CASE ~running
    <3>1. c = 0 /\ elapsed = 0 /\ samplesPushed = 0 /\ ahead = 0
      BY <2>2 DEF RateInv, RateTypeOK
    <3> QED
      BY <1>1, <2>2, <3>1
  <2> QED
    BY <2>1, <2>2
<1>8. Account = before - elapsed * AudioRate
  BY DEF Account
<1> HIDE DEF before, S, B
<1>9. ~Wrapped(samplesPushed) => Account < AudioRate + BatchTime
  <2>1. CASE cut
    BY <2>1 DEF RateInv, AccountLow
  <2>2. CASE ~cut
    <3>1. ~Wrapped(samplesPushed) => Account < AudioRate
      BY <2>2 DEF RateInv, AccountLow
    <3> QED
      BY <1>1, <1>2, <1>7, <1>8, <3>1
  <2> QED
    BY <2>1, <2>2
<1>10. ~Wrapped(samplesPushed) /\ ahead > 0 => ahead <= Account + S
  BY DEF RateInv, AccountTells, S
<1>11. Wrapped(samplesPushed) /\ ahead > 0 => ahead <= S - B
  BY DEF RateInv, WrappedLow, S, B
<1>12. ASSUME ~Wrapped(p)
       PROVE  o <= BatchTime \/ o <= p * UnitsPerSec - c * AudioRate + S
  <2>1. CASE Passed(ahead, time) = 0
    BY <1>2, <2>1
  <2>2. CASE Passed(ahead, time) > 0
    <3>1. running /\ ahead > 0 /\ ahead <= Account + S
      BY <1>1, <1>4, <1>6, <1>7, <1>10, <1>12, <2>2
    <3> QED
      BY <1>1, <1>2, <1>3, <1>4, <1>5, <1>7, <1>8, <2>2, <3>1
  <2> QED
    BY <1>4, <2>1, <2>2
<1>13. ASSUME ~Wrapped(p), ~cut
       PROVE  p * UnitsPerSec - c * AudioRate < AudioRate + BatchTime
  <2>1. Account < AudioRate
    BY <1>6, <1>13 DEF RateInv, AccountLow
  <2>2. CASE running
    BY <1>1, <1>2, <1>3, <1>4, <1>7, <1>8, <2>1, <2>2
  <2>3. CASE ~running
    BY <1>1, <1>2, <1>3, <1>7, <2>3
  <2> QED
    BY <2>2, <2>3
<1>14. o <= S + 2 * BatchTime + AudioRate
  <2>1. CASE ahead = 0
    BY <1>1, <1>2, <1>4, <1>5, <2>1
  <2>2. CASE ahead > 0 /\ ~Wrapped(samplesPushed)
    BY <1>1, <1>2, <1>4, <1>5, <1>7, <1>8, <1>9, <1>10, <2>2
  <2>3. CASE ahead > 0 /\ Wrapped(samplesPushed)
    BY <1>1, <1>2, <1>4, <1>5, <1>11, <2>3
  <2> QED
    BY <1>1, <2>1, <2>2, <2>3
<1>15. o \in Nat
  BY <1>2, <1>4
<1> QED
  BY <1>2, <1>12, <1>13, <1>14, <1>15 DEF S

\* A call.
LEMMA RateStep == ASSUME RateConstants, RateInv, AudioRateLimiterTick PROVE RateInv'
<1> DEFINE p == samplesPushed + Batch
           anew == Overflows(p) /\ overflows = MaxOverflows
<1>1. PICK time \in Between :
        /\ running' = TRUE
        /\ Pace(IF running THEN elapsed + time ELSE 0, p,
                IF anew THEN 0 ELSE Passed(ahead, time) + Batch * UnitsPerSec)
        /\ overflows' = IF anew \/ ahead' = 0 THEN 0
                        ELSE IF Overflows(p) THEN overflows + 1 ELSE overflows
  BY DEF AudioRateLimiterTick
<1> DEFINE c == IF running THEN elapsed + time ELSE 0
           o == IF anew THEN 0 ELSE Passed(ahead, time) + BatchTime
           owing == Passed(ahead, time) + BatchTime
<1>2. time \in Nat /\ MaxOverflows \in Nat /\ overflows \in 0..MaxOverflows
  BY DEF RateConstants, RateInv, RateTypeOK
<1>3. /\ p \in Nat /\ c \in Nat /\ owing \in Nat /\ o \in Nat
      /\ ~Wrapped(p) => /\ owing <= BatchTime
                           \/ owing <= p * UnitsPerSec - c * AudioRate + Slack(overflows)
                        /\ ~cut => p * UnitsPerSec - c * AudioRate < AudioRate + BatchTime
      /\ owing <= Slack(overflows) + 2 * BatchTime + AudioRate
  BY <1>2, BeforePace
<1>4. Pace(c, p, o)
  BY <1>1 DEF BatchTime
<1>5. Wrapped(p) <=> Overflows(p)
  BY DEF Wrapped, Overflows
<1> HIDE DEF p, c
<1>6. /\ elapsed' \in Nat /\ samplesPushed' \in Nat /\ ahead' \in Nat /\ ahead' <= o
      /\ samplesPushed' = p \/ (samplesPushed' = 0 /\ elapsed' = Rebuffer /\ ~cut')
  BY <1>3, <1>4, PaceTypes
<1>7. RateTypeOK'
  <2>1. cut' \in BOOLEAN
    BY <1>4, PaceCut
  <2>2. running' \in BOOLEAN /\ running'
    BY <1>1
  <2>3. overflows' \in 0..MaxOverflows
    BY <1>1, <1>2
  <2> QED
    BY <1>6, <2>1, <2>2, <2>3 DEF RateTypeOK
<1>8. /\ Slack(overflows) \in Nat /\ PerOverflow \in Nat /\ BatchTime \in Nat
      /\ AudioRate \in Nat \ {0} /\ Rebuffer * AudioRate \in Nat
      /\ PerOverflow = Rebuffer * AudioRate + 2 * BatchTime + AudioRate
      /\ Slack(overflows + 1) = Slack(overflows) + PerOverflow
  BY <1>2, SlackGrows
<1>9. CASE Wrapped(p)
  <2>1. CASE samplesPushed' = p
    <3>1. Wrapped(samplesPushed)'
      BY <1>9, <2>1 DEF Wrapped
    <3>2. ASSUME ahead' > 0 PROVE ahead' <= Slack(overflows)' - Rebuffer * AudioRate
      <4>1. ~anew
        BY <1>3, <1>6, <3>2
      <4>2. overflows' = overflows + 1
        BY <1>1, <1>5, <1>6, <1>9, <3>2, <4>1
      <4>3. Slack(overflows)' = Slack(overflows) + PerOverflow
        BY <1>8, <4>2 DEF Slack, PerOverflow, BatchTime
      <4>4. ahead' <= owing
        BY <1>6, <4>1
      <4> HIDE DEF owing
      <4> QED
        BY <1>3, <1>6, <1>8, <4>3, <4>4
    <3> QED
      BY <1>7, <3>1, <3>2 DEF RateInv, AccountLow, AccountTells, WrappedLow
  <2>2. CASE samplesPushed' = 0 /\ elapsed' = Rebuffer /\ ~cut'
    <3>1. ~Wrapped(samplesPushed)'
      <4>1. 0 * UnitsPerSec < Word
        BY DEF RateConstants
      <4> QED
        BY <2>2, <4>1 DEF Wrapped, RateConstants
    <3>2. Account' = -(Rebuffer * AudioRate)
      BY <2>2, NewBaseline
    <3>3. ASSUME ahead' > 0 PROVE ahead' <= Account' + Slack(overflows)'
      <4>1. ~anew
        BY <1>3, <1>6, <3>3
      <4>2. overflows' = overflows + 1
        BY <1>1, <1>5, <1>6, <1>9, <3>3, <4>1
      <4>3. Slack(overflows)' = Slack(overflows) + PerOverflow
        BY <1>8, <4>2 DEF Slack, PerOverflow, BatchTime
      <4>4. ahead' <= owing
        BY <1>6, <4>1
      <4> HIDE DEF owing
      <4> QED
        BY <1>3, <1>6, <1>8, <3>2, <4>3, <4>4
    <3>4. Account' < AudioRate
      BY <1>8, <3>2
    <3> QED
      BY <1>7, <2>2, <3>1, <3>3, <3>4 DEF RateInv, AccountLow, AccountTells, WrappedLow
  <2> QED
    BY <1>6, <2>1, <2>2
<1>10. CASE ~Wrapped(p)
  <2>1. o = owing
    BY <1>5, <1>10
  <2>2. Account' < AudioRate + (IF cut' THEN BatchTime ELSE 0)
    BY <1>3, <1>4, <1>10, PaceLow
  <2> HIDE DEF owing, o
  <2>3. ahead' > 0 => ahead' <= Account' + Slack(overflows)
    <3>1. overflows \in Nat
      BY <1>2
    <3>2. o <= BatchTime \/ o <= p * UnitsPerSec - c * AudioRate + Slack(overflows)
      BY <1>3, <1>10, <2>1
    <3> QED
      BY <1>3, <1>4, <1>10, <3>1, <3>2, PaceTells
  <2>4. ahead' > 0 => Slack(overflows)' = Slack(overflows)
    <3>1. ahead' > 0 => overflows' = overflows
      BY <1>1, <1>5, <1>10
    <3> QED
      BY <3>1 DEF Slack, PerOverflow, BatchTime
  <2>5. ~Wrapped(samplesPushed)'
    <3>1. 0 * UnitsPerSec < Word
      BY DEF RateConstants
    <3> QED
      BY <1>6, <1>10, <3>1 DEF Wrapped, RateConstants
  <2>6. AccountLow'
    BY <2>2 DEF AccountLow, BatchTime
  <2> QED
    BY <1>7, <2>3, <2>4, <2>5, <2>6 DEF RateInv, AccountTells, WrappedLow
<1> QED
  BY <1>9, <1>10

\* The slack of as many overflows as there may be is what PaceIsKept allows.
LEMMA RateInvBounds == ASSUME RateConstants, RateInv PROVE PaceIsKept
<1> DEFINE M == MaxDrift * AudioRate
           B == Rebuffer * AudioRate
<1>1. /\ overflows \in Nat /\ ahead \in Nat
      /\ BatchTime \in Nat /\ AudioRate \in Nat \ {0} /\ M \in Nat /\ B \in Nat
      /\ MaxDrift \in Nat /\ Rebuffer \in Nat /\ Batch \in Nat /\ UnitsPerSec \in Nat
  <2>1. overflows \in Nat /\ ahead \in Nat
    BY DEF RateInv, RateTypeOK, RateConstants
  <2> QED
    BY <2>1, SlackGrows DEF RateConstants
<1> DEFINE n == overflows
           limit == (MaxDrift + n * Rebuffer) * AudioRate
                      + (1 + n) * (2 * Batch * UnitsPerSec + AudioRate)
<1>2. Slack(n) = M + BatchTime + n * (B + 2 * BatchTime + AudioRate)
  BY DEF Slack, PerOverflow
<1>3. limit = M + n * B + (1 + n) * (2 * BatchTime + AudioRate)
  <2>1. (MaxDrift + n * Rebuffer) * AudioRate = M + n * B
    <3>1. (n * Rebuffer) * AudioRate = n * B /\ n * Rebuffer \in Nat
      BY <1>1
    <3> QED
      BY <1>1, <3>1, RateTimes
  <2>2. 2 * Batch * UnitsPerSec = 2 * BatchTime
    BY <1>1 DEF BatchTime
  <2> QED
    BY <2>1, <2>2
<1>4. limit = Slack(n) + BatchTime + AudioRate
  <2>1. n * (B + 2 * BatchTime + AudioRate) = n * B + n * (2 * BatchTime + AudioRate)
    BY <1>1
  <2>2. (1 + n) * (2 * BatchTime + AudioRate)
          = 2 * BatchTime + AudioRate + n * (2 * BatchTime + AudioRate)
    BY <1>1
  <2>3. n * B \in Nat /\ n * (2 * BatchTime + AudioRate) \in Nat
    BY <1>1
  <2> HIDE DEF limit, M, B
  <2> QED
    BY <1>1, <1>2, <1>3, <2>1, <2>2, <2>3
<1>5. Slack(n) \in Nat /\ M + BatchTime <= Slack(n)
  BY <1>1, SlackGrows
<1>6. ahead <= Slack(n) + BatchTime + AudioRate
  <2>1. CASE ahead = 0
    BY <1>1, <1>5, <2>1
  <2>2. CASE ahead > 0 /\ Wrapped(samplesPushed)
    BY <1>1, <1>5, <2>2 DEF RateInv, WrappedLow
  <2>3. CASE ahead > 0 /\ ~Wrapped(samplesPushed)
    <3>1. Account < AudioRate + BatchTime
      <4>1. Account \in Int
        BY <1>1 DEF Account, RateInv, RateTypeOK, RateConstants
      <4> QED
        BY <1>1, <2>3, <4>1 DEF RateInv, AccountLow
    <3>2. ahead <= Account + Slack(n) /\ Account \in Int
      BY <1>1, <2>3 DEF RateInv, AccountTells, Account, RateTypeOK, RateConstants
    <3> QED
      BY <1>1, <1>5, <3>1, <3>2
  <2> QED
    BY <1>1, <2>1, <2>2, <2>3
<1> QED
  BY <1>4, <1>6 DEF PaceIsKept

\* For every rate, batch and width of the counter, and whatever time passes between the
\* calls and in their sleeps: over no stretch of time does the emulator run further ahead
\* of the samples than the limiter's drift and a batch or two allow.
THEOREM PaceTheorem == RateSpec => []PaceIsKept
<1>1. RateInit => RateInv
  BY RateConstants, RateInitInv
<1>2. RateInv /\ [AudioRateLimiterTick]_rateVars => RateInv'
  <2>1. ASSUME RateInv, UNCHANGED rateVars PROVE RateInv'
    <3>1. /\ running' = running /\ elapsed' = elapsed /\ samplesPushed' = samplesPushed
          /\ cut' = cut /\ ahead' = ahead /\ overflows' = overflows
      BY <2>1 DEF rateVars
    <3> QED
      BY <2>1, <3>1 DEF RateInv, RateTypeOK, AccountLow, AccountTells, WrappedLow,
                        Account, Slack, PerOverflow, BatchTime, Wrapped
  <2> QED
    BY <2>1, RateConstants, RateStep
<1>3. RateInv => PaceIsKept
  BY RateConstants, RateInvBounds
<1> QED
  BY <1>1, <1>2, <1>3, PTL DEF RateSpec

-----------------------------------------------------------------------------
(***************************************************************************)
(* The inductive invariant.  A buffer is free, being filled, queued, or    *)
(* lost to an enqueue that failed, and each that is free has a token.  The *)
(* buffers are queued in turn, so that the one last queued is not the one  *)
(* to be filled next; two are queued only if none was lost.                *)
(***************************************************************************)
Filling == IF call = "store" \/ writePos > 0 THEN 1 ELSE 0
Balance == tokens + Len(queued) + Filling + failures = NumBufs
InTurn ==
  /\ failures = 0 /\ Len(queued) > 0 => queued[Len(queued)] = 1 - writeIdx
  /\ Len(queued) = 2 => queued[1] = writeIdx
AudioInv == AudioTypeOK /\ Balance /\ InTurn /\ (call = "wait" => writePos = 0)

\* The invariant holds at the start.
LEMMA AudioInitInv == AudioInit => AudioInv
BY AudioConstants, EmptySeq
   DEF AudioInit, AudioInv, AudioTypeOK, Balance, Filling, InTurn, NumBufs

\* What a buffer that is filled or waited for leaves for the queue.
LEMMA CallInv ==
  ASSUME AudioInv, AudioPushSample \/ SemaphoreWait
  PROVE  AudioInv'
BY AudioConstants
   DEF AudioPushSample, SemaphoreWait, AudioInv, AudioTypeOK, Balance, Filling, InTurn, NumBufs

\* A sample is stored; a full buffer is queued behind the other or lost.
LEMMA StoreInv ==
  ASSUME AudioInv, StoreSample
  PROVE  AudioInv'
<1>1. /\ call = "store" /\ call' = "idle" /\ tokens' = tokens
      /\ tokens \in Nat /\ Len(queued) \in Nat /\ failures \in Nat
      /\ tokens + Len(queued) + failures = 1
  BY DEF StoreSample, AudioInv, AudioTypeOK, Balance, Filling, NumBufs
<1>2. CASE writePos + 1 < BufSamples
  BY <1>1, <1>2, AudioConstants
     DEF StoreSample, AudioInv, AudioTypeOK, Balance, Filling, InTurn, NumBufs
<1>3. CASE ~(writePos + 1 < BufSamples)
  <2>1. writePos' = 0 /\ writeIdx' = 1 - writeIdx /\ writeIdx' \in {0, 1}
    BY <1>3 DEF StoreSample, AudioInv, AudioTypeOK
  <2>2. CASE queued' = Append(queued, writeIdx) /\ UNCHANGED failures
    <3>1. /\ queued' \in Seq({0, 1}) /\ Len(queued') = Len(queued) + 1
          /\ queued'[Len(queued')] = writeIdx
          /\ Len(queued) = 1 => queued'[1] = queued[1]
      BY <2>2 DEF AudioInv, AudioTypeOK
    <3>2. Len(queued) = 1 => queued[1] = 1 - writeIdx
      BY <1>1 DEF AudioInv, InTurn, AudioTypeOK
    <3>. QED
      BY <1>1, <2>1, <2>2, <3>1, <3>2, AudioConstants
         DEF AudioInv, AudioTypeOK, Balance, Filling, InTurn, NumBufs
  <2>3. CASE failures < MaxFailures /\ failures' = failures + 1 /\ UNCHANGED queued
    BY <1>1, <2>1, <2>3, AudioConstants
       DEF AudioInv, AudioTypeOK, Balance, Filling, InTurn, NumBufs
  <2>. QED BY <1>3, <2>2, <2>3 DEF StoreSample
<1>. QED BY <1>2, <1>3

\* The audio queue returns the buffer it has played, and a token with it.
LEMMA CallbackInv ==
  ASSUME AudioInv, AQOutputCallback
  PROVE  AudioInv'
<1>1. /\ queued' \in Seq({0, 1}) /\ Len(queued') = Len(queued) - 1 /\ Len(queued) \in 1..2
      /\ Len(queued) = 2 => queued'[1] = queued[2]
      /\ tokens' = tokens + 1 /\ tokens \in Nat /\ failures \in Nat
      /\ UNCHANGED <<call, writeIdx, writePos, failures>>
  <2>1. /\ Tail(queued) \in Seq({0, 1}) /\ Len(Tail(queued)) = Len(queued) - 1
        /\ \A i \in 1 .. Len(Tail(queued)) : Tail(queued)[i] = queued[i + 1]
        /\ Len(queued) > 0
    BY HeadTailProperties, EmptySeq DEF AQOutputCallback, AudioInv, AudioTypeOK
  <2>. QED BY <2>1 DEF AQOutputCallback, AudioInv, AudioTypeOK, NumBufs
<1>2. AudioTypeOK'
  BY <1>1 DEF AudioInv, AudioTypeOK, Balance, Filling, NumBufs
<1>3. Balance'
  <2>1. Filling' = Filling /\ Filling \in {0, 1}
    BY <1>1 DEF Filling
  <2>. QED BY <1>1, <2>1 DEF AudioInv, Balance, NumBufs
<1>4. InTurn'
  <2>1. Len(queued') \in {0, 1}
    BY <1>1
  <2>2. failures' = 0 /\ Len(queued') = 1 => queued'[1] = 1 - writeIdx'
    <3>1. SUFFICES ASSUME failures' = 0, Len(queued') = 1
                   PROVE  queued'[1] = 1 - writeIdx'
      OBVIOUS
    <3>2. Len(queued) = 2
      BY <1>1, <3>1
    <3>3. queued[2] = 1 - writeIdx
      BY <1>1, <3>1, <3>2 DEF AudioInv, InTurn
    <3>. QED BY <1>1, <3>2, <3>3
  <2>. QED BY <2>1, <2>2 DEF InTurn
<1>. QED BY <1>1, <1>2, <1>3, <1>4 DEF AudioInv

\* The invariant is inductive.
LEMMA AudioStepInv == AudioInv /\ [AudioNext]_audioVars => AudioInv'
<1> SUFFICES ASSUME AudioInv, [AudioNext]_audioVars PROVE AudioInv'
  OBVIOUS
<1>1. CASE UNCHANGED audioVars
  BY <1>1 DEF audioVars, AudioInv, AudioTypeOK, Balance, Filling, InTurn
<1>. QED BY <1>1, CallInv, StoreInv, CallbackInv DEF AudioNext

-----------------------------------------------------------------------------
\* The inductive invariant of the two threads.
THEOREM AudioInvariant == AudioSpec => []AudioInv
<1>. QED BY AudioInitInv, AudioStepInv, PTL DEF AudioSpec

\* The APU and the backend together are the backend with a caller: what the APU does
\* with its samples never disturbs the buffers (apu.c 860-908).
THEOREM SoundImplementsAudio == SoundSpec => AudioSpec
<1>1. SoundInit => AudioInit
  BY DEF SoundInit
<1>2. [SoundNext \/ LimiterNext]_soundVars => [AudioNext]_audioVars
  <2>1. ASSUME NEW n \in StepLengths, SoundStep(n) PROVE [AudioNext]_audioVars
    BY <2>1 DEF SoundStep, Idle, PushSample, outputs, AudioNext
  <2>2. CASE Emulate
    BY <2>2 DEF Emulate, outputs
  <2>3. CASE Push
    BY <2>3 DEF Push, AudioNext
  <2>4. CASE Play
    BY <2>4 DEF Play, AudioNext
  <2>5. CASE Die \/ LimiterNext \/ UNCHANGED soundVars
    BY <2>5 DEF Die, LimiterNext, Limit, outputs, soundVars
  <2>. QED BY <2>1, <2>2, <2>3, <2>4, <2>5 DEF SoundNext
<1>. QED BY <1>1, <1>2, PTL DEF SoundSpec, AudioSpec

\* The emulator never writes into a buffer that is queued or playing, whatever the
\* size of the buffers and however many enqueues fail (coreaudio_backend.c 30-61).
THEOREM BufferTheorem == SoundSpec => []BufferIsFree
<1>1. AudioInv => BufferIsFree
  <2> SUFFICES ASSUME AudioInv, call = "store", NEW i \in 1 .. Len(queued)
               PROVE  queued[i] # writeIdx
    BY LenProperties DEF BufferIsFree, AudioInv, AudioTypeOK
  <2>1. Len(queued) = 1 /\ failures = 0 /\ i = 1
    <3>1. Len(queued) \in Nat
      BY LenProperties DEF AudioInv, AudioTypeOK
    <3>2. Filling = 1
      BY DEF Filling
    <3>3. tokens \in Nat /\ failures \in Nat /\ tokens + Len(queued) + 1 + failures = 2
      BY <3>2 DEF AudioInv, AudioTypeOK, Balance, NumBufs
    <3>4. \A n, t, f \in Nat : t + n + 1 + f = 2 /\ i \in 1 .. n => n = 1 /\ f = 0 /\ i = 1
      OBVIOUS
    <3>. QED BY <3>1, <3>3, <3>4
  <2>. QED BY <2>1 DEF AudioInv, AudioTypeOK, InTurn
<1>. QED BY <1>1, AudioInvariant, SoundImplementsAudio, PTL

\* A waiting emulator has a token or a buffer that will bring one.
NotStarved == call = "wait" /\ failures < NumBufs => tokens > 0 \/ queued # <<>>

\* AudioPushSample never waits for a token that nobody will signal, as long as fewer
\* enqueues have failed than there are buffers (coreaudio_backend.c 30-61): the safety
\* half of PushReturns.
THEOREM NotStarvedTheorem == SoundSpec => []NotStarved
<1>1. AudioInv => NotStarved
  BY DEF AudioInv, AudioTypeOK, Balance, Filling, NumBufs, NotStarved
<1>. QED BY <1>1, AudioInvariant, SoundImplementsAudio, PTL

\* The outputs that need no limiter leave it alone, so that it keeps its pace in the
\* whole (interface.h, rate_limiter.c 37-58).
THEOREM SoundImplementsRate == SoundSpec => RateSpec
<1>1. SoundInit => RateInit
  BY DEF SoundInit
<1>2. [SoundNext \/ LimiterNext]_soundVars => [AudioRateLimiterTick]_rateVars
  BY DEF SoundNext, LimiterNext, Limit, soundVars
<1>. QED BY <1>1, <1>2, PTL DEF SoundSpec, RateSpec

\* The emulator keeps the pace of the limiter, for every rate and batch.
COROLLARY SoundPace == SoundSpec => []PaceIsKept
BY SoundImplementsRate, PaceTheorem, PTL

-----------------------------------------------------------------------------
(***************************************************************************)
(* The channels.  A state of them is a record of records.  Of its numbers  *)
(* only those matter that the sweep computes with: a period that is swept  *)
(* keeps its bits only if the target that is not muted fits them.          *)
(***************************************************************************)
Shaped(s) ==
  /\ DOMAIN s = {"phase", "on", "pulse", "sweep", "tri", "noise", "base", "mix", "quarter",
                 "half", "sum", "count", "clock", "pushed"}
  /\ DOMAIN s.pulse = {"countdown", "period", "duty", "length", "out", "control", "start",
                       "divider", "decay"}
  /\ DOMAIN s.sweep = {"enabled", "period", "negate", "shift", "reload", "divider", "target",
                       "mute"}
  /\ DOMAIN s.tri = {"countdown", "period", "seq", "length", "out", "control", "linear", "reload"}
  /\ DOMAIN s.noise = {"countdown", "period", "lfsr", "mode", "length", "out", "control", "start",
                       "divider", "decay"}

SweepOK(s) ==
  /\ s.pulse.period \in 0..MaxPeriod /\ s.pulse.length \in Nat
  /\ s.sweep.shift \in 0..7 /\ s.sweep.target \in Nat /\ s.sweep.mute \in BOOLEAN
  /\ ~s.sweep.mute => s.sweep.target <= MaxPeriod

TargetFresh(s) ==
  s.pulse.length > 0 =>
    s.sweep.target = SweepTarget(s) /\ (s.sweep.mute <=> SweepMutes(s, SweepTarget(s)))

OutputsFresh(s) ==
  /\ s.pulse.out = PulseOutput(s) /\ s.tri.out = TriangleOutput(s)
  /\ s.noise.out = NoiseOutput(s) /\ s.base = s.noise.out

RegsOK(s) == Shaped(s) /\ SweepOK(s)

\* The target of a period and a shift of three bits is a number.
LEMMA TargetIsNat == ASSUME ToneConstants, NEW s, RegsOK(s) PROVE SweepTarget(s) \in Nat
<1> DEFINE p == s.pulse.period
<1>1. 2^0 = 1 /\ 2^1 = 2 /\ 2^2 = 4 /\ 2^3 = 8 /\ 2^4 = 16 /\ 2^5 = 32 /\ 2^6 = 64 /\ 2^7 = 128
  OBVIOUS
<1>2. p \in Nat /\ s.sweep.shift \in 0..7
  BY DEF RegsOK, SweepOK, ToneConstants
<1>3. p \div (2 ^ s.sweep.shift) \in Nat
  <2>1. /\ p \div 1 \in Nat /\ p \div 2 \in Nat /\ p \div 4 \in Nat /\ p \div 8 \in Nat
        /\ p \div 16 \in Nat /\ p \div 32 \in Nat /\ p \div 64 \in Nat /\ p \div 128 \in Nat
    BY <1>2
  <2>2. s.sweep.shift \in {0, 1, 2, 3, 4, 5, 6, 7}
    BY <1>2
  <2> DEFINE k == s.sweep.shift
  <2> HIDE DEF p, k
  <2>3. k \in {0, 1, 2, 3, 4, 5, 6, 7}
    BY <2>2 DEF k
  <2>4. p \div (2 ^ k) \in Nat
    <3>0. CASE k = 0
      BY <1>1, <2>1, <3>0, Zenon
    <3>1. CASE k = 1
      BY <1>1, <2>1, <3>1, Zenon
    <3>2. CASE k = 2
      BY <1>1, <2>1, <3>2, Zenon
    <3>3. CASE k = 3
      BY <1>1, <2>1, <3>3, Zenon
    <3>4. CASE k = 4
      BY <1>1, <2>1, <3>4, Zenon
    <3>5. CASE k = 5
      BY <1>1, <2>1, <3>5, Zenon
    <3>6. CASE k = 6
      BY <1>1, <2>1, <3>6, Zenon
    <3>7. CASE k = 7
      BY <1>1, <2>1, <3>7, Zenon
    <3>. QED BY <2>3, <3>0, <3>1, <3>2, <3>3, <3>4, <3>5, <3>6, <3>7, Zenon
  <2> QED
    BY <2>4 DEF p, k
<1>4. \A a \in Nat, c \in Nat : /\ a + c \in Nat /\ a - c - 1 \in Int /\ a - c - 0 \in Int
  OBVIOUS
<1>5. \A t \in Int : (IF t < 0 THEN 0 ELSE t) \in Nat
  OBVIOUS
<1> QED
  BY <1>2, <1>3, <1>4, <1>5 DEF SweepTarget

\* A sweep that is computed anew is fresh.
LEMMA SweepCalcFresh ==
  ASSUME ToneConstants, NEW s, RegsOK(s)
  PROVE  RegsOK(SweepCalc(s)) /\ TargetFresh(SweepCalc(s))
<1> DEFINE t == SweepCalc(s)
<1>1. SweepTarget(s) \in Nat
  BY TargetIsNat
<1>2. /\ Shaped(t) /\ t.pulse = s.pulse /\ t.sweep.shift = s.sweep.shift
      /\ t.sweep.negate = s.sweep.negate /\ t.sweep.target = SweepTarget(s)
      /\ (t.sweep.mute <=> SweepMutes(s, SweepTarget(s)))
  BY DEF RegsOK, Shaped, SweepCalc
<1>3. SweepTarget(t) = SweepTarget(s)
  BY <1>2 DEF SweepTarget
<1>4. SweepMutes(t, SweepTarget(t)) <=> SweepMutes(s, SweepTarget(s))
  BY <1>2, <1>3 DEF SweepMutes
<1>5. ~SweepMutes(s, SweepTarget(s)) => SweepTarget(s) <= MaxPeriod
  BY <1>1 DEF SweepMutes, ToneConstants
<1>6. t.sweep.mute = SweepMutes(s, SweepTarget(s))
  BY DEF RegsOK, Shaped, SweepCalc
<1>7. SweepMutes(s, SweepTarget(s)) \in BOOLEAN
  BY Zenon DEF SweepMutes
<1> HIDE DEF t
<1>8. t.sweep.mute \in BOOLEAN
  BY <1>6, <1>7, Zenon
<1>9. RegsOK(t) /\ TargetFresh(t)
  BY <1>1, <1>2, <1>3, <1>4, <1>5, <1>8 DEF RegsOK, SweepOK, TargetFresh
<1> QED
  BY <1>9 DEF t

(***************************************************************************)
(* What the parts of a step leave alone: the sweep and what it computes    *)
(* with (SameSweep), and what the outputs are made of.                     *)
(***************************************************************************)
SameSweep(s, t) ==
  /\ Shaped(t) /\ t.sweep = s.sweep /\ t.pulse.period = s.pulse.period
  /\ t.pulse.length = s.pulse.length

\* The sweep stays right and fresh.
LEMMA SweepStays ==
  ASSUME NEW s, NEW t, RegsOK(s), SameSweep(s, t)
  PROVE  RegsOK(t) /\ (TargetFresh(s) => TargetFresh(t))
BY DEF RegsOK, SameSweep, SweepOK, TargetFresh, SweepTarget, SweepMutes

\* ApuUpdateOutput makes the outputs fresh and the mix their sum.
LEMMA UpdatedFresh ==
  ASSUME NEW s, Shaped(s)
  PROVE  /\ SameSweep(s, Updated(s)) /\ OutputsFresh(Updated(s))
         /\ Updated(s).mix = Mixed(Updated(s))
<1> DEFINE t == [s EXCEPT !.pulse.out = PulseOutput(s), !.tri.out = TriangleOutput(s),
                          !.noise.out = NoiseOutput(s), !.base = NoiseOutput(s)]
           u == [t EXCEPT !.mix = Mixed(t)]
<1>1. u = Updated(s)
  BY DEF Updated
<1>2. /\ Shaped(t) /\ t.sweep = s.sweep
      /\ t.pulse.period = s.pulse.period /\ t.pulse.length = s.pulse.length
      /\ t.pulse.duty = s.pulse.duty /\ t.pulse.control = s.pulse.control
      /\ t.pulse.decay = s.pulse.decay
      /\ t.tri.period = s.tri.period /\ t.tri.seq = s.tri.seq
      /\ t.noise.length = s.noise.length /\ t.noise.lfsr = s.noise.lfsr
      /\ t.noise.control = s.noise.control /\ t.noise.decay = s.noise.decay
      /\ t.pulse.out = PulseOutput(s) /\ t.tri.out = TriangleOutput(s)
      /\ t.noise.out = NoiseOutput(s) /\ t.base = NoiseOutput(s)
  BY DEF Shaped
<1>3. /\ PulseOutput(t) = PulseOutput(s) /\ TriangleOutput(t) = TriangleOutput(s)
      /\ NoiseOutput(t) = NoiseOutput(s)
  BY <1>2 DEF PulseOutput, TriangleOutput, NoiseOutput, Level
<1> HIDE DEF t
<1>4. /\ Shaped(u) /\ u.pulse = t.pulse /\ u.sweep = t.sweep /\ u.tri = t.tri
      /\ u.noise = t.noise /\ u.base = t.base /\ u.mix = Mixed(t)
  BY <1>2 DEF Shaped
<1>5. /\ PulseOutput(u) = PulseOutput(t) /\ TriangleOutput(u) = TriangleOutput(t)
      /\ NoiseOutput(u) = NoiseOutput(t) /\ Mixed(u) = Mixed(t)
  BY <1>4 DEF PulseOutput, TriangleOutput, NoiseOutput, Level, Mixed
<1> HIDE DEF u
<1> QED
  BY <1>1, <1>2, <1>3, <1>4, <1>5 DEF SameSweep, OutputsFresh

(***************************************************************************)
(* The clocks.                                                             *)
(***************************************************************************)

\* What a quarter frame clock leaves alone.
LEMMA QuarterStays ==
  ASSUME NEW s, Shaped(s)
  PROVE  SameSweep(s, QuarterTick(s))
<1> DEFINE t == QuarterTick(s)
<1>1. /\ DOMAIN EnvelopeTick(s.pulse) = DOMAIN s.pulse /\ DOMAIN EnvelopeTick(s.noise) = DOMAIN s.noise
      /\ DOMAIN LinearTick(s.tri) = DOMAIN s.tri
      /\ EnvelopeTick(s.pulse).period = s.pulse.period
      /\ EnvelopeTick(s.pulse).length = s.pulse.length
  BY DEF Shaped, EnvelopeTick, LinearTick
<1>2. /\ DOMAIN t = DOMAIN s /\ t.pulse = EnvelopeTick(s.pulse) /\ t.noise = EnvelopeTick(s.noise)
      /\ t.tri = LinearTick(s.tri) /\ t.sweep = s.sweep
  BY DEF Shaped, QuarterTick
<1> HIDE DEF t
<1>3. SameSweep(s, t)
  BY <1>1, <1>2 DEF Shaped, SameSweep
<1> QED
  BY <1>3 DEF t

\* A sweep moves the period to a target that fits and computes the next.
LEMMA SweepTickOK ==
  ASSUME ToneConstants, NEW s, RegsOK(s)
  PROVE  RegsOK(SweepTick(s)) /\ (TargetFresh(s) => TargetFresh(SweepTick(s)))
<1> DEFINE m == [s EXCEPT !.pulse.period = s.sweep.target]
           t == IF SweepMoves(s) THEN SweepCalc(m) ELSE s
           u == [t EXCEPT !.sweep.divider = t.sweep.period, !.sweep.reload = FALSE]
           v == [t EXCEPT !.sweep.divider = @ - 1]
<1>1. SweepTick(s) = u \/ SweepTick(s) = v
  BY DEF SweepTick
<1>2. RegsOK(t) /\ (TargetFresh(s) => TargetFresh(t))
  <2>1. CASE SweepMoves(s)
    <3>1. RegsOK(m)
      BY <2>1 DEF RegsOK, Shaped, SweepOK, SweepMoves, ToneConstants
    <3> HIDE DEF m
    <3> QED
      BY <2>1, <3>1, SweepCalcFresh
  <2> QED
    BY <2>1
<1> HIDE DEF t
<1>3. /\ Shaped(u) /\ Shaped(v) /\ u.pulse = t.pulse /\ v.pulse = t.pulse
      /\ u.sweep.shift = t.sweep.shift /\ v.sweep.shift = t.sweep.shift
      /\ u.sweep.negate = t.sweep.negate /\ v.sweep.negate = t.sweep.negate
      /\ u.sweep.target = t.sweep.target /\ v.sweep.target = t.sweep.target
      /\ u.sweep.mute = t.sweep.mute /\ v.sweep.mute = t.sweep.mute
  BY <1>2 DEF RegsOK, Shaped
<1> HIDE DEF u, v
<1>4. RegsOK(u) /\ (TargetFresh(t) => TargetFresh(u))
  BY <1>2, <1>3 DEF RegsOK, SweepOK, TargetFresh, SweepTarget, SweepMutes
<1>5. RegsOK(v) /\ (TargetFresh(t) => TargetFresh(v))
  BY <1>2, <1>3 DEF RegsOK, SweepOK, TargetFresh, SweepTarget, SweepMutes
<1> QED
  BY <1>1, <1>2, <1>4, <1>5

\* A half frame clock lets lengths run out and none begin.
LEMMA HalfTickOK ==
  ASSUME ToneConstants, NEW s, RegsOK(s)
  PROVE  RegsOK(HalfTick(s)) /\ (TargetFresh(s) => TargetFresh(HalfTick(s)))
<1> DEFINE t == [s EXCEPT !.pulse = LengthTick(@), !.tri = LengthTick(@), !.noise = LengthTick(@)]
<1>1. /\ DOMAIN LengthTick(s.pulse) = DOMAIN s.pulse /\ DOMAIN LengthTick(s.tri) = DOMAIN s.tri
      /\ DOMAIN LengthTick(s.noise) = DOMAIN s.noise
      /\ LengthTick(s.pulse).period = s.pulse.period
      /\ LengthTick(s.pulse).length \in Nat
      /\ LengthTick(s.pulse).length > 0 => s.pulse.length > 0
  BY DEF RegsOK, Shaped, SweepOK, LengthTick
<1>2. /\ DOMAIN t = DOMAIN s /\ t.pulse = LengthTick(s.pulse) /\ t.noise = LengthTick(s.noise)
      /\ t.tri = LengthTick(s.tri) /\ t.sweep = s.sweep
  BY DEF RegsOK, Shaped
<1> HIDE DEF t
<1>3. RegsOK(t) /\ (TargetFresh(s) => TargetFresh(t))
  BY <1>1, <1>2 DEF RegsOK, Shaped, SweepOK, TargetFresh, SweepTarget, SweepMutes
<1> QED
  BY <1>3, SweepTickOK DEF HalfTick, t

\* ApuFlushFrameSignals keeps the sweep right, and a fresh one fresh.
LEMMA FlushedOK ==
  ASSUME ToneConstants, NEW s, RegsOK(s)
  PROVE  RegsOK(Flushed(s)) /\ (TargetFresh(s) => TargetFresh(Flushed(s)))
<1> DEFINE t == IF s.quarter THEN QuarterTick(s) ELSE s
           u == IF s.half THEN HalfTick(t) ELSE t
           v == [u EXCEPT !.quarter = FALSE, !.half = FALSE]
<1>1. RegsOK(t) /\ (TargetFresh(s) => TargetFresh(t))
  BY QuarterStays, SweepStays DEF RegsOK
<1> HIDE DEF t
<1>2. RegsOK(u) /\ (TargetFresh(t) => TargetFresh(u))
  BY <1>1, HalfTickOK
<1> HIDE DEF u
<1>3. SameSweep(u, v)
  BY <1>2 DEF RegsOK, Shaped, SameSweep
<1> HIDE DEF v
<1>4. RegsOK(v) /\ (TargetFresh(u) => TargetFresh(v))
  BY <1>2, <1>3, SweepStays
<1> QED
  BY <1>1, <1>2, <1>4 DEF Flushed, t, u, v

(***************************************************************************)
(* The registers.                                                          *)
(***************************************************************************)
Fresh(s) == RegsOK(s) /\ TargetFresh(s)

\* $4015 ends lengths and begins none.
LEMMA StatusFresh == ASSUME NEW s, NEW on, Fresh(s) PROVE Fresh(Status(s, on))
<1> DEFINE t == Status(s, on)
<1>1. /\ Shaped(t) /\ t.sweep = s.sweep /\ t.pulse.period = s.pulse.period
      /\ t.pulse.length = IF on.pulse THEN s.pulse.length ELSE 0
  BY DEF Fresh, RegsOK, Shaped, Status
<1> HIDE DEF t
<1>2. Fresh(t)
  BY <1>1 DEF Fresh, RegsOK, SweepOK, TargetFresh, SweepTarget, SweepMutes
<1> QED
  BY <1>2 DEF t

\* R0 of each channel comes after the pending clocks.
LEMMA R0Fresh ==
  ASSUME ToneConstants, NEW s, NEW c, Fresh(s)
  PROVE  Fresh(PulseR0(s, c)) /\ Fresh(TriangleR0(s, c)) /\ Fresh(NoiseR0(s, c))
<1> DEFINE f == Flushed(s)
<1>1. RegsOK(f) /\ TargetFresh(f)
  BY FlushedOK DEF Fresh
<1> HIDE DEF f
<1>2. /\ SameSweep(f, [f EXCEPT !.pulse.control = c]) /\ SameSweep(f, [f EXCEPT !.tri.control = c])
      /\ SameSweep(f, [f EXCEPT !.noise.control = c])
  BY <1>1 DEF RegsOK, Shaped, SameSweep
<1>3. /\ Fresh([f EXCEPT !.pulse.control = c]) /\ Fresh([f EXCEPT !.tri.control = c])
      /\ Fresh([f EXCEPT !.noise.control = c])
  BY <1>1, <1>2, SweepStays DEF Fresh
<1> QED
  BY <1>3 DEF PulseR0, TriangleR0, NoiseR0, f

\* R1 and R2 of the pulse compute the sweep anew.
LEMMA SweepWriteFresh ==
  ASSUME ToneConstants, NEW s, Fresh(s)
  PROVE  /\ \A v \in Sweeps : Fresh(PulseR1(s, v))
         /\ \A p \in Periods : Fresh(PulseR2(s, p))
<1>1. ASSUME NEW v \in Sweeps PROVE Fresh(PulseR1(s, v))
  <2> DEFINE t == [s EXCEPT !.sweep.enabled = v.enabled, !.sweep.period = v.period,
                            !.sweep.negate = v.negate, !.sweep.shift = v.shift, !.sweep.reload = TRUE]
  <2>1. RegsOK(t)
    BY DEF Fresh, RegsOK, Shaped, SweepOK, ToneConstants
  <2> HIDE DEF t
  <2>2. Fresh(SweepCalc(t))
    BY <2>1, SweepCalcFresh DEF Fresh
  <2> QED
    BY <2>2 DEF PulseR1, t
<1>2. ASSUME NEW p \in Periods PROVE Fresh(PulseR2(s, p))
  <2> DEFINE t == [s EXCEPT !.pulse.period = p]
  <2>1. RegsOK(t)
    BY DEF Fresh, RegsOK, Shaped, SweepOK, ToneConstants
  <2> HIDE DEF t
  <2>2. Fresh(SweepCalc(t))
    BY <2>1, SweepCalcFresh DEF Fresh
  <2> QED
    BY <2>2 DEF PulseR2, t
<1> QED
  BY <1>1, <1>2

\* R2 of the triangle and of the noise, which have no sweep.
LEMMA PeriodFresh ==
  ASSUME NEW s, NEW p, NEW mode, Fresh(s)
  PROVE  Fresh(TriangleR2(s, p)) /\ Fresh(NoiseR2(s, p, mode))
<1>1. SameSweep(s, TriangleR2(s, p)) /\ SameSweep(s, NoiseR2(s, p, mode))
  BY DEF Fresh, RegsOK, Shaped, SameSweep, TriangleR2, NoiseR2
<1> QED
  BY <1>1, SweepStays DEF Fresh

\* R3 of the pulse: the pending sweep goes by the target of the period before, and what
\* it leaves is computed anew.
LEMMA PulseR3Fresh ==
  ASSUME ToneConstants, NEW s, Fresh(s), NEW p \in Periods, NEW load \in LengthLoads
  PROVE  Fresh(PulseR3(s, p, load))
<1> DEFINE t == [s EXCEPT !.pulse.period = p, !.pulse.duty = 0]
           length == Loaded(t.pulse, Flushed(t).pulse, load)
           u == IF s.on.pulse THEN [Flushed(t) EXCEPT !.pulse.length = length] ELSE t
           v == [u EXCEPT !.pulse.start = TRUE]
<1>1. RegsOK(t)
  BY DEF Fresh, RegsOK, Shaped, SweepOK, ToneConstants
<1> HIDE DEF t
<1>2. RegsOK(Flushed(t)) /\ length \in Nat
  BY <1>1, FlushedOK DEF RegsOK, SweepOK, Loaded, ToneConstants
<1> HIDE DEF length
<1>3. RegsOK(u)
  BY <1>1, <1>2 DEF RegsOK, Shaped, SweepOK
<1> HIDE DEF u
<1>4. RegsOK(v)
  BY <1>3 DEF RegsOK, Shaped, SweepOK
<1> HIDE DEF v
<1>5. Fresh(SweepCalc(v))
  BY <1>4, SweepCalcFresh DEF Fresh
<1> QED
  BY <1>5 DEF PulseR3, t, u, v, length

\* R3 of the triangle and of the noise.
LEMMA R3Fresh ==
  ASSUME ToneConstants, NEW s, Fresh(s), NEW p, NEW load
  PROVE  Fresh(TriangleR3(s, p, load)) /\ Fresh(NoiseR3(s, load))
<1>1. Fresh(TriangleR3(s, p, load))
  <2> DEFINE t == [s EXCEPT !.tri.period = p]
             length == Loaded(t.tri, Flushed(t).tri, load)
             u == IF s.on.tri THEN [Flushed(t) EXCEPT !.tri.length = length] ELSE t
             v == [u EXCEPT !.tri.reload = TRUE]
  <2>1. SameSweep(s, t)
    BY DEF Fresh, RegsOK, Shaped, SameSweep
  <2> HIDE DEF t
  <2>2. RegsOK(t) /\ TargetFresh(t)
    BY <2>1, SweepStays DEF Fresh
  <2>3. RegsOK(Flushed(t)) /\ TargetFresh(Flushed(t))
    BY <2>2, FlushedOK
  <2> HIDE DEF length
  <2>4. u = t \/ SameSweep(Flushed(t), u)
    BY <2>3 DEF RegsOK, Shaped, SameSweep
  <2> HIDE DEF u
  <2>5. RegsOK(u) /\ TargetFresh(u)
    BY <2>2, <2>3, <2>4, SweepStays
  <2>6. SameSweep(u, v)
    BY <2>5 DEF RegsOK, Shaped, SameSweep
  <2> HIDE DEF v
  <2>7. Fresh(v)
    BY <2>5, <2>6, SweepStays DEF Fresh
  <2> QED
    BY <2>7 DEF TriangleR3, t, u, v, length
<1>2. Fresh(NoiseR3(s, load))
  <2> DEFINE length == Loaded(s.noise, Flushed(s).noise, load)
             u == IF s.on.noise THEN [Flushed(s) EXCEPT !.noise.length = length] ELSE s
             v == [u EXCEPT !.noise.start = TRUE]
  <2>1. RegsOK(Flushed(s)) /\ TargetFresh(Flushed(s))
    BY FlushedOK DEF Fresh
  <2> HIDE DEF length
  <2>2. u = s \/ SameSweep(Flushed(s), u)
    BY <2>1 DEF RegsOK, Shaped, SameSweep
  <2> HIDE DEF u
  <2>3. RegsOK(u) /\ TargetFresh(u)
    BY <2>1, <2>2, SweepStays DEF Fresh
  <2>4. SameSweep(u, v)
    BY <2>3 DEF RegsOK, Shaped, SameSweep
  <2> HIDE DEF v
  <2>5. Fresh(v)
    BY <2>3, <2>4, SweepStays DEF Fresh
  <2> QED
    BY <2>5 DEF NoiseR3, u, v, length
<1> QED
  BY <1>1, <1>2

(***************************************************************************)
(* The timers.                                                             *)
(***************************************************************************)

\* A state with the same channels has the same outputs.
LEMMA OutputsStay ==
  ASSUME NEW s, NEW t, OutputsFresh(s),
         /\ t.sweep.mute = s.sweep.mute /\ t.pulse.length = s.pulse.length
         /\ t.pulse.duty = s.pulse.duty /\ t.pulse.control = s.pulse.control
         /\ t.pulse.decay = s.pulse.decay /\ t.pulse.out = s.pulse.out,
         /\ t.tri.period = s.tri.period /\ t.tri.seq = s.tri.seq /\ t.tri.out = s.tri.out,
         /\ t.noise = s.noise /\ t.base = s.base
  PROVE  OutputsFresh(t)
BY DEF OutputsFresh, PulseOutput, TriangleOutput, NoiseOutput, Level

\* A pulse that sounds caches its new output; one that does not keeps the silence.
LEMMA PulseTickFresh ==
  ASSUME NEW s, NEW ticks, Shaped(s), OutputsFresh(s)
  PROVE  SameSweep(s, PulseTick(s, ticks)) /\ OutputsFresh(PulseTick(s, ticks))
<1>1. CASE ticks <= s.pulse.countdown
  <2> DEFINE t == [s EXCEPT !.pulse.countdown = @ - ticks]
  <2>1. /\ SameSweep(s, t) /\ t.sweep = s.sweep /\ t.tri = s.tri /\ t.noise = s.noise
        /\ t.base = s.base /\ t.pulse.duty = s.pulse.duty /\ t.pulse.control = s.pulse.control
        /\ t.pulse.decay = s.pulse.decay /\ t.pulse.out = s.pulse.out
        /\ t.pulse.length = s.pulse.length
    BY DEF Shaped, SameSweep
  <2> HIDE DEF t
  <2>2. OutputsFresh(t)
    BY <2>1, OutputsStay
  <2> QED
    BY <1>1, <2>1, <2>2 DEF PulseTick, t
<1>2. CASE ~(ticks <= s.pulse.countdown) /\ PulseSounds(s)
  <2> DEFINE t == [s EXCEPT !.pulse.countdown = s.pulse.period, !.pulse.duty = (@ - 1) % DutySteps]
             u == [t EXCEPT !.pulse.out = PulseOutput(t)]
  <2>1. SameSweep(s, t) /\ t.tri = s.tri /\ t.noise = s.noise /\ t.base = s.base
    BY DEF Shaped, SameSweep
  <2> HIDE DEF t
  <2>2. /\ SameSweep(t, u) /\ u.sweep = t.sweep /\ u.tri = t.tri /\ u.noise = t.noise
        /\ u.base = t.base /\ u.pulse.duty = t.pulse.duty /\ u.pulse.control = t.pulse.control
        /\ u.pulse.decay = t.pulse.decay /\ u.pulse.length = t.pulse.length
        /\ u.pulse.out = PulseOutput(t)
    BY <2>1 DEF Shaped, SameSweep
  <2> HIDE DEF u
  <2>3. PulseOutput(u) = PulseOutput(t)
    BY <2>2 DEF PulseOutput, Level
  <2>4. TriangleOutput(u) = TriangleOutput(s) /\ NoiseOutput(u) = NoiseOutput(s)
    BY <2>1, <2>2 DEF TriangleOutput, NoiseOutput, Level
  <2>5. OutputsFresh(u) /\ SameSweep(s, u)
    BY <2>1, <2>2, <2>3, <2>4 DEF OutputsFresh, SameSweep
  <2> QED
    BY <1>2, <2>5 DEF PulseTick, t, u
<1>3. CASE ~(ticks <= s.pulse.countdown) /\ ~PulseSounds(s)
  <2> DEFINE k == Skipped(s.pulse, ticks)
             t == [s EXCEPT !.pulse.countdown = k.countdown,
                            !.pulse.duty = (@ - k.wraps) % DutySteps]
  <2> HIDE DEF k
  <2>1. /\ SameSweep(s, t) /\ t.sweep = s.sweep /\ t.tri = s.tri /\ t.noise = s.noise
        /\ t.base = s.base /\ t.pulse.out = s.pulse.out /\ t.pulse.length = s.pulse.length
    BY DEF Shaped, SameSweep
  <2> HIDE DEF t
  <2>2. PulseOutput(t) = 0 /\ PulseOutput(s) = 0
    BY <1>3, <2>1 DEF PulseSounds, PulseOutput
  <2>3. TriangleOutput(t) = TriangleOutput(s) /\ NoiseOutput(t) = NoiseOutput(s)
    BY <2>1 DEF TriangleOutput, NoiseOutput, Level
  <2>4. OutputsFresh(t)
    BY <2>1, <2>2, <2>3 DEF OutputsFresh
  <2> QED
    BY <1>3, <2>1, <2>4 DEF PulseTick, t, k
<1> QED
  BY <1>1, <1>2, <1>3

\* The triangle caches its level with every step of its sequencer.
LEMMA TriangleTickFresh ==
  ASSUME NEW s, NEW n, Shaped(s), OutputsFresh(s)
  PROVE  SameSweep(s, TriangleTick(s, n)) /\ OutputsFresh(TriangleTick(s, n))
<1>1. ASSUME NEW c
      PROVE  /\ SameSweep(s, [s EXCEPT !.tri.countdown = c])
             /\ OutputsFresh([s EXCEPT !.tri.countdown = c])
  <2> DEFINE t == [s EXCEPT !.tri.countdown = c]
  <2>1. /\ SameSweep(s, t) /\ t.sweep = s.sweep /\ t.pulse = s.pulse /\ t.noise = s.noise
        /\ t.base = s.base /\ t.tri.period = s.tri.period /\ t.tri.seq = s.tri.seq
        /\ t.tri.out = s.tri.out
    BY DEF Shaped, SameSweep
  <2> HIDE DEF t
  <2>2. OutputsFresh(t)
    BY <2>1, OutputsStay
  <2> QED
    BY <2>1, <2>2 DEF t
<1>2. CASE ~(n <= s.tri.countdown) /\ TriangleSounds(s)
  <2> DEFINE t == [s EXCEPT !.tri.countdown = s.tri.period, !.tri.seq = (@ + 1) % TriangleSteps]
             u == [t EXCEPT !.tri.out = TriangleOutput(t)]
  <2>1. SameSweep(s, t) /\ t.pulse = s.pulse /\ t.noise = s.noise /\ t.base = s.base
    BY DEF Shaped, SameSweep
  <2> HIDE DEF t
  <2>2. /\ SameSweep(t, u) /\ u.sweep = t.sweep /\ u.pulse = t.pulse /\ u.noise = t.noise
        /\ u.base = t.base /\ u.tri.period = t.tri.period /\ u.tri.seq = t.tri.seq
        /\ u.tri.out = TriangleOutput(t)
    BY <2>1 DEF Shaped, SameSweep
  <2> HIDE DEF u
  <2>3. TriangleOutput(u) = TriangleOutput(t)
    BY <2>2 DEF TriangleOutput
  <2>4. PulseOutput(u) = PulseOutput(s) /\ NoiseOutput(u) = NoiseOutput(s)
    BY <2>1, <2>2 DEF PulseOutput, NoiseOutput, Level, SameSweep
  <2>5. OutputsFresh(u) /\ SameSweep(s, u)
    BY <2>1, <2>2, <2>3, <2>4 DEF OutputsFresh, SameSweep
  <2> QED
    BY <1>2, <2>5 DEF TriangleTick, t, u
<1> QED
  BY <1>1, <1>2 DEF TriangleTick

\* The shift register of a silent noise channel runs on in silence.
LEMMA NoiseTickFresh ==
  ASSUME NEW s, NEW ticks, Shaped(s), OutputsFresh(s)
  PROVE  SameSweep(s, NoiseTick(s, ticks)) /\ OutputsFresh(NoiseTick(s, ticks))
<1>1. CASE ticks < s.noise.countdown
  <2> DEFINE t == [s EXCEPT !.noise.countdown = @ - ticks]
  <2>1. /\ SameSweep(s, t) /\ t.sweep = s.sweep /\ t.pulse = s.pulse /\ t.tri = s.tri
        /\ t.base = s.base /\ t.noise.length = s.noise.length /\ t.noise.lfsr = s.noise.lfsr
        /\ t.noise.control = s.noise.control /\ t.noise.decay = s.noise.decay
        /\ t.noise.out = s.noise.out
    BY DEF Shaped, SameSweep
  <2> HIDE DEF t
  <2>2. /\ NoiseOutput(t) = NoiseOutput(s) /\ PulseOutput(t) = PulseOutput(s)
        /\ TriangleOutput(t) = TriangleOutput(s)
    BY <2>1 DEF PulseOutput, TriangleOutput, NoiseOutput, Level
  <2>3. OutputsFresh(t)
    BY <2>1, <2>2 DEF OutputsFresh
  <2> QED
    BY <1>1, <2>1, <2>3 DEF NoiseTick, t
<1>2. CASE ~(ticks < s.noise.countdown)
  <2> DEFINE tap == IF s.noise.mode THEN 2 ELSE 1
             feedback == (s.noise.lfsr + (s.noise.lfsr \div (2 ^ tap))) % 2
             shifted == (s.noise.lfsr \div 2) + (feedback * (2 ^ (NoiseBits - 1)))
             t == [s EXCEPT !.noise.countdown = s.noise.period, !.noise.lfsr = shifted]
             u == [t EXCEPT !.noise.out = NoiseOutput(t), !.base = NoiseOutput(t)]
  <2>1. NoiseTick(s, ticks) = IF s.noise.length = 0 THEN t ELSE u
    BY <1>2 DEF NoiseTick
  <2> HIDE DEF shifted
  <2>2. /\ SameSweep(s, t) /\ t.pulse = s.pulse /\ t.tri = s.tri /\ t.base = s.base
        /\ t.noise.length = s.noise.length /\ t.noise.out = s.noise.out
    BY DEF Shaped, SameSweep
  <2> HIDE DEF t
  <2>3. /\ SameSweep(t, u) /\ u.sweep = t.sweep /\ u.pulse = t.pulse /\ u.tri = t.tri
        /\ u.noise.length = t.noise.length /\ u.noise.lfsr = t.noise.lfsr
        /\ u.noise.control = t.noise.control /\ u.noise.decay = t.noise.decay
        /\ u.noise.out = NoiseOutput(t) /\ u.base = NoiseOutput(t)
    BY <2>2 DEF Shaped, SameSweep
  <2> HIDE DEF u
  <2>4. /\ PulseOutput(t) = PulseOutput(s) /\ TriangleOutput(t) = TriangleOutput(s)
        /\ PulseOutput(u) = PulseOutput(s) /\ TriangleOutput(u) = TriangleOutput(s)
        /\ NoiseOutput(u) = NoiseOutput(t)
    BY <2>2, <2>3 DEF PulseOutput, TriangleOutput, NoiseOutput, Level, SameSweep
  <2>5. s.noise.length = 0 => NoiseOutput(t) = 0 /\ NoiseOutput(s) = 0
    BY <2>2 DEF NoiseOutput
  <2>6. SameSweep(s, u) /\ OutputsFresh(u)
    BY <2>2, <2>3, <2>4 DEF OutputsFresh, SameSweep
  <2>7. s.noise.length = 0 => OutputsFresh(t)
    BY <2>2, <2>4, <2>5 DEF OutputsFresh
  <2> HIDE DEF t, u
  <2> QED
    BY <2>1, <2>2, <2>6, <2>7
<1> QED
  BY <1>1, <1>2

(***************************************************************************)
(* The inductive invariant of the channels.  Only the first step after     *)
(* ApuInit uses a mix that nobody has computed.                            *)
(***************************************************************************)
ToneOK(s) == Fresh(s) /\ OutputsFresh(s) /\ (s.count > 0 => s.mix = Mixed(s))
ToneInv == ToneOK(tone)

\* The sample accumulator takes the mix and leaves the channels.
LEMMA SampledOK ==
  ASSUME NEW s, NEW before, NEW n, Shaped(s)
  PROVE  /\ Shaped(Sampled(s, before, n)) /\ Sampled(s, before, n).sweep = s.sweep
         /\ Sampled(s, before, n).pulse = s.pulse /\ Sampled(s, before, n).tri = s.tri
         /\ Sampled(s, before, n).noise = s.noise /\ Sampled(s, before, n).base = s.base
         /\ Sampled(s, before, n).mix = s.mix
<1> DEFINE sum == s.sum + before * (n - 1) + s.mix
           count == s.count + n
           clock == s.clock + SampleRate * n
           left == clock - ClockRate
           mean == sum \div count
           t == [s EXCEPT !.sum = 0, !.count = 0, !.clock = left, !.pushed = mean]
           u == [s EXCEPT !.sum = sum, !.count = count, !.clock = clock]
<1>1. Sampled(s, before, n) = IF clock >= ClockRate THEN t ELSE u
  BY DEF Sampled
<1> HIDE DEF sum, count, left, mean, clock
<1>2. /\ Shaped(t) /\ t.sweep = s.sweep /\ t.pulse = s.pulse /\ t.tri = s.tri
      /\ t.noise = s.noise /\ t.base = s.base /\ t.mix = s.mix
  BY DEF Shaped
<1>3. /\ Shaped(u) /\ u.sweep = s.sweep /\ u.pulse = s.pulse /\ u.tri = s.tri
      /\ u.noise = s.noise /\ u.base = s.base /\ u.mix = s.mix
  BY DEF Shaped
<1> HIDE DEF t, u
<1> QED
  BY <1>1, <1>2, <1>3

\* States with the same channels and the same mix are as good.
LEMMA ToneStays ==
  ASSUME NEW s, NEW t, Fresh(s), OutputsFresh(s), s.mix = Mixed(s),
         /\ Shaped(t) /\ t.sweep = s.sweep /\ t.pulse = s.pulse /\ t.tri = s.tri
         /\ t.noise = s.noise /\ t.base = s.base /\ t.mix = s.mix
  PROVE  ToneOK(t) /\ t.mix = Mixed(t)
<1>1. Fresh(t)
  BY SweepStays DEF Fresh, SameSweep
<1>2. OutputsFresh(t)
  BY DEF OutputsFresh, PulseOutput, TriangleOutput, NoiseOutput, Level
<1>3. t.mix = Mixed(t)
  BY DEF Mixed
<1> QED
  BY <1>1, <1>2, <1>3 DEF ToneOK

\* A step of any length keeps the caches, in whatever state the timers are.
LEMMA ServeOK ==
  ASSUME ToneConstants, NEW s, ToneOK(s), NEW n, NEW quarter, NEW half
  PROVE  ToneOK([Serve(s, n) EXCEPT !.quarter = quarter, !.half = half])
<1> DEFINE ticks == (n + s.phase) \div 2
           flushed == Updated(Flushed(s))
           due == IF Pending(s) THEN flushed ELSE s
           pulsed == PulseTick(due, ticks)
           ticked == IF ticks = 0 THEN due ELSE NoiseTick(pulsed, ticks)
           played == TriangleTick(ticked, n)
           mixed == [played EXCEPT !.mix = Mixed(played)]
           phase == (s.phase + n) % 2
           sampled == Sampled(mixed, due.mix, n)
           served == [sampled EXCEPT !.phase = phase]
           t == [served EXCEPT !.quarter = quarter, !.half = half]
<1>1. Serve(s, n) = served
  BY DEF Serve
<1>2. Fresh(flushed) /\ OutputsFresh(flushed)
  BY FlushedOK, UpdatedFresh, SweepStays DEF ToneOK, Fresh, RegsOK
<1> HIDE DEF flushed, ticks, phase
<1>3. Fresh(due) /\ OutputsFresh(due)
  BY <1>2 DEF ToneOK
<1> HIDE DEF due
<1>4. Fresh(pulsed) /\ OutputsFresh(pulsed)
  BY <1>3, PulseTickFresh, SweepStays DEF Fresh, RegsOK
<1> HIDE DEF pulsed
<1>5. Fresh(NoiseTick(pulsed, ticks)) /\ OutputsFresh(NoiseTick(pulsed, ticks))
  BY <1>4, NoiseTickFresh, SweepStays DEF Fresh, RegsOK
<1>6. Fresh(ticked) /\ OutputsFresh(ticked)
  BY <1>3, <1>5
<1> HIDE DEF ticked
<1>7. Fresh(played) /\ OutputsFresh(played)
  BY <1>6, TriangleTickFresh, SweepStays DEF Fresh, RegsOK
<1> HIDE DEF played
<1>8. /\ Shaped(mixed) /\ mixed.sweep = played.sweep /\ mixed.pulse = played.pulse
      /\ mixed.tri = played.tri /\ mixed.noise = played.noise /\ mixed.base = played.base
      /\ mixed.mix = Mixed(played)
  BY <1>7 DEF Fresh, RegsOK, Shaped
<1> HIDE DEF mixed
<1>9. Fresh(mixed) /\ OutputsFresh(mixed) /\ mixed.mix = Mixed(mixed)
  <2>1. Fresh(mixed)
    BY <1>7, <1>8, SweepStays DEF Fresh, SameSweep
  <2>2. OutputsFresh(mixed)
    BY <1>7, <1>8 DEF OutputsFresh, PulseOutput, TriangleOutput, NoiseOutput, Level
  <2> QED
    BY <1>8, <2>1, <2>2 DEF Mixed
<1>10. /\ Shaped(sampled) /\ sampled.sweep = mixed.sweep /\ sampled.pulse = mixed.pulse
       /\ sampled.tri = mixed.tri /\ sampled.noise = mixed.noise /\ sampled.base = mixed.base
       /\ sampled.mix = mixed.mix
  BY <1>8, SampledOK
<1> HIDE DEF sampled
<1>11. /\ Shaped(t) /\ t.sweep = sampled.sweep /\ t.pulse = sampled.pulse /\ t.tri = sampled.tri
       /\ t.noise = sampled.noise /\ t.base = sampled.base /\ t.mix = sampled.mix
  BY <1>10 DEF Shaped
<1> HIDE DEF t
<1>12. ToneOK(t)
  BY <1>9, <1>10, <1>11, ToneStays
<1> QED
  BY <1>1, <1>12 DEF t, served

\* A register write ends in ApuUpdateOutput.
LEMMA WriteOK == ASSUME NEW s, Fresh(s), Write(s) PROVE ToneInv'
<1>1. Fresh(Updated(s)) /\ OutputsFresh(Updated(s)) /\ Updated(s).mix = Mixed(Updated(s))
  BY UpdatedFresh, SweepStays DEF Fresh, RegsOK
<1>2. ToneOK(Updated(s))
  BY <1>1 DEF ToneOK
<1> QED
  BY <1>2 DEF Write, ToneInv

\* ApuInit leaves a sweep that is fresh while nothing sounds.
LEMMA PowerUpFresh == ASSUME ToneConstants PROVE Fresh(PowerUp)
<1>1. Shaped(PowerUp)
  BY DEF PowerUp, Shaped
<1>2. /\ PowerUp.pulse.period = 0 /\ PowerUp.pulse.length = 0 /\ PowerUp.sweep.shift = 0
      /\ PowerUp.sweep.target = 0 /\ PowerUp.sweep.mute = FALSE
  BY DEF PowerUp
<1>3. SweepOK(PowerUp)
  <2>1. PowerUp.sweep.mute \in BOOLEAN
    BY <1>2, Zenon
  <2>2. /\ PowerUp.pulse.period \in 0..MaxPeriod /\ PowerUp.pulse.length \in Nat
        /\ PowerUp.sweep.shift \in 0..7 /\ PowerUp.sweep.target \in Nat
        /\ PowerUp.sweep.target <= MaxPeriod
    BY <1>2 DEF ToneConstants
  <2> QED
    BY <2>1, <2>2, Zenon DEF SweepOK
<1> QED
  BY <1>1, <1>2, <1>3 DEF Fresh, RegsOK, TargetFresh

\* The channels as ApuInit leaves them, and as a program starts them.
LEMMA ToneInitInv == ASSUME ToneConstants, ToneInit PROVE ToneInv
<1>2. Fresh(PowerUp)
  BY PowerUpFresh
<1>3. OutputsFresh(PowerUp)
  BY DEF PowerUp, OutputsFresh, PulseOutput, TriangleOutput, NoiseOutput
<1>4. ToneOK(PowerUp)
  <2>1. PowerUp.count = 0
    BY DEF PowerUp
  <2> QED
    BY <1>2, <1>3, <2>1 DEF ToneOK
<1>5. ASSUME NEW p \in Periods, NEW load \in LengthLoads, NEW c \in Controls, NEW tri \in Linears
      PROVE  ToneOK(Updated(Started(PowerUp, p, load, c, tri)))
  <2> DEFINE a == Status(PowerUp, AllOn)
             b == PulseR3(PulseR0(a, c), p, load)
             d == TriangleR3(TriangleR0(b, tri), p, load)
             e == NoiseR3(NoiseR0(d, c), load)
  <2>1. Fresh(a)
    BY <1>2, StatusFresh
  <2> HIDE DEF a
  <2>2. Fresh(b)
    BY <2>1, R0Fresh, PulseR3Fresh
  <2> HIDE DEF b
  <2>3. Fresh(d)
    BY <2>2, R0Fresh, R3Fresh
  <2> HIDE DEF d
  <2>4. Fresh(e)
    BY <2>3, R0Fresh, R3Fresh
  <2> HIDE DEF e
  <2>5. ToneOK(Updated(e))
    BY <2>4, UpdatedFresh, SweepStays DEF Fresh, RegsOK, ToneOK
  <2> QED
    BY <2>5 DEF Started, a, b, d, e
<1> QED
  BY <1>4, <1>5 DEF ToneInit, ToneInv

\* Every write of a register.
LEMMA ToneWriteInv == ASSUME ToneConstants, ToneInv, ToneWrite PROVE ToneInv'
<1> USE DEF ToneInv, ToneOK
<1>1. ASSUME NEW on \in Switches, Write(Status(tone, on)) PROVE ToneInv'
  BY <1>1, StatusFresh, WriteOK
<1>2. ASSUME NEW c, Write(PulseR0(tone, c)) \/ Write(NoiseR0(tone, c)) \/ Write(TriangleR0(tone, c))
      PROVE  ToneInv'
  BY <1>2, R0Fresh, WriteOK
<1>3. ASSUME NEW v \in Sweeps, Write(PulseR1(tone, v)) PROVE ToneInv'
  BY <1>3, SweepWriteFresh, WriteOK
<1>4. ASSUME NEW p \in Periods, Write(PulseR2(tone, p)) \/ Write(TriangleR2(tone, p))
      PROVE  ToneInv'
  BY <1>4, SweepWriteFresh, PeriodFresh, WriteOK
<1>5. ASSUME NEW p \in NoisePeriods, NEW mode \in BOOLEAN, Write(NoiseR2(tone, p, mode))
      PROVE  ToneInv'
  BY <1>5, PeriodFresh, WriteOK
<1>6. ASSUME NEW p \in Periods, NEW load \in LengthLoads,
             Write(PulseR3(tone, p, load)) \/ Write(TriangleR3(tone, p, load))
      PROVE  ToneInv'
  BY <1>6, PulseR3Fresh, R3Fresh, WriteOK
<1>7. ASSUME NEW load \in LengthLoads, Write(NoiseR3(tone, load)) PROVE ToneInv'
  BY <1>7, R3Fresh, WriteOK
<1> QED
  BY <1>1, <1>2, <1>3, <1>4, <1>5, <1>6, <1>7 DEF ToneWrite

\* The caches of the channels, for every table of periods, every shift register and
\* sequencer, and any order of writes, clocks and steps.
THEOREM ToneInvariant == ToneSpec => []ToneInv
<1>1. ToneInit => ToneInv
  BY ToneConstants, ToneInitInv
<1>2. ToneInv /\ [ToneNext]_toneVars => ToneInv'
  <2>1. ASSUME ToneInv, NEW n, ToneTicks(n) PROVE ToneInv'
    BY <2>1 DEF ToneTicks, ToneInv
  <2>2. ASSUME ToneInv, NEW n, ToneStep(n) PROVE ToneInv'
    <3>1. PICK quarter \in BOOLEAN, half \in BOOLEAN :
            tone' = [Serve(tone, n) EXCEPT !.quarter = quarter, !.half = half]
      BY <2>2, Zenon DEF ToneStep
    <3>2. ToneOK([Serve(tone, n) EXCEPT !.quarter = quarter, !.half = half])
      BY <2>2, ToneConstants, ServeOK DEF ToneInv
    <3> QED
      BY <3>1, <3>2, Zenon DEF ToneInv
  <2>3. ASSUME ToneInv, ToneWrite PROVE ToneInv'
    BY <2>3, ToneConstants, ToneWriteInv
  <2>4. ASSUME ToneInv, UNCHANGED toneVars PROVE ToneInv'
    BY <2>4 DEF toneVars, ToneInv
  <2> QED
    BY <2>1, <2>2, <2>3, <2>4 DEF ToneNext
<1> QED
  BY <1>1, <1>2, PTL DEF ToneSpec

\* The whole is an implementation of the channels alone: no output touches them.
THEOREM SoundImplementsTone == SoundSpec => ToneSpec
<1>1. SoundInit => ToneInit
  BY DEF SoundInit
<1>2. [SoundNext \/ LimiterNext]_soundVars => [ToneNext]_toneVars
  <2>1. ASSUME NEW n \in StepLengths, SoundStep(n) PROVE ToneNext
    BY <2>1 DEF SoundStep, ToneNext
  <2>2. ASSUME Emulate PROVE ToneNext
    BY <2>2 DEF Emulate, ToneNext
  <2>3. ASSUME Push \/ Play \/ Die \/ LimiterNext \/ UNCHANGED soundVars PROVE UNCHANGED toneVars
    BY <2>3 DEF Push, Play, Die, LimiterNext, Limit, soundVars
  <2> QED
    BY <2>1, <2>2, <2>3 DEF SoundNext
<1> QED
  BY <1>1, <1>2, PTL DEF SoundSpec, ToneSpec

\* The outputs, the mix and the sweep's target that the channels cache are what their
\* registers and counters give, after any write, clock or sweep (apu.c 75-178, 475-504,
\* 814-826); on the muting that is cached, the skipping of wraps depends.
THEOREM CachesTheorem == SoundSpec => []CachesAreFresh
<1>1. ToneInv => CachesAreFresh
  <2> SUFFICES ASSUME ToneInv PROVE CachesAreFresh
    OBVIOUS
  <2>1. OutputsAreFresh
    BY DEF ToneInv, ToneOK, OutputsFresh, OutputsAreFresh, Mixed
  <2>2. tone.pulse.period <= MaxPeriod
    BY DEF ToneInv, ToneOK, Fresh, RegsOK, SweepOK, ToneConstants
  <2>3. ASSUME tone.pulse.length > 0 PROVE tone.sweep.mute = SweepMutes(tone, SweepTarget(tone))
    <3>1. tone.sweep.mute <=> SweepMutes(tone, SweepTarget(tone))
      BY <2>3 DEF ToneInv, ToneOK, Fresh, TargetFresh
    <3>2. tone.sweep.mute \in BOOLEAN
      BY DEF ToneInv, ToneOK, Fresh, RegsOK, SweepOK
    <3>3. SweepMutes(tone, SweepTarget(tone)) \in BOOLEAN
      BY Zenon DEF SweepMutes
    <3>4. ASSUME NEW a \in BOOLEAN, NEW b \in BOOLEAN, a <=> b PROVE a = b
      BY <3>4
    <3> QED
      BY <3>1, <3>2, <3>3, <3>4, Zenon
  <2>4. tone.pulse.length > 0 => tone.sweep.target = SweepTarget(tone)
    BY DEF ToneInv, ToneOK, Fresh, TargetFresh
  <2> QED
    BY <2>1, <2>2, <2>3, <2>4 DEF CachesAreFresh, SweepIsFresh
<1> QED
  BY <1>1, ToneInvariant, SoundImplementsTone, PTL

-----------------------------------------------------------------------------
(***************************************************************************)
(* Steps.  k + 1 cycles at once are k cycles and one more, as long as no   *)
(* event comes before the last of them.                                    *)
(***************************************************************************)

\* Quotient and remainder of a division by a number that is not fixed.
LEMMA QuotientIs ==
  ASSUME NEW a \in Int, NEW m \in Nat \ {0}, NEW q \in Int, q * m <= a, a < q * m + m
  PROVE  a % m = a - q * m /\ a \div m = q
OBVIOUS

LEMMA QuotientOf ==
  ASSUME NEW a \in Int, NEW m \in Nat \ {0}
  PROVE  /\ a \div m \in Int /\ a % m \in Nat /\ a % m < m
         /\ a = (a \div m) * m + (a % m)
OBVIOUS

\* One more in a count of wraps.
LEMMA OneMoreOver ==
  ASSUME NEW over \in Nat, NEW period \in Nat
  PROVE  LET m == period + 1
         IN  /\ over % m \in 0..period /\ over \div m \in Int
             /\ over % m < period => (over + 1) % m = (over % m) + 1 /\ (over + 1) \div m = over \div m
             /\ over % m = period => (over + 1) % m = 0 /\ (over + 1) \div m = (over \div m) + 1
<1> DEFINE m == period + 1
           q == over \div m
           r == over % m
           qm == q * m
<1>1. m \in Nat \ {0} /\ m = period + 1 /\ over \in Int /\ over + 1 \in Int
  OBVIOUS
<1> HIDE DEF m
<1>2. q \in Int /\ r \in Nat /\ r < m /\ over = q * m + r
  BY <1>1, QuotientOf, Zenon
<1> HIDE DEF q, r
<1>3. (q + 1) * m = q * m + m /\ qm \in Int
  BY <1>1, <1>2
<1>4. over = qm + r /\ (q + 1) * m = qm + m
  BY <1>2, <1>3
<1>5. ASSUME r < period PROVE (over + 1) % m = r + 1 /\ (over + 1) \div m = q
  <2>1. q * m <= over + 1 /\ over + 1 < q * m + m
    <3>1. qm <= over + 1 /\ over + 1 < qm + m
      <4> HIDE DEF qm
      <4> QED BY <1>1, <1>2, <1>3, <1>4, <1>5
    <3> QED BY <3>1
  <2>2. (over + 1) % m = (over + 1) - q * m /\ (over + 1) \div m = q
    BY <1>1, <1>2, <2>1, QuotientIs, Zenon
  <2>3. (over + 1) - qm = r + 1
    <3> HIDE DEF qm
    <3> QED BY <1>2, <1>3, <1>4
  <2> QED BY <2>2, <2>3
<1>6. ASSUME r = period PROVE (over + 1) % m = 0 /\ (over + 1) \div m = q + 1
  <2>0. q + 1 \in Int
    BY <1>2
  <2>1. over + 1 = qm + m
    <3> HIDE DEF qm
    <3> QED BY <1>1, <1>2, <1>3, <1>4, <1>6
  <2>2. over + 1 = (q + 1) * m
    BY <1>4, <2>1
  <2>3. (q + 1) * m <= over + 1 /\ over + 1 < (q + 1) * m + m
    <3> DEFINE z == (q + 1) * m
    <3>1. z \in Int /\ over + 1 = z
      BY <1>2, <2>2
    <3> HIDE DEF z
    <3>2. z <= over + 1 /\ over + 1 < z + m
      BY <1>1, <3>1
    <3> QED BY <3>2 DEF z
  <2>4. (over + 1) % m = (over + 1) - (q + 1) * m /\ (over + 1) \div m = q + 1
    BY <1>1, <1>2, <2>3, <2>0, QuotientIs, Zenon
  <2>5. (over + 1) - (q + 1) * m = 0
    <3> DEFINE z == (q + 1) * m
    <3> HIDE DEF z
    <3>1. over + 1 = z
      BY <2>2 DEF z
    <3>2. (over + 1) - z = 0
      BY <3>1
    <3> QED BY <3>2 DEF z
  <2> QED BY <2>4, <2>5
<1>7. r \in 0..period
  BY <1>1, <1>2
<1> QED
  BY <1>2, <1>5, <1>6, <1>7 DEF q, r, m

\* One more on a circle.
LEMMA OneMoreBack ==
  ASSUME NEW x \in Int, NEW d \in Nat \ {0}
  PROVE  ((x % d) - 1) % d = (x - 1) % d
<1> DEFINE q == x \div d
           r == x % d
           qd == q * d
<1>1. q \in Int /\ r \in Nat /\ r < d /\ x = q * d + r
  BY QuotientOf, Zenon
<1>0. q - 1 \in Int /\ r - 1 \in Int /\ x - 1 \in Int /\ -1 \in Int /\ 0 \in Int
  BY <1>1
<1> HIDE DEF q, r
<1>2. qd \in Int /\ x = qd + r /\ (q - 1) * d = qd - d /\ 0 * d = 0 /\ (-1) * d = -d
  BY <1>1
<1>3. CASE r >= 1
  <2>1. qd <= x - 1 /\ x - 1 < qd + d
    <3> HIDE DEF qd
    <3> QED BY <1>1, <1>2, <1>3
  <2>2. (x - 1) % d = (x - 1) - q * d
    BY <1>0, <1>1, <2>1, QuotientIs, Zenon
  <2>3. (r - 1) % d = r - 1
    <3>1. 0 * d <= r - 1 /\ r - 1 < 0 * d + d
      BY <1>1, <1>2, <1>3
    <3>2. (r - 1) % d = (r - 1) - 0 * d
      BY <1>0, <3>1, QuotientIs, Zenon
    <3> QED BY <1>1, <1>2, <3>2
  <2>4. (x - 1) - qd = r - 1
    <3> HIDE DEF qd
    <3> QED BY <1>1, <1>2
  <2> QED BY <2>2, <2>3, <2>4 DEF r
<1>4. CASE r = 0
  <2>1. qd - d <= x - 1 /\ x - 1 < (qd - d) + d
    <3> HIDE DEF qd
    <3> QED BY <1>1, <1>2, <1>4
  <2>2. (q - 1) * d <= x - 1 /\ x - 1 < (q - 1) * d + d
    BY <1>2, <2>1
  <2>3. (x - 1) % d = (x - 1) - (q - 1) * d
    BY <1>0, <2>2, QuotientIs, Zenon
  <2>4. (x - 1) - (qd - d) = d - 1
    <3> HIDE DEF qd
    <3> QED BY <1>1, <1>2, <1>4
  <2>5. (-1) % d = d - 1
    <3>1. (-1) * d <= -1 /\ -1 < (-1) * d + d
      BY <1>2
    <3>2. (-1) % d = (-1) - (-1) * d
      BY <3>1, QuotientIs
    <3> QED BY <1>2, <3>2
  <2>6. (x - 1) % d = d - 1
    BY <1>2, <2>3, <2>4
  <2> QED BY <1>1, <1>4, <2>5, <2>6 DEF r
<1> QED
  BY <1>1, <1>3, <1>4

-----------------------------------------------------------------------------
(***************************************************************************)
(* What a timer does is a function of its channel alone.                   *)
(***************************************************************************)
PulseFields == {"countdown", "period", "duty", "length", "out", "control", "start", "divider", "decay"}
PulseRan(ch, mute, ticks) ==
  LET next == [ch EXCEPT !.countdown = ch.period, !.duty = (@ - 1) % DutySteps]
      level == IF next.duty \in DutyHigh THEN Level(next) ELSE 0
      k == Skipped(ch, ticks)
  IN  IF ticks <= ch.countdown THEN [ch EXCEPT !.countdown = @ - ticks]
      ELSE IF ~mute /\ ch.length > 0 THEN [next EXCEPT !.out = level]
      ELSE [ch EXCEPT !.countdown = k.countdown, !.duty = (@ - k.wraps) % DutySteps]

TriangleRan(ch, cycles) ==
  LET next == [ch EXCEPT !.countdown = ch.period, !.seq = (@ + 1) % TriangleSteps]
      level == IF next.period < 2 THEN TriangleSteps \div 2 ELSE next.seq
  IN  IF cycles <= ch.countdown THEN [ch EXCEPT !.countdown = @ - cycles]
      ELSE IF ch.length > 0 /\ ch.linear > 0 THEN [next EXCEPT !.out = level]
      ELSE [ch EXCEPT !.countdown = Skipped(ch, cycles).countdown]

\* Which fields a step of each timer changes.
LEMMA PulseTickIs ==
  ASSUME NEW s, NEW ticks, Shaped(s)
  PROVE  LET t == PulseTick(s, ticks)
         IN  /\ DOMAIN t = DOMAIN s /\ t.pulse = PulseRan(s.pulse, s.sweep.mute, ticks)
             /\ \A f \in DOMAIN s \ {"pulse"} : t[f] = s[f]
<1>1. CASE ticks <= s.pulse.countdown
  BY <1>1 DEF Shaped, PulseTick, PulseRan
<1>2. CASE ~(ticks <= s.pulse.countdown) /\ PulseSounds(s)
  <2> DEFINE t == [s EXCEPT !.pulse.countdown = s.pulse.period, !.pulse.duty = (@ - 1) % DutySteps]
             next == [s.pulse EXCEPT !.countdown = s.pulse.period, !.duty = (@ - 1) % DutySteps]
             level == IF next.duty \in DutyHigh THEN Level(next) ELSE 0
             u == [t EXCEPT !.pulse.out = PulseOutput(t)]
  <2>1. /\ DOMAIN t = DOMAIN s /\ t.pulse = next /\ t.sweep = s.sweep
        /\ \A f \in DOMAIN s \ {"pulse"} : t[f] = s[f]
    BY DEF Shaped
  <2>2. next.length = s.pulse.length
    BY DEF Shaped
  <2> HIDE DEF next, t
  <2>3. PulseOutput(t) = level
    BY <1>2, <2>1, <2>2 DEF PulseSounds, PulseOutput
  <2> HIDE DEF level
  <2>4. /\ DOMAIN u = DOMAIN s /\ u.pulse = [next EXCEPT !.out = level]
        /\ \A f \in DOMAIN s \ {"pulse"} : u[f] = s[f]
    BY <2>1, <2>3 DEF Shaped
  <2>5. PulseTick(s, ticks) = u
    BY <1>2 DEF PulseTick, t
  <2>6. PulseRan(s.pulse, s.sweep.mute, ticks) = [next EXCEPT !.out = level]
    BY <1>2, Zenon DEF PulseRan, PulseSounds, next, level
  <2> HIDE DEF u
  <2> QED BY <2>4, <2>5, <2>6
<1>3. CASE ~(ticks <= s.pulse.countdown) /\ ~PulseSounds(s)
  <2> DEFINE k == Skipped(s.pulse, ticks)
             t == [s EXCEPT !.pulse.countdown = k.countdown,
                            !.pulse.duty = (@ - k.wraps) % DutySteps]
             ran == [s.pulse EXCEPT !.countdown = k.countdown, !.duty = (@ - k.wraps) % DutySteps]
  <2>1. PulseTick(s, ticks) = t
    BY <1>3 DEF PulseTick
  <2>2. PulseRan(s.pulse, s.sweep.mute, ticks) = ran
    BY <1>3, Zenon DEF PulseRan, PulseSounds
  <2> HIDE DEF k
  <2>3. DOMAIN t = DOMAIN s /\ t.pulse = ran /\ \A f \in DOMAIN s \ {"pulse"} : t[f] = s[f]
    BY DEF Shaped
  <2> HIDE DEF t, ran
  <2> QED BY <2>1, <2>2, <2>3
<1> QED
  BY <1>1, <1>2, <1>3

\* Of the triangle.
LEMMA TriangleTickIs ==
  ASSUME NEW s, NEW n, Shaped(s)
  PROVE  LET t == TriangleTick(s, n)
         IN  /\ DOMAIN t = DOMAIN s /\ t.tri = TriangleRan(s.tri, n)
             /\ \A f \in DOMAIN s \ {"tri"} : t[f] = s[f]
<1>1. CASE n <= s.tri.countdown
  BY <1>1 DEF Shaped, TriangleTick, TriangleRan
<1>2. CASE ~(n <= s.tri.countdown) /\ TriangleSounds(s)
  <2> DEFINE t == [s EXCEPT !.tri.countdown = s.tri.period, !.tri.seq = (@ + 1) % TriangleSteps]
             next == [s.tri EXCEPT !.countdown = s.tri.period, !.seq = (@ + 1) % TriangleSteps]
             level == IF next.period < 2 THEN TriangleSteps \div 2 ELSE next.seq
             u == [t EXCEPT !.tri.out = TriangleOutput(t)]
  <2>1. /\ DOMAIN t = DOMAIN s /\ t.tri = next
        /\ \A f \in DOMAIN s \ {"tri"} : t[f] = s[f]
    BY DEF Shaped
  <2> HIDE DEF next, t
  <2>3. TriangleOutput(t) = level
    BY <2>1 DEF TriangleOutput
  <2> HIDE DEF level
  <2>4. /\ DOMAIN u = DOMAIN s /\ u.tri = [next EXCEPT !.out = level]
        /\ \A f \in DOMAIN s \ {"tri"} : u[f] = s[f]
    BY <2>1, <2>3 DEF Shaped
  <2>5. TriangleTick(s, n) = u
    BY <1>2 DEF TriangleTick, t
  <2>6. TriangleRan(s.tri, n) = [next EXCEPT !.out = level]
    BY <1>2, Zenon DEF TriangleRan, TriangleSounds, next, level
  <2> HIDE DEF u
  <2> QED BY <2>4, <2>5, <2>6
<1>3. CASE ~(n <= s.tri.countdown) /\ ~TriangleSounds(s)
  <2> DEFINE k == Skipped(s.tri, n)
             t == [s EXCEPT !.tri.countdown = k.countdown]
             ran == [s.tri EXCEPT !.countdown = k.countdown]
  <2>1. TriangleTick(s, n) = t
    BY <1>3 DEF TriangleTick
  <2>2. TriangleRan(s.tri, n) = ran
    BY <1>3, Zenon DEF TriangleRan, TriangleSounds
  <2> HIDE DEF k
  <2>3. DOMAIN t = DOMAIN s /\ t.tri = ran /\ \A f \in DOMAIN s \ {"tri"} : t[f] = s[f]
    BY DEF Shaped
  <2> HIDE DEF t, ran
  <2> QED BY <2>1, <2>2, <2>3
<1> QED
  BY <1>1, <1>2, <1>3

Shifted(ch) ==
  LET tap == IF ch.mode THEN 2 ELSE 1
      feedback == (ch.lfsr + (ch.lfsr \div (2 ^ tap))) % 2
  IN  (ch.lfsr \div 2) + (feedback * (2 ^ (NoiseBits - 1)))
NoiseRan(ch, ticks) ==
  LET next == [ch EXCEPT !.countdown = ch.period, !.lfsr = Shifted(ch)]
      level == IF next.length > 0 /\ next.lfsr % 2 = 0 THEN Level(next) ELSE 0
  IN  IF ticks < ch.countdown THEN [ch EXCEPT !.countdown = @ - ticks]
      ELSE IF ch.length = 0 THEN next
      ELSE [next EXCEPT !.out = level]
BaseRan(ch, base, ticks) ==
  IF ticks < ch.countdown \/ ch.length = 0 THEN base ELSE NoiseRan(ch, ticks).out

\* Of the noise, and of the base of the mixer.
LEMMA NoiseTickIs ==
  ASSUME NEW s, NEW ticks, Shaped(s)
  PROVE  LET t == NoiseTick(s, ticks)
         IN  /\ DOMAIN t = DOMAIN s /\ t.noise = NoiseRan(s.noise, ticks)
             /\ t.base = BaseRan(s.noise, s.base, ticks)
             /\ \A f \in DOMAIN s \ {"noise", "base"} : t[f] = s[f]
<1>1. CASE ticks < s.noise.countdown
  BY <1>1 DEF Shaped, NoiseTick, NoiseRan, BaseRan
<1>2. CASE ~(ticks < s.noise.countdown)
  <2> DEFINE shifted == Shifted(s.noise)
             next == [s.noise EXCEPT !.countdown = s.noise.period, !.lfsr = shifted]
             level == IF next.length > 0 /\ next.lfsr % 2 = 0 THEN Level(next) ELSE 0
             t == [s EXCEPT !.noise.countdown = s.noise.period, !.noise.lfsr = shifted]
             u == [t EXCEPT !.noise.out = NoiseOutput(t), !.base = NoiseOutput(t)]
  <2>1. NoiseTick(s, ticks) = IF s.noise.length = 0 THEN t ELSE u
    BY <1>2 DEF NoiseTick, Shifted
  <2>2. NoiseRan(s.noise, ticks) = IF s.noise.length = 0 THEN next ELSE [next EXCEPT !.out = level]
    BY <1>2, Zenon DEF NoiseRan
  <2> HIDE DEF shifted
  <2>3. /\ DOMAIN t = DOMAIN s /\ t.noise = next /\ DOMAIN next = DOMAIN s.noise
        /\ \A f \in DOMAIN s \ {"noise"} : t[f] = s[f]
    BY DEF Shaped
  <2> HIDE DEF t, next
  <2>4. NoiseOutput(t) = level
    BY <2>3 DEF NoiseOutput
  <2> HIDE DEF level
  <2>5. /\ DOMAIN u = DOMAIN s /\ u.noise = [next EXCEPT !.out = level] /\ u.base = level
        /\ \A f \in DOMAIN s \ {"noise", "base"} : u[f] = s[f]
    BY <2>3, <2>4 DEF Shaped
  <2>6. [next EXCEPT !.out = level].out = level
    BY <2>3 DEF Shaped
  <2>7. t.base = s.base
    BY <2>3 DEF Shaped
  <2> HIDE DEF u
  <2>8. CASE s.noise.length = 0
    BY <1>2, <2>1, <2>2, <2>3, <2>7, <2>8 DEF BaseRan
  <2>9. CASE s.noise.length # 0
    BY <1>2, <2>1, <2>2, <2>5, <2>6, <2>9 DEF BaseRan
  <2> QED BY <2>8, <2>9
<1> QED
  BY <1>1, <1>2

(***************************************************************************)
(* One tick more of each timer.  A channel that sounds has not wrapped     *)
(* before; one that is silent may have wrapped any number of times.        *)
(***************************************************************************)
PulseCounts(ch) == ch.countdown \in Nat /\ ch.duty \in Int

\* Wraps skipped by division: one more tick counts down, or wraps once more.
LEMMA SkippedOneMore ==
  ASSUME NEW t, t.countdown \in Nat, t.period \in Nat, NEW a \in Nat, a > t.countdown,
         NEW u, u.countdown = Skipped(t, a).countdown, u.period = t.period
  PROVE  /\ Skipped(t, a).countdown \in Nat /\ Skipped(t, a).wraps \in Int
         /\ 1 <= u.countdown => Skipped(t, a + 1).countdown = u.countdown - 1
                                /\ Skipped(t, a + 1).wraps = Skipped(t, a).wraps
         /\ ~(1 <= u.countdown) => Skipped(t, a + 1).countdown = Skipped(u, 1).countdown
                                   /\ Skipped(u, 1).wraps = 1
                                   /\ Skipped(t, a + 1).wraps = Skipped(t, a).wraps + 1
<1> DEFINE over == a - t.countdown - 1
           p == t.period
           m == p + 1
<1>1. over \in Nat /\ p \in Nat /\ m \in Nat \ {0}
  OBVIOUS
<1>2. (a + 1) - t.countdown - 1 = over + 1
  OBVIOUS
<1> DEFINE r == over % m
           q == over \div m
           r1 == (over + 1) % m
           q1 == (over + 1) \div m
<1>3. /\ r \in 0..p /\ q \in Int
      /\ r < p => r1 = r + 1 /\ q1 = q
      /\ r = p => r1 = 0 /\ q1 = q + 1
  <2> HIDE DEF over, p
  <2> QED BY <1>1, OneMoreOver
<1>4. /\ Skipped(t, a).countdown = p - r /\ Skipped(t, a).wraps = q + 1
      /\ Skipped(t, a + 1).countdown = p - r1 /\ Skipped(t, a + 1).wraps = q1 + 1
  BY <1>2 DEF Skipped
<1>5. 0 % m = 0 /\ 0 \div m = 0
  <2>1. 0 * m <= 0 /\ 0 < 0 * m + m /\ 0 * m = 0 /\ 0 \in Int
    BY <1>1
  <2> HIDE DEF m
  <2>2. 0 % m = 0 - 0 * m /\ 0 \div m = 0
    BY <1>1, <2>1, QuotientIs, Zenon
  <2> QED BY <2>1, <2>2
<1>6. u.countdown = 0 => Skipped(u, 1).countdown = p - (0 % m) /\ Skipped(u, 1).wraps = (0 \div m) + 1
  BY DEF Skipped
<1> HIDE DEF over, r, q, r1, q1, m
<1>7. u.countdown = p - r
  BY <1>4
<1>8. u.countdown = 0 => Skipped(u, 1).countdown = p /\ Skipped(u, 1).wraps = 1
  BY <1>1, <1>5, <1>6
<1> HIDE DEF p
<1> QED
  BY <1>1, <1>3, <1>4, <1>7, <1>8

\* The pulse: up to its wrap when it sounds, over any number of wraps when it is silent.
LEMMA PulseOneMore ==
  ASSUME DutySteps \in Nat \ {0}, NEW ch, DOMAIN ch = PulseFields, PulseCounts(ch), ch.period \in Nat,
         NEW mute, NEW a \in Nat \ {0}, ~mute /\ ch.length > 0 => a <= ch.countdown
  PROVE  PulseRan(PulseRan(ch, mute, a), mute, 1) = PulseRan(ch, mute, a + 1)
<1> DEFINE b == PulseRan(ch, mute, a)
<1> SUFFICES PulseRan(b, mute, 1) = PulseRan(ch, mute, a + 1)
  OBVIOUS
<1>0. b = PulseRan(ch, mute, a)
  OBVIOUS
<1> HIDE DEF b
<1>1. CASE a <= ch.countdown
  <2> DEFINE left == ch.countdown - a
  <2>1. b = [ch EXCEPT !.countdown = left]
    BY <1>0, <1>1, Zenon DEF PulseRan
  <2>2. left \in Nat /\ (a + 1 <= ch.countdown <=> 1 <= left) /\ left - 1 = ch.countdown - (a + 1)
    BY <1>1 DEF PulseCounts
  <2>3. /\ DOMAIN b = PulseFields /\ b.countdown = left /\ b.period = ch.period /\ b.duty = ch.duty
        /\ b.length = ch.length /\ b.control = ch.control /\ b.decay = ch.decay
    BY <2>1 DEF PulseFields
  <2>4. CASE 1 <= left
    <3>1. PulseRan(b, mute, 1) = [b EXCEPT !.countdown = left - 1]
      BY <2>3, <2>4 DEF PulseRan
    <3>2. PulseRan(ch, mute, a + 1) = [ch EXCEPT !.countdown = left - 1]
      BY <2>2, <2>4 DEF PulseRan
    <3> HIDE DEF left
    <3>3. [[ch EXCEPT !.countdown = left] EXCEPT !.countdown = left - 1]
            = [ch EXCEPT !.countdown = left - 1]
      BY DEF PulseFields
    <3> QED BY <2>1, <3>1, <3>2, <3>3
  <2>5. CASE ~(1 <= left) /\ ~mute /\ ch.length > 0
    <3> DEFINE duty == (ch.duty - 1) % DutySteps
               next(c) == [c EXCEPT !.countdown = ch.period, !.duty = duty]
               level(n) == IF n.duty \in DutyHigh THEN Level(n) ELSE 0
    <3>1. PulseRan(b, mute, 1) = [next(b) EXCEPT !.out = level(next(b))]
      <4>1. ~(1 <= b.countdown) /\ ~mute /\ b.length > 0
        BY <2>3, <2>5
      <4>2. next(b) = [b EXCEPT !.countdown = b.period, !.duty = (@ - 1) % DutySteps]
        BY <2>3
      <4> HIDE DEF next
      <4> QED BY <4>1, <4>2, Zenon DEF PulseRan
    <3>2. PulseRan(ch, mute, a + 1) = [next(ch) EXCEPT !.out = level(next(ch))]
      BY <2>2, <2>5 DEF PulseRan
    <3> HIDE DEF left, duty
    <3>3. next([ch EXCEPT !.countdown = left]) = next(ch)
      BY DEF PulseFields
    <3>4. next(b) = next(ch)
      BY <2>1, <3>3
    <3> HIDE DEF next, level
    <3> QED BY <3>1, <3>2, <3>4
  <2>6. CASE ~(1 <= left) /\ ~(~mute /\ ch.length > 0)
    <3> DEFINE k == Skipped(b, 1)
               k1 == Skipped(ch, a + 1)
    <3>1. PulseRan(b, mute, 1)
            = [b EXCEPT !.countdown = k.countdown, !.duty = (b.duty - k.wraps) % DutySteps]
      BY <2>3, <2>6 DEF PulseRan
    <3>2. PulseRan(ch, mute, a + 1) =
            [ch EXCEPT !.countdown = k1.countdown, !.duty = (ch.duty - k1.wraps) % DutySteps]
      BY <2>2, <2>6 DEF PulseRan
    <3>3. left = 0
      BY <2>2, <2>6
    <3>4. k1 = k
      <4>1. 1 - b.countdown - 1 = (a + 1) - ch.countdown - 1
        BY <2>2, <2>3, <3>3 DEF PulseCounts
      <4> QED BY <2>3, <4>1, Zenon DEF Skipped
    <3> HIDE DEF k, k1, left
    <3>5. [[ch EXCEPT !.countdown = left] EXCEPT !.countdown = k.countdown,
                                                 !.duty = (ch.duty - k.wraps) % DutySteps]
            = [ch EXCEPT !.countdown = k.countdown, !.duty = (ch.duty - k.wraps) % DutySteps]
      BY DEF PulseFields
    <3> QED BY <2>1, <2>3, <3>1, <3>2, <3>4, <3>5
  <2> QED BY <2>4, <2>5, <2>6
<1>2. CASE ~(a <= ch.countdown)
  <2> DEFINE k == Skipped(ch, a)
             k1 == Skipped(ch, a + 1)
             at == k.countdown
             duty == (ch.duty - k.wraps) % DutySteps
  <2>0. ~(~mute /\ ch.length > 0) /\ a > ch.countdown /\ a + 1 > ch.countdown
    BY <1>2 DEF PulseCounts
  <2>1. b = [ch EXCEPT !.countdown = at, !.duty = duty]
    BY <1>0, <2>0, <1>2, Zenon DEF PulseRan
  <2>2. PulseRan(ch, mute, a + 1) =
          [ch EXCEPT !.countdown = k1.countdown, !.duty = (ch.duty - k1.wraps) % DutySteps]
    BY <2>0 DEF PulseRan, PulseCounts
  <2>3. /\ DOMAIN b = PulseFields /\ b.countdown = at /\ b.period = ch.period /\ b.duty = duty
        /\ b.length = ch.length
    <3> HIDE DEF at, duty
    <3> QED BY <2>1 DEF PulseFields
  <2>4. /\ at \in Nat /\ k.wraps \in Int
        /\ 1 <= at => k1.countdown = at - 1 /\ k1.wraps = k.wraps
        /\ ~(1 <= at) => k1.countdown = Skipped(b, 1).countdown /\ Skipped(b, 1).wraps = 1
                         /\ k1.wraps = k.wraps + 1
    <3>1. a \in Nat
      OBVIOUS
    <3> QED BY <2>0, <2>3, <3>1, SkippedOneMore DEF PulseCounts
  <2>5. CASE 1 <= at
    <3>1. PulseRan(b, mute, 1) = [b EXCEPT !.countdown = at - 1]
      <4> HIDE DEF at, duty
      <4> QED BY <2>3, <2>5 DEF PulseRan
    <3>2. PulseRan(ch, mute, a + 1) = [ch EXCEPT !.countdown = at - 1, !.duty = duty]
      BY <2>2, <2>4, <2>5
    <3> HIDE DEF at, duty
    <3>3. [[ch EXCEPT !.countdown = at, !.duty = duty] EXCEPT !.countdown = at - 1]
            = [ch EXCEPT !.countdown = at - 1, !.duty = duty]
      BY DEF PulseFields
    <3> QED BY <2>1, <3>1, <3>2, <3>3
  <2>6. CASE ~(1 <= at)
    <3> DEFINE c1 == Skipped(b, 1).countdown
               d1 == (duty - 1) % DutySteps
    <3>1. PulseRan(b, mute, 1) = [b EXCEPT !.countdown = c1, !.duty = d1]
      <4> HIDE DEF at, duty
      <4> QED BY <2>0, <2>3, <2>4, <2>6 DEF PulseRan
    <3>2. d1 = (ch.duty - k1.wraps) % DutySteps
      <4>1. ch.duty - k.wraps \in Int /\ (ch.duty - k.wraps) - 1 = ch.duty - (k.wraps + 1)
        BY <2>4 DEF PulseCounts
      <4>2. (((ch.duty - k.wraps) % DutySteps) - 1) % DutySteps = ((ch.duty - k.wraps) - 1) % DutySteps
        BY <4>1, OneMoreBack, Zenon
      <4> QED BY <2>4, <2>6, <4>1, <4>2
    <3>3. PulseRan(ch, mute, a + 1) = [ch EXCEPT !.countdown = c1, !.duty = d1]
      BY <2>2, <2>4, <2>6, <3>2
    <3> HIDE DEF at, duty, c1, d1
    <3>4. [[ch EXCEPT !.countdown = at, !.duty = duty] EXCEPT !.countdown = c1, !.duty = d1]
            = [ch EXCEPT !.countdown = c1, !.duty = d1]
      BY DEF PulseFields
    <3> QED BY <2>1, <3>1, <3>3, <3>4
  <2> QED BY <2>5, <2>6
<1> QED
  BY <1>1, <1>2

TriangleFields == {"countdown", "period", "seq", "length", "out", "control", "linear", "reload"}
TriangleCounts(ch) == ch.countdown \in Nat /\ ch.period \in Nat /\ ch.seq \in Nat

\* The triangle likewise.
LEMMA TriangleOneMore ==
  ASSUME NEW ch, DOMAIN ch = TriangleFields, TriangleCounts(ch), NEW a \in Nat \ {0},
         ch.length > 0 /\ ch.linear > 0 => a <= ch.countdown
  PROVE  TriangleRan(TriangleRan(ch, a), 1) = TriangleRan(ch, a + 1)
<1> DEFINE b == TriangleRan(ch, a)
<1> SUFFICES TriangleRan(b, 1) = TriangleRan(ch, a + 1)
  OBVIOUS
<1>0. b = TriangleRan(ch, a)
  OBVIOUS
<1> HIDE DEF b
<1>1. CASE a <= ch.countdown
  <2> DEFINE left == ch.countdown - a
  <2>1. b = [ch EXCEPT !.countdown = left]
    BY <1>0, <1>1, Zenon DEF TriangleRan
  <2>2. left \in Nat /\ (a + 1 <= ch.countdown <=> 1 <= left) /\ left - 1 = ch.countdown - (a + 1)
    BY <1>1 DEF TriangleCounts
  <2>3. /\ DOMAIN b = TriangleFields /\ b.countdown = left /\ b.period = ch.period /\ b.seq = ch.seq
        /\ b.length = ch.length /\ b.linear = ch.linear
    BY <2>1 DEF TriangleFields
  <2>4. CASE 1 <= left
    <3>1. TriangleRan(b, 1) = [b EXCEPT !.countdown = left - 1]
      BY <2>3, <2>4 DEF TriangleRan
    <3>2. TriangleRan(ch, a + 1) = [ch EXCEPT !.countdown = left - 1]
      BY <2>2, <2>4 DEF TriangleRan
    <3> HIDE DEF left
    <3>3. [[ch EXCEPT !.countdown = left] EXCEPT !.countdown = left - 1]
            = [ch EXCEPT !.countdown = left - 1]
      BY DEF TriangleFields
    <3> QED BY <2>1, <3>1, <3>2, <3>3
  <2>5. CASE ~(1 <= left) /\ ch.length > 0 /\ ch.linear > 0
    <3> DEFINE seq == (ch.seq + 1) % TriangleSteps
               next(c) == [c EXCEPT !.countdown = ch.period, !.seq = seq]
               level(n) == IF n.period < 2 THEN TriangleSteps \div 2 ELSE n.seq
    <3>1. TriangleRan(b, 1) = [next(b) EXCEPT !.out = level(next(b))]
      <4>1. ~(1 <= b.countdown) /\ b.length > 0 /\ b.linear > 0
        BY <2>3, <2>5
      <4>2. next(b) = [b EXCEPT !.countdown = b.period, !.seq = (@ + 1) % TriangleSteps]
        BY <2>3
      <4> HIDE DEF next
      <4> QED BY <4>1, <4>2, Zenon DEF TriangleRan
    <3>2. TriangleRan(ch, a + 1) = [next(ch) EXCEPT !.out = level(next(ch))]
      BY <2>2, <2>5 DEF TriangleRan
    <3> HIDE DEF left, seq
    <3>3. next([ch EXCEPT !.countdown = left]) = next(ch)
      BY DEF TriangleFields
    <3>4. next(b) = next(ch)
      BY <2>1, <3>3
    <3> HIDE DEF next, level
    <3> QED BY <3>1, <3>2, <3>4
  <2>6. CASE ~(1 <= left) /\ ~(ch.length > 0 /\ ch.linear > 0)
    <3> DEFINE k == Skipped(b, 1)
               k1 == Skipped(ch, a + 1)
    <3>1. TriangleRan(b, 1) = [b EXCEPT !.countdown = k.countdown]
      BY <2>3, <2>6 DEF TriangleRan
    <3>2. TriangleRan(ch, a + 1) = [ch EXCEPT !.countdown = k1.countdown]
      BY <2>2, <2>6 DEF TriangleRan
    <3>3. left = 0
      BY <2>2, <2>6
    <3>4. k1 = k
      <4>1. 1 - b.countdown - 1 = (a + 1) - ch.countdown - 1
        BY <2>2, <2>3, <3>3 DEF TriangleCounts
      <4> QED BY <2>3, <4>1, Zenon DEF Skipped
    <3> HIDE DEF k, k1, left
    <3>5. [[ch EXCEPT !.countdown = left] EXCEPT !.countdown = k.countdown]
            = [ch EXCEPT !.countdown = k.countdown]
      BY DEF TriangleFields
    <3> QED BY <2>1, <3>1, <3>2, <3>4, <3>5
  <2> QED BY <2>4, <2>5, <2>6
<1>2. CASE ~(a <= ch.countdown)
  <2> DEFINE k == Skipped(ch, a)
             k1 == Skipped(ch, a + 1)
             at == k.countdown
  <2>0. ~(ch.length > 0 /\ ch.linear > 0) /\ a > ch.countdown /\ a + 1 > ch.countdown
    BY <1>2 DEF TriangleCounts
  <2>1. b = [ch EXCEPT !.countdown = at]
    BY <1>0, <2>0, <1>2, Zenon DEF TriangleRan
  <2>2. TriangleRan(ch, a + 1) = [ch EXCEPT !.countdown = k1.countdown]
    BY <2>0 DEF TriangleRan, TriangleCounts
  <2>3. /\ DOMAIN b = TriangleFields /\ b.countdown = at /\ b.period = ch.period
        /\ b.length = ch.length /\ b.linear = ch.linear
    <3> HIDE DEF at
    <3> QED BY <2>1 DEF TriangleFields
  <2>4. /\ 1 <= at => k1.countdown = at - 1
        /\ ~(1 <= at) => k1.countdown = Skipped(b, 1).countdown
    <3>1. a \in Nat
      OBVIOUS
    <3> QED BY <2>0, <2>3, <3>1, SkippedOneMore DEF TriangleCounts
  <2>5. CASE 1 <= at
    <3>1. TriangleRan(b, 1) = [b EXCEPT !.countdown = at - 1]
      <4> HIDE DEF at
      <4> QED BY <2>3, <2>5 DEF TriangleRan
    <3>2. TriangleRan(ch, a + 1) = [ch EXCEPT !.countdown = at - 1]
      BY <2>2, <2>4, <2>5
    <3> HIDE DEF at
    <3>3. [[ch EXCEPT !.countdown = at] EXCEPT !.countdown = at - 1] = [ch EXCEPT !.countdown = at - 1]
      BY DEF TriangleFields
    <3> QED BY <2>1, <3>1, <3>2, <3>3
  <2>6. CASE ~(1 <= at)
    <3> DEFINE c1 == Skipped(b, 1).countdown
    <3>1. TriangleRan(b, 1) = [b EXCEPT !.countdown = c1]
      <4> HIDE DEF at
      <4> QED BY <2>0, <2>3, <2>6 DEF TriangleRan
    <3>2. TriangleRan(ch, a + 1) = [ch EXCEPT !.countdown = c1]
      BY <2>2, <2>4, <2>6
    <3> HIDE DEF at, c1
    <3>3. [[ch EXCEPT !.countdown = at] EXCEPT !.countdown = c1] = [ch EXCEPT !.countdown = c1]
      BY DEF TriangleFields
    <3> QED BY <2>1, <3>1, <3>2, <3>3
  <2> QED BY <2>5, <2>6
<1> QED
  BY <1>1, <1>2

NoiseFields == {"countdown", "period", "lfsr", "mode", "length", "out", "control", "start",
                "divider", "decay"}

\* The noise channel is always stepped to its next wrap, heard or not.
LEMMA NoiseOneMore ==
  ASSUME NEW ch, DOMAIN ch = NoiseFields, ch.countdown \in Nat \ {0}, NEW base,
         NEW a \in Nat \ {0}, a < ch.countdown
  PROVE  /\ NoiseRan(NoiseRan(ch, a), 1) = NoiseRan(ch, a + 1)
         /\ BaseRan(NoiseRan(ch, a), BaseRan(ch, base, a), 1) = BaseRan(ch, base, a + 1)
<1> DEFINE b == NoiseRan(ch, a)
           left == ch.countdown - a
<1> SUFFICES /\ NoiseRan(b, 1) = NoiseRan(ch, a + 1)
             /\ BaseRan(b, BaseRan(ch, base, a), 1) = BaseRan(ch, base, a + 1)
  OBVIOUS
<1>1. b = [ch EXCEPT !.countdown = left]
  BY Zenon DEF NoiseRan
<1> HIDE DEF b
<1>2. BaseRan(ch, base, a) = base
  BY Zenon DEF BaseRan
<1>3. left \in Nat /\ (a + 1 < ch.countdown <=> 1 < left) /\ left - 1 = ch.countdown - (a + 1)
  OBVIOUS
<1>4. /\ b.countdown = left /\ b.period = ch.period /\ b.lfsr = ch.lfsr /\ b.mode = ch.mode
      /\ b.length = ch.length
  BY <1>1 DEF NoiseFields
<1>5. CASE 1 < left
  <2>1. NoiseRan(b, 1) = [b EXCEPT !.countdown = left - 1] /\ BaseRan(b, base, 1) = base
    BY <1>4, <1>5 DEF NoiseRan, BaseRan
  <2>2. NoiseRan(ch, a + 1) = [ch EXCEPT !.countdown = left - 1] /\ BaseRan(ch, base, a + 1) = base
    BY <1>3, <1>5 DEF NoiseRan, BaseRan
  <2> HIDE DEF left
  <2>3. [[ch EXCEPT !.countdown = left] EXCEPT !.countdown = left - 1]
          = [ch EXCEPT !.countdown = left - 1]
    BY DEF NoiseFields
  <2> QED BY <1>1, <1>2, <2>1, <2>2, <2>3
<1>6. CASE ~(1 < left)
  <2> DEFINE lfsr == Shifted(ch)
             next(c) == [c EXCEPT !.countdown = ch.period, !.lfsr = lfsr]
             level(n) == IF n.length > 0 /\ n.lfsr % 2 = 0 THEN Level(n) ELSE 0
             after(n) == IF ch.length = 0 THEN n ELSE [n EXCEPT !.out = level(n)]
  <2>1. NoiseRan(b, 1) = after(next(b))
    <3>1. ~(1 < b.countdown)
      BY <1>4, <1>6
    <3>2. next(b) = [b EXCEPT !.countdown = b.period, !.lfsr = Shifted(b)]
      <4>1. Shifted(b) = lfsr
        BY <1>4, Zenon DEF Shifted
      <4> HIDE DEF lfsr
      <4> QED BY <1>4, <4>1
    <3> HIDE DEF next
    <3> QED BY <1>4, <3>1, <3>2, Zenon DEF NoiseRan
  <2>2. NoiseRan(ch, a + 1) = after(next(ch))
    BY <1>3, <1>6, Zenon DEF NoiseRan
  <2> HIDE DEF left, lfsr
  <2>3. next([ch EXCEPT !.countdown = left]) = next(ch)
    BY DEF NoiseFields
  <2>4. next(b) = next(ch)
    BY <1>1, <2>3
  <2> HIDE DEF next, after
  <2>5. NoiseRan(b, 1) = NoiseRan(ch, a + 1)
    BY <2>1, <2>2, <2>4
  <2>6. ~(1 < b.countdown) /\ ~(a + 1 < ch.countdown)
    BY <1>3, <1>4, <1>6
  <2>7. BaseRan(b, base, 1) = BaseRan(ch, base, a + 1)
    BY <1>4, <2>5, <2>6, Zenon DEF BaseRan
  <2> QED BY <1>2, <2>5, <2>7
<1> QED
  BY <1>5, <1>6

(***************************************************************************)
(* A step of n cycles without pending clocks, field by field.              *)
(***************************************************************************)
TicksIn(s, n) == (n + s.phase) \div 2
PulseAfter(s, n) ==
  IF TicksIn(s, n) = 0 THEN s.pulse ELSE PulseRan(s.pulse, s.sweep.mute, TicksIn(s, n))
NoiseAfter(s, n) == IF TicksIn(s, n) = 0 THEN s.noise ELSE NoiseRan(s.noise, TicksIn(s, n))
BaseAfter(s, n) == IF TicksIn(s, n) = 0 THEN s.base ELSE BaseRan(s.noise, s.base, TicksIn(s, n))
MixAfter(s, n) == PulseAfter(s, n).out + TriangleRan(s.tri, n).out + BaseAfter(s, n)
SumAfter(s, n) == s.sum + s.mix * (n - 1) + MixAfter(s, n)
ClockAfter(s, n) == s.clock + SampleRate * n

\* The sample that is due takes the sum and the count; otherwise they grow.
SampleAfter(s, n, t) ==
  /\ ClockAfter(s, n) >= ClockRate =>
       /\ t.sum = 0 /\ t.count = 0 /\ t.clock = ClockAfter(s, n) - ClockRate
       /\ t.pushed = SumAfter(s, n) \div (s.count + n)
  /\ ~(ClockAfter(s, n) >= ClockRate) =>
       /\ t.sum = SumAfter(s, n) /\ t.count = s.count + n /\ t.clock = ClockAfter(s, n)
       /\ t.pushed = s.pushed

\* A function: those that agree on each of their fields are the same.
IsRecord(t) == t = [f \in DOMAIN t |-> t[f]]

LEMMA UpdateIsRecord == \A s, v : IsRecord([s EXCEPT !.phase = v])
BY Zenon DEF IsRecord

\* Serve, field by field.
LEMMA ServeIs ==
  ASSUME NEW s, NEW n, Shaped(s), ~Pending(s)
  PROVE  LET t == Serve(s, n)
         IN  /\ IsRecord(t) /\ DOMAIN t = DOMAIN s
             /\ t.on = s.on /\ t.sweep = s.sweep /\ t.quarter = s.quarter /\ t.half = s.half
             /\ t.phase = (s.phase + n) % 2
             /\ t.pulse = PulseAfter(s, n) /\ t.tri = TriangleRan(s.tri, n)
             /\ t.noise = NoiseAfter(s, n) /\ t.base = BaseAfter(s, n) /\ t.mix = MixAfter(s, n)
             /\ SampleAfter(s, n, t)
<1> DEFINE ticks == TicksIn(s, n)
           pulsed == PulseTick(s, ticks)
           noised == NoiseTick(pulsed, ticks)
           ticked == IF ticks = 0 THEN s ELSE noised
           played == TriangleTick(ticked, n)
           mixed == [played EXCEPT !.mix = Mixed(played)]
           sampled == Sampled(mixed, s.mix, n)
           phase == (s.phase + n) % 2
           t == [sampled EXCEPT !.phase = phase]
<1>1. Serve(s, n) = t
  BY Zenon DEF Serve, TicksIn
<1> HIDE DEF ticks, phase
<1>2. /\ DOMAIN pulsed = DOMAIN s /\ pulsed.pulse = PulseRan(s.pulse, s.sweep.mute, ticks)
      /\ \A f \in DOMAIN s \ {"pulse"} : pulsed[f] = s[f]
  BY PulseTickIs
<1> HIDE DEF pulsed
<1>3. /\ Shaped(pulsed) /\ pulsed.noise = s.noise /\ pulsed.base = s.base
  <2>1. DOMAIN pulsed.pulse = DOMAIN s.pulse
    BY <1>2 DEF PulseRan
  <2>2. /\ pulsed.noise = s.noise /\ pulsed.base = s.base /\ pulsed.sweep = s.sweep
        /\ pulsed.tri = s.tri
    BY <1>2 DEF Shaped
  <2> QED BY <1>2, <2>1, <2>2 DEF Shaped
<1>4. /\ DOMAIN noised = DOMAIN s /\ noised.noise = NoiseRan(s.noise, ticks)
      /\ noised.base = BaseRan(s.noise, s.base, ticks)
      /\ \A f \in DOMAIN s \ {"noise", "base"} : noised[f] = pulsed[f]
  BY <1>2, <1>3, NoiseTickIs
<1> HIDE DEF noised
<1>5. /\ DOMAIN ticked = DOMAIN s /\ ticked.pulse = PulseAfter(s, n)
      /\ ticked.noise = NoiseAfter(s, n) /\ ticked.base = BaseAfter(s, n)
      /\ \A f \in DOMAIN s \ {"pulse", "noise", "base"} : ticked[f] = s[f]
  <2>1. CASE ticks = 0
    BY <2>1 DEF PulseAfter, NoiseAfter, BaseAfter, ticks
  <2>2. CASE ticks # 0
    BY <1>2, <1>4, <2>2 DEF PulseAfter, NoiseAfter, BaseAfter, ticks, Shaped
  <2> QED BY <2>1, <2>2
<1> HIDE DEF ticked
<1>6. Shaped(ticked) /\ ticked.tri = s.tri
  <2>1. DOMAIN ticked.pulse = DOMAIN s.pulse
    BY <1>5 DEF PulseAfter, PulseRan
  <2>2. DOMAIN ticked.noise = DOMAIN s.noise
    BY <1>5 DEF NoiseAfter, NoiseRan
  <2>3. ticked.sweep = s.sweep /\ ticked.tri = s.tri
    BY <1>5 DEF Shaped
  <2> QED BY <1>5, <2>1, <2>2, <2>3 DEF Shaped
<1>7. /\ DOMAIN played = DOMAIN s /\ played.tri = TriangleRan(s.tri, n)
      /\ \A f \in DOMAIN s \ {"tri"} : played[f] = ticked[f]
  BY <1>5, <1>6, TriangleTickIs
<1> HIDE DEF played
<1>8. /\ played.pulse = PulseAfter(s, n) /\ played.noise = NoiseAfter(s, n)
      /\ played.base = BaseAfter(s, n)
      /\ \A f \in DOMAIN s \ {"pulse", "noise", "base", "tri"} : played[f] = s[f]
  BY <1>5, <1>7 DEF Shaped
<1>9. Mixed(played) = MixAfter(s, n)
  BY <1>7, <1>8, Zenon DEF Mixed, MixAfter
<1>10. /\ DOMAIN mixed = DOMAIN s /\ mixed.mix = MixAfter(s, n)
       /\ mixed.pulse = PulseAfter(s, n) /\ mixed.noise = NoiseAfter(s, n)
       /\ mixed.base = BaseAfter(s, n) /\ mixed.tri = TriangleRan(s.tri, n)
       /\ mixed.on = s.on /\ mixed.sweep = s.sweep /\ mixed.quarter = s.quarter
       /\ mixed.half = s.half /\ mixed.sum = s.sum /\ mixed.count = s.count
       /\ mixed.clock = s.clock /\ mixed.pushed = s.pushed
  BY <1>7, <1>8, <1>9 DEF Shaped
<1> HIDE DEF mixed
<1> DEFINE sum == SumAfter(s, n)
           count == s.count + n
           clock == ClockAfter(s, n)
           left == clock - ClockRate
           mean == sum \div count
<1>11. sampled = IF clock >= ClockRate
                   THEN [mixed EXCEPT !.sum = 0, !.count = 0, !.clock = left, !.pushed = mean]
                   ELSE [mixed EXCEPT !.sum = sum, !.count = count, !.clock = clock]
  BY <1>10, Zenon DEF Sampled, SumAfter, ClockAfter
<1> HIDE DEF sampled, sum, count, clock, left, mean
<1>12. /\ DOMAIN t = DOMAIN s /\ t.phase = phase
       /\ clock >= ClockRate => t.sum = 0 /\ t.count = 0 /\ t.clock = left /\ t.pushed = mean
       /\ ~(clock >= ClockRate) => t.sum = sum /\ t.count = count /\ t.clock = clock
                                   /\ t.pushed = s.pushed
  BY <1>10, <1>11 DEF Shaped
<1>13. /\ t.mix = mixed.mix /\ t.pulse = mixed.pulse /\ t.noise = mixed.noise
       /\ t.base = mixed.base /\ t.tri = mixed.tri
       /\ t.on = mixed.on /\ t.sweep = mixed.sweep /\ t.quarter = mixed.quarter
       /\ t.half = mixed.half
  BY <1>10, <1>11 DEF Shaped
<1>14. IsRecord(t)
  BY UpdateIsRecord, Zenon
<1> HIDE DEF t
<1>15. SampleAfter(s, n, t)
  BY <1>12, Zenon DEF SampleAfter, sum, count, clock, left, mean
<1> QED
  BY <1>1, <1>10, <1>12, <1>13, <1>14, <1>15, Zenon DEF phase

(***************************************************************************)
(* What a step counts with.                                                *)
(***************************************************************************)
Counts(s) ==
  /\ s.phase \in {0, 1} /\ s.mix \in Int /\ s.sum \in Int /\ s.count \in Nat /\ s.clock \in Nat
  /\ PulseCounts(s.pulse) /\ s.pulse.decay \in Nat /\ s.pulse.control.volume \in Nat
  /\ TriangleCounts(s.tri)
  /\ s.noise.countdown \in Nat \ {0} /\ s.noise.period \in Nat \ {0}
  /\ s.noise.decay \in Nat /\ s.noise.control.volume \in Nat

\* No event comes within n cycles but at the last of them (ApuCyclesToChannelEvent).
NoEventBefore(s, n) ==
  /\ PulseSounds(s) => n <= 2 * (s.pulse.countdown + 1) - s.phase
  /\ TriangleSounds(s) => n <= s.tri.countdown + 1
  /\ n <= 2 * s.noise.countdown - s.phase
  /\ n <= (ClockRate - s.clock + SampleRate - 1) \div SampleRate

\* The ticks of k cycles and of one more, by the phase of the APU against the CPU.
LEMMA Quotients ==
  ASSUME NEW ph \in {0, 1}, NEW k \in Nat
  PROVE  /\ (k + ph) \div 2 \in Nat
         /\ (1 + ((ph + k) % 2)) \div 2 \in {0, 1}
         /\ (k + ph) \div 2 + (1 + ((ph + k) % 2)) \div 2 = (k + 1 + ph) \div 2
         /\ (((ph + k) % 2) + 1) % 2 = (ph + (k + 1)) % 2
         /\ \A c \in Int : /\ k + 1 <= 2 * (c + 1) - ph => (k + ph) \div 2 <= c
                           /\ k + 1 <= 2 * c - ph => (k + ph) \div 2 < c
OBVIOUS

\* The sample clock does not reach the clock rate before the last cycle.
LEMMA NoSampleBefore ==
  ASSUME ToneConstants, NEW clock \in Nat, NEW k \in Nat,
         k + 1 <= (ClockRate - clock + SampleRate - 1) \div SampleRate
  PROVE  ~(clock + SampleRate * k >= ClockRate) /\ clock + SampleRate * k \in Nat
<1> DEFINE x == ClockRate - clock + SampleRate - 1
           q == x \div SampleRate
           qr == q * SampleRate
           kr == k * SampleRate
<1>1. SampleRate \in Nat \ {0} /\ ClockRate \in Nat /\ x \in Int
  BY DEF ToneConstants
<1>2. q \in Int /\ x % SampleRate \in Nat /\ x = q * SampleRate + (x % SampleRate)
  <2> HIDE DEF x
  <2> QED BY <1>1, QuotientOf, Zenon
<1>3. k + 1 <= q
  OBVIOUS
<1> HIDE DEF q
<1>4. (k + 1) * SampleRate <= q * SampleRate /\ (k + 1) * SampleRate = k * SampleRate + SampleRate
  BY <1>1, <1>2, <1>3
<1>5. qr \in Int /\ kr \in Nat /\ SampleRate * k = kr
  BY <1>1, <1>2
<1>6. qr <= x
  <2> DEFINE r == x % SampleRate
  <2>1. r \in Nat /\ x = qr + r
    BY <1>2
  <2> HIDE DEF r, qr, x
  <2> QED BY <1>1, <1>5, <2>1
<1>7. kr + SampleRate <= qr
  BY <1>4
<1> HIDE DEF qr, kr
<1> QED
  BY <1>1, <1>5, <1>6, <1>7

\* k + 1 cycles are k and one more.
LEMMA OneMore ==
  ASSUME ToneConstants, NEW s, Shaped(s), SweepOK(s), Counts(s), ~Pending(s),
         s.mix = Mixed(s), NEW k \in Nat \ {0}, NoEventBefore(s, k + 1)
  PROVE  Serve(Serve(s, k), 1) = Serve(s, k + 1)
<1> DEFINE r == Serve(s, k)
           a == TicksIn(s, k)
           b == TicksIn(r, 1)
           t == Serve(r, 1)
           u == Serve(s, k + 1)
<1>1. /\ r.on = s.on /\ r.sweep = s.sweep /\ r.quarter = s.quarter /\ r.half = s.half
      /\ r.phase = (s.phase + k) % 2 /\ DOMAIN r = DOMAIN s
      /\ r.pulse = PulseAfter(s, k) /\ r.tri = TriangleRan(s.tri, k)
      /\ r.noise = NoiseAfter(s, k) /\ r.base = BaseAfter(s, k) /\ r.mix = MixAfter(s, k)
      /\ SampleAfter(s, k, r)
  BY ServeIs, Zenon
<1> HIDE DEF r
<1>2. /\ a \in Nat /\ b \in {0, 1} /\ a + b = TicksIn(s, k + 1)
      /\ (r.phase + 1) % 2 = (s.phase + (k + 1)) % 2
      /\ \A c \in Int : /\ k + 1 <= 2 * (c + 1) - s.phase => a <= c
                        /\ k + 1 <= 2 * c - s.phase => a < c
  <2>1. s.phase \in {0, 1} /\ k \in Nat
    BY DEF Counts
  <2> QED BY <1>1, <2>1, Quotients, Zenon DEF TicksIn
<1>3. /\ PulseSounds(s) => a <= s.pulse.countdown
      /\ TriangleSounds(s) => k <= s.tri.countdown
      /\ a < s.noise.countdown
  <2>1. s.pulse.countdown \in Int /\ s.tri.countdown \in Int /\ s.noise.countdown \in Int
    BY DEF Counts, PulseCounts, TriangleCounts
  <2>2. TriangleSounds(s) => k <= s.tri.countdown
    BY <2>1 DEF NoEventBefore
  <2> QED BY <1>2, <2>1, <2>2, Zenon DEF NoEventBefore
<1>4. ~(ClockAfter(s, k) >= ClockRate) /\ ClockAfter(s, k) \in Nat
  <2>1. s.clock \in Nat /\ k \in Nat
    BY DEF Counts
  <2> QED BY <2>1, NoSampleBefore, Zenon DEF NoEventBefore, ClockAfter
<1>5. /\ r.sum = SumAfter(s, k) /\ r.count = s.count + k
      /\ r.clock = ClockAfter(s, k) /\ r.pushed = s.pushed
  BY <1>1, <1>4, Zenon DEF SampleAfter
<1> DEFINE more == TicksIn(s, k + 1)
<1> HIDE DEF a, b, more
<1>6. a \in Nat /\ ((b = 0 /\ more = a) \/ (b = 1 /\ more = a + 1 /\ more # 0))
  <2>1. a \in Nat /\ b \in {0, 1} /\ a + b = more
    BY <1>2, Zenon DEF more
  <2> QED BY <2>1
<1>7. a # 0 => a \in Nat \ {0}
  BY <1>6
<1>8. PulseAfter(r, 1) = PulseAfter(s, k + 1)
  <2>1. DOMAIN s.pulse = PulseFields /\ PulseCounts(s.pulse) /\ s.pulse.period \in Nat
    BY DEF Shaped, PulseFields, Counts, SweepOK, ToneConstants
  <2>2. ~s.sweep.mute /\ s.pulse.length > 0 => a <= s.pulse.countdown
    BY <1>3 DEF PulseSounds
  <2>3. a # 0 => PulseRan(PulseRan(s.pulse, s.sweep.mute, a), s.sweep.mute, 1)
                   = PulseRan(s.pulse, s.sweep.mute, a + 1)
    BY <1>7, <2>1, <2>2, PulseOneMore, Zenon DEF ToneConstants
  <2>4. PulseAfter(s, k) = IF a = 0 THEN s.pulse ELSE PulseRan(s.pulse, s.sweep.mute, a)
    BY Zenon DEF PulseAfter, a
  <2>5. PulseAfter(r, 1) = IF b = 0 THEN r.pulse ELSE PulseRan(r.pulse, r.sweep.mute, b)
    BY Zenon DEF PulseAfter, b
  <2>6. PulseAfter(s, k + 1) = IF more = 0 THEN s.pulse ELSE PulseRan(s.pulse, s.sweep.mute, more)
    BY Zenon DEF PulseAfter, more
  <2>7. a = 0 => a + 1 = 1
    OBVIOUS
  <2> QED BY <1>1, <1>6, <2>3, <2>4, <2>5, <2>6, <2>7
<1>9. NoiseAfter(r, 1) = NoiseAfter(s, k + 1) /\ BaseAfter(r, 1) = BaseAfter(s, k + 1)
  <2>1. DOMAIN s.noise = NoiseFields /\ s.noise.countdown \in Nat \ {0}
    BY DEF Shaped, NoiseFields, Counts
  <2>2. a # 0 => /\ NoiseRan(NoiseRan(s.noise, a), 1) = NoiseRan(s.noise, a + 1)
                 /\ BaseRan(NoiseRan(s.noise, a), BaseRan(s.noise, s.base, a), 1)
                      = BaseRan(s.noise, s.base, a + 1)
    BY <1>3, <1>7, <2>1, NoiseOneMore, Zenon
  <2>3. /\ NoiseAfter(s, k) = IF a = 0 THEN s.noise ELSE NoiseRan(s.noise, a)
        /\ BaseAfter(s, k) = IF a = 0 THEN s.base ELSE BaseRan(s.noise, s.base, a)
    BY Zenon DEF NoiseAfter, BaseAfter, a
  <2>4. /\ NoiseAfter(r, 1) = IF b = 0 THEN r.noise ELSE NoiseRan(r.noise, b)
        /\ BaseAfter(r, 1) = IF b = 0 THEN r.base ELSE BaseRan(r.noise, r.base, b)
    BY Zenon DEF NoiseAfter, BaseAfter, b
  <2>5. /\ NoiseAfter(s, k + 1) = IF more = 0 THEN s.noise ELSE NoiseRan(s.noise, more)
        /\ BaseAfter(s, k + 1) = IF more = 0 THEN s.base ELSE BaseRan(s.noise, s.base, more)
    BY Zenon DEF NoiseAfter, BaseAfter, more
  <2>6. a = 0 => a + 1 = 1
    OBVIOUS
  <2> QED BY <1>1, <1>6, <2>2, <2>3, <2>4, <2>5, <2>6
<1>10. TriangleRan(r.tri, 1) = TriangleRan(s.tri, k + 1)
  <2>1. DOMAIN s.tri = TriangleFields /\ TriangleCounts(s.tri)
    BY DEF Shaped, TriangleFields, Counts
  <2>2. s.tri.length > 0 /\ s.tri.linear > 0 => k <= s.tri.countdown
    BY <1>3 DEF TriangleSounds
  <2> QED BY <1>1, <2>1, <2>2, TriangleOneMore, Zenon
<1>11. MixAfter(r, 1) = MixAfter(s, k + 1)
  BY <1>8, <1>9, <1>10, Zenon DEF MixAfter
<1>12. r.mix = s.mix
  <2>1. PulseAfter(s, k).out = s.pulse.out
    <3>1. DOMAIN s.pulse = PulseFields
      BY DEF Shaped, PulseFields
    <3>2. PulseRan(s.pulse, s.sweep.mute, a).out = s.pulse.out
      BY <1>3, <3>1 DEF PulseRan, PulseSounds, PulseFields
    <3>3. PulseAfter(s, k) = IF a = 0 THEN s.pulse ELSE PulseRan(s.pulse, s.sweep.mute, a)
      BY Zenon DEF PulseAfter, a
    <3> QED BY <3>2, <3>3
  <2>2. TriangleRan(s.tri, k).out = s.tri.out
    BY <1>3 DEF TriangleRan, TriangleSounds, Shaped
  <2>3. BaseAfter(s, k) = s.base
    BY <1>3, Zenon DEF BaseAfter, BaseRan, a
  <2> QED BY <1>1, <2>1, <2>2, <2>3, Zenon DEF MixAfter, Mixed
<1>13. SumAfter(r, 1) = SumAfter(s, k + 1)
  <2> DEFINE mix == MixAfter(s, k + 1)
  <2>1. /\ s.sum \in Int /\ s.mix \in Int /\ k \in Int /\ MixAfter(s, k) = s.mix
    BY <1>1, <1>12 DEF Counts
  <2>2. SumAfter(s, k) = s.sum + s.mix * (k - 1) + s.mix
    BY <2>1 DEF SumAfter
  <2>3. SumAfter(r, 1) = (s.sum + s.mix * (k - 1) + s.mix) + s.mix * (1 - 1) + mix
    BY <1>5, <1>11, <1>12, <2>2, Zenon DEF SumAfter
  <2>4. SumAfter(s, k + 1) = s.sum + s.mix * ((k + 1) - 1) + mix
    BY Zenon DEF SumAfter
  <2> HIDE DEF mix
  <2>5. s.mix * (k - 1) + s.mix = s.mix * k /\ s.mix * (1 - 1) = 0 /\ s.mix * ((k + 1) - 1) = s.mix * k
    BY <2>1
  <2> DEFINE z == s.mix * k
             y == s.mix * (k - 1)
  <2>6. z \in Int /\ y \in Int /\ y + s.mix = z /\ s.mix * (1 - 1) = 0 /\ s.mix * ((k + 1) - 1) = z
    BY <2>1, <2>5
  <2> HIDE DEF z, y
  <2>7. (s.sum + y + s.mix) + 0 = s.sum + z
    BY <2>1, <2>6
  <2>8. SumAfter(r, 1) = (s.sum + y + s.mix) + 0 + mix
    BY <2>3, <2>6, Zenon DEF y
  <2> QED BY <2>4, <2>6, <2>7, <2>8, Zenon
<1>14. ClockAfter(r, 1) = ClockAfter(s, k + 1) /\ r.count + 1 = s.count + (k + 1)
  <2>1. s.clock \in Nat /\ s.count \in Nat /\ k \in Nat /\ SampleRate \in Nat
    BY DEF Counts, ToneConstants
  <2> DEFINE z == SampleRate * k
  <2>2. z \in Int /\ SampleRate * (k + 1) = z + SampleRate /\ SampleRate * 1 = SampleRate
    BY <2>1
  <2>3. r.clock = s.clock + z
    BY <1>5 DEF ClockAfter
  <2> HIDE DEF z
  <2> QED BY <1>5, <2>1, <2>2, <2>3 DEF ClockAfter
<1>15. Shaped(r)
  <2>1. DOMAIN r.pulse = DOMAIN s.pulse
    BY <1>1 DEF PulseAfter, PulseRan
  <2>2. DOMAIN r.noise = DOMAIN s.noise
    BY <1>1 DEF NoiseAfter, NoiseRan
  <2>3. DOMAIN r.tri = DOMAIN s.tri
    BY <1>1 DEF TriangleRan
  <2> QED BY <1>1, <2>1, <2>2, <2>3 DEF Shaped
<1>16. ~Pending(r)
  BY <1>1, Zenon DEF Pending
<1>17. /\ IsRecord(t) /\ DOMAIN t = DOMAIN r
       /\ t.on = r.on /\ t.sweep = r.sweep /\ t.quarter = r.quarter /\ t.half = r.half
       /\ t.phase = (r.phase + 1) % 2
       /\ t.pulse = PulseAfter(r, 1) /\ t.tri = TriangleRan(r.tri, 1)
       /\ t.noise = NoiseAfter(r, 1) /\ t.base = BaseAfter(r, 1) /\ t.mix = MixAfter(r, 1)
       /\ SampleAfter(r, 1, t)
  BY <1>15, <1>16, ServeIs, Zenon
<1>18. /\ IsRecord(u) /\ DOMAIN u = DOMAIN s
       /\ u.on = s.on /\ u.sweep = s.sweep /\ u.quarter = s.quarter /\ u.half = s.half
       /\ u.phase = (s.phase + (k + 1)) % 2
       /\ u.pulse = PulseAfter(s, k + 1) /\ u.tri = TriangleRan(s.tri, k + 1)
       /\ u.noise = NoiseAfter(s, k + 1) /\ u.base = BaseAfter(s, k + 1)
       /\ u.mix = MixAfter(s, k + 1)
       /\ SampleAfter(s, k + 1, u)
  BY ServeIs, Zenon
<1> HIDE DEF t, u
<1>19. t.sum = u.sum /\ t.count = u.count /\ t.clock = u.clock /\ t.pushed = u.pushed
  BY <1>5, <1>13, <1>14, <1>17, <1>18, Zenon DEF SampleAfter
<1>20. \A f \in DOMAIN s : t[f] = u[f]
  BY <1>1, <1>2, <1>8, <1>9, <1>10, <1>11, <1>17, <1>18, <1>19 DEF Shaped
<1>21. t = u
  BY <1>1, <1>17, <1>18, <1>20 DEF IsRecord
<1> QED
  BY <1>21 DEF t, u, r

-----------------------------------------------------------------------------
(***************************************************************************)
(* Numbers: a set of them has a least element, and what holds of 0 and is  *)
(* handed on from n to n + 1 holds of all.                                 *)
(***************************************************************************)
LEMMA Least == \A T \in SUBSET Nat : T # {} => \E m \in T : \A k \in T : m <= k
<1> SUFFICES ASSUME NEW T \in SUBSET Nat, T # {} PROVE \E m \in T : \A k \in T : m <= k
  OBVIOUS
<1> DEFINE R == {ss \in Nat \X Nat : ss[1] < ss[2]}
<1>1. IsWellFoundedOn(R, Nat)
  BY NatLessThanWellFounded DEF OpToRel
<1>2. \A j, k \in Nat : j < k => <<j, k>> \in R
  OBVIOUS
<1> HIDE DEF R
<1>3. PICK m \in T : \A y \in T : ~(<<y, m>> \in R)
  BY <1>1, WFMin, Zenon
<1>4. ASSUME NEW k \in T PROVE m <= k
  <2>1. m \in Nat /\ k \in Nat
    OBVIOUS
  <2>2. ~(k < m)
    BY <1>2, <1>3, <2>1, Zenon
  <2> QED BY <2>1, <2>2
<1> QED BY <1>4

\* Induction over numbers.
LEMMA Induct ==
  ASSUME NEW S, 0 \in S, \A n \in Nat : n \in S => n + 1 \in S
  PROVE  \A n \in Nat : n \in S
<1> DEFINE T == {n \in Nat : n \notin S}
<1> SUFFICES ASSUME T # {} PROVE FALSE
  OBVIOUS
<1>1. PICK m \in T : \A k \in T : m <= k
  BY Least
<1>2. m # 0
  OBVIOUS
<1>3. m - 1 \in Nat /\ m = (m - 1) + 1 /\ ~(m <= m - 1)
  BY <1>2
<1>4. m - 1 \in S
  BY <1>1, <1>3
<1> QED BY <1>3, <1>4

\* n cycles one by one are a step of n, if each is one more than those before it.
LEMMA CycleByCycleIs ==
  ASSUME NEW n \in Nat \ {0},
         \A k \in 1..(n - 1) : Serve(Serve(tone, k), 1) = Serve(tone, k + 1)
  PROVE  CycleByCycle(n) = Serve(tone, n)
<1> DEFINE g == [k \in 0..n |-> IF k = 0 THEN tone ELSE Serve(tone, k)]
           after[k \in 0..n] == IF k = 0 THEN tone ELSE Serve(after[k - 1], 1)
<1>1. g = [k \in 0..n |-> IF k = 0 THEN tone ELSE Serve(g[k - 1], 1)]
  <2> SUFFICES ASSUME NEW k \in 0..n, k # 0 PROVE Serve(tone, k) = Serve(g[k - 1], 1)
    OBVIOUS
  <2>1. CASE k = 1
    BY <2>1
  <2>2. CASE k # 1
    <3>1. k - 1 \in 1..(n - 1) /\ k - 1 \in 0..n /\ k - 1 # 0 /\ (k - 1) + 1 = k
      BY <2>2
    <3>2. g[k - 1] = Serve(tone, k - 1)
      BY <3>1
    <3> HIDE DEF g
    <3> QED BY <3>1, <3>2
  <2> QED BY <2>1, <2>2
<1>2. CycleByCycle(n) = after[n]
  BY Zenon DEF CycleByCycle
<1>3. after = [k \in 0..n |-> IF k = 0 THEN tone ELSE Serve(after[k - 1], 1)]
  <2> HIDE DEF g
  <2> QED BY <1>1, Zenon
<1> HIDE DEF after
<1> DEFINE S == {k \in Nat : k <= n => after[k] = g[k]}
<1>4. 0 \in S
  BY <1>3
<1>5. \A k \in Nat : k \in S => k + 1 \in S
  <2> SUFFICES ASSUME NEW k \in Nat, k \in S, k + 1 <= n PROVE after[k + 1] = g[k + 1]
    OBVIOUS
  <2>1. k <= n /\ k + 1 \in 0..n /\ k + 1 # 0 /\ (k + 1) - 1 = k
    OBVIOUS
  <2>2. after[k] = g[k]
    BY <2>1
  <2>3. after[k + 1] = Serve(after[k], 1)
    BY <1>3, <2>1
  <2>4. g[k + 1] = Serve(g[k], 1)
    <3> HIDE DEF g
    <3> QED BY <1>1, <2>1
  <2> QED BY <2>2, <2>3, <2>4
<1>6. n \in S
  <2> HIDE DEF S
  <2> QED BY <1>4, <1>5, Induct
<1> QED
  BY <1>2, <1>6

-----------------------------------------------------------------------------
(***************************************************************************)
(* What a step counts with are numbers, whatever a program writes.         *)
(***************************************************************************)
SameCounts(s, t) ==
  /\ t.phase = s.phase /\ t.mix = s.mix /\ t.sum = s.sum /\ t.count = s.count /\ t.clock = s.clock
  /\ t.pulse.countdown = s.pulse.countdown /\ t.pulse.duty = s.pulse.duty
  /\ t.pulse.decay = s.pulse.decay /\ t.pulse.control = s.pulse.control
  /\ t.tri.countdown = s.tri.countdown /\ t.tri.period = s.tri.period /\ t.tri.seq = s.tri.seq
  /\ t.noise.countdown = s.noise.countdown /\ t.noise.period = s.noise.period
  /\ t.noise.decay = s.noise.decay /\ t.noise.control = s.noise.control

\* Other fields do not matter.
LEMMA CountsStay == ASSUME NEW s, NEW t, Counts(s), SameCounts(s, t) PROVE Counts(t)
BY DEF Counts, SameCounts, PulseCounts, TriangleCounts

\* The outputs are levels.
Levels(s) ==
  /\ s.pulse.decay \in Nat /\ s.pulse.control.volume \in Nat
  /\ s.noise.decay \in Nat /\ s.noise.control.volume \in Nat
  /\ s.tri.seq \in Nat

LEMMA OutputsAreNat ==
  ASSUME ToneConstants, NEW s, Levels(s)
  PROVE  PulseOutput(s) \in Nat /\ TriangleOutput(s) \in Nat /\ NoiseOutput(s) \in Nat
<1>1. Level(s.pulse) \in Nat /\ Level(s.noise) \in Nat
  BY DEF Levels, Level
<1>2. TriangleSteps \div 2 \in Nat /\ s.tri.seq \in Nat
  BY DEF ToneConstants, Levels
<1> QED
  BY <1>1, <1>2 DEF PulseOutput, TriangleOutput, NoiseOutput

\* ApuUpdateOutput.
LEMMA UpdatedCounts ==
  ASSUME ToneConstants, NEW s, Shaped(s), Counts(s)
  PROVE  Counts(Updated(s))
<1> DEFINE p == PulseOutput(s)
           q == TriangleOutput(s)
           o == NoiseOutput(s)
           t == [s EXCEPT !.pulse.out = p, !.tri.out = q, !.noise.out = o, !.base = o]
           u == [t EXCEPT !.mix = Mixed(t)]
<1>1. p \in Nat /\ q \in Nat /\ o \in Nat
  <2>1. Levels(s)
    BY DEF Counts, TriangleCounts, Levels
  <2> QED BY <2>1, OutputsAreNat
<1>2. Updated(s) = u
  BY DEF Updated
<1> HIDE DEF p, q, o
<1>3. /\ SameCounts(s, t) /\ DOMAIN t = DOMAIN s
      /\ t.pulse.out = p /\ t.tri.out = q /\ t.base = o
  BY DEF Shaped, SameCounts
<1> HIDE DEF t
<1>4. Counts(t) /\ Mixed(t) \in Int
  BY <1>1, <1>3, CountsStay DEF Mixed
<1>5. /\ u.phase = t.phase /\ u.sum = t.sum /\ u.count = t.count /\ u.clock = t.clock
      /\ u.mix = Mixed(t) /\ u.pulse = t.pulse /\ u.tri = t.tri /\ u.noise = t.noise
  BY <1>3 DEF Shaped
<1> HIDE DEF u
<1>6. Counts(u)
  BY <1>4, <1>5 DEF Counts
<1> QED
  BY <1>2, <1>6

\* A quarter frame clock reloads or counts down.
LEMMA QuarterCounts ==
  ASSUME ToneConstants, NEW s, Shaped(s), Counts(s)
  PROVE  Counts(QuarterTick(s))
<1> DEFINE t == QuarterTick(s)
           p == EnvelopeTick(s.pulse)
           o == EnvelopeTick(s.noise)
           l == LinearTick(s.tri)
<1>1. p.countdown = s.pulse.countdown /\ p.duty = s.pulse.duty /\ p.control = s.pulse.control
  BY DEF Shaped, EnvelopeTick
<1>2. o.countdown = s.noise.countdown /\ o.period = s.noise.period /\ o.control = s.noise.control
  BY DEF Shaped, EnvelopeTick
<1>3. p.decay \in Nat /\ o.decay \in Nat
  <2>1. s.pulse.decay \in Nat /\ s.noise.decay \in Nat /\ MaxDecay \in Nat
    BY DEF Counts, ToneConstants
  <2> QED BY <2>1 DEF Shaped, EnvelopeTick
<1>4. l.countdown = s.tri.countdown /\ l.period = s.tri.period /\ l.seq = s.tri.seq
  BY DEF Shaped, LinearTick
<1>5. /\ t.pulse = p /\ t.noise = o /\ t.tri = l
      /\ t.phase = s.phase /\ t.mix = s.mix /\ t.sum = s.sum /\ t.count = s.count /\ t.clock = s.clock
  BY DEF Shaped, QuarterTick
<1> HIDE DEF t, p, o, l
<1>6. Counts(t)
  BY <1>1, <1>2, <1>3, <1>4, <1>5 DEF Counts, PulseCounts, TriangleCounts
<1> QED
  BY <1>6 DEF t

\* ApuSweepCalcTarget.
LEMMA SweepCalcCounts ==
  ASSUME NEW s, Shaped(s)
  PROVE  SameCounts(s, SweepCalc(s)) /\ Shaped(SweepCalc(s))
BY DEF Shaped, SweepCalc, SameCounts

\* A half frame clock.
LEMMA HalfCounts ==
  ASSUME NEW s, Shaped(s)
  PROVE  SameCounts(s, HalfTick(s)) /\ Shaped(HalfTick(s))
<1> DEFINE l == [s EXCEPT !.pulse = LengthTick(@), !.tri = LengthTick(@), !.noise = LengthTick(@)]
           m == [l EXCEPT !.pulse.period = l.sweep.target]
           t == IF SweepMoves(l) THEN SweepCalc(m) ELSE l
           u == [t EXCEPT !.sweep.divider = t.sweep.period, !.sweep.reload = FALSE]
           v == [t EXCEPT !.sweep.divider = @ - 1]
<1>1. SameCounts(s, l) /\ Shaped(l)
  BY DEF Shaped, LengthTick, SameCounts
<1>2. HalfTick(s) = u \/ HalfTick(s) = v
  BY DEF HalfTick, SweepTick
<1> HIDE DEF l
<1>3. SameCounts(l, m) /\ Shaped(m)
  BY <1>1 DEF Shaped, SameCounts
<1> HIDE DEF m
<1>4. SameCounts(m, SweepCalc(m)) /\ Shaped(SweepCalc(m))
  BY <1>3, SweepCalcCounts
<1>5. SameCounts(s, t) /\ Shaped(t)
  BY <1>1, <1>3, <1>4 DEF SameCounts
<1> HIDE DEF t
<1>6. SameCounts(t, u) /\ SameCounts(t, v) /\ Shaped(u) /\ Shaped(v)
  BY <1>5 DEF Shaped, SameCounts
<1> HIDE DEF u, v
<1> QED
  BY <1>2, <1>5, <1>6 DEF SameCounts

\* ApuFlushFrameSignals.
LEMMA FlushedCounts ==
  ASSUME ToneConstants, NEW s, Shaped(s), Counts(s)
  PROVE  Shaped(Flushed(s)) /\ Counts(Flushed(s)) /\ Flushed(s).phase = s.phase
<1> DEFINE t == IF s.quarter THEN QuarterTick(s) ELSE s
           u == IF s.half THEN HalfTick(t) ELSE t
           v == [u EXCEPT !.quarter = FALSE, !.half = FALSE]
<1>1. Shaped(t) /\ Counts(t) /\ t.phase = s.phase
  BY QuarterCounts, QuarterStays DEF SameSweep, QuarterTick, Shaped
<1> HIDE DEF t
<1>2. Shaped(u) /\ Counts(u) /\ u.phase = s.phase
  BY <1>1, HalfCounts, CountsStay DEF SameCounts
<1> HIDE DEF u
<1>3. SameCounts(u, v) /\ Shaped(v)
  BY <1>2 DEF Shaped, SameCounts
<1> HIDE DEF v
<1>4. Shaped(v) /\ Counts(v) /\ v.phase = s.phase
  BY <1>2, <1>3, CountsStay DEF SameCounts
<1> QED
  BY <1>4 DEF Flushed, t, u, v

\* A register write keeps them: R0 loads a volume, R2 and R3 a period of the table.
LEMMA RegisterCounts ==
  ASSUME ToneConstants, NEW s, Shaped(s), Counts(s)
  PROVE  /\ \A on : Counts(Status(s, on))
         /\ \A c \in Controls : Counts(PulseR0(s, c)) /\ Counts(NoiseR0(s, c))
         /\ \A c : Counts(TriangleR0(s, c))
         /\ \A v \in Sweeps : Counts(PulseR1(s, v))
         /\ \A p \in Periods : Counts(PulseR2(s, p)) /\ Counts(TriangleR2(s, p))
         /\ \A p \in NoisePeriods, mode \in BOOLEAN : Counts(NoiseR2(s, p, mode))
<1>1. ASSUME NEW on PROVE Counts(Status(s, on))
  <2> DEFINE t == Status(s, on)
  <2>1. SameCounts(s, t)
    BY DEF Shaped, Status, SameCounts
  <2> HIDE DEF t
  <2> QED BY <2>1, CountsStay DEF t
<1>2. ASSUME NEW c, c.volume \in Nat
      PROVE  Counts(PulseR0(s, c)) /\ Counts(NoiseR0(s, c))
  <2> DEFINE f == Flushed(s)
             t == [f EXCEPT !.pulse.control = c]
             u == [f EXCEPT !.noise.control = c]
  <2>1. Shaped(f) /\ Counts(f)
    BY FlushedCounts
  <2>2. PulseR0(s, c) = t /\ NoiseR0(s, c) = u
    BY DEF PulseR0, NoiseR0
  <2> HIDE DEF f
  <2>3. /\ t.phase = f.phase /\ t.mix = f.mix /\ t.sum = f.sum /\ t.count = f.count
        /\ t.clock = f.clock /\ t.pulse.countdown = f.pulse.countdown
        /\ t.pulse.duty = f.pulse.duty /\ t.pulse.decay = f.pulse.decay
        /\ t.pulse.control = c /\ t.tri = f.tri /\ t.noise = f.noise
    BY <2>1 DEF Shaped
  <2>4. /\ u.phase = f.phase /\ u.mix = f.mix /\ u.sum = f.sum /\ u.count = f.count
        /\ u.clock = f.clock /\ u.noise.countdown = f.noise.countdown
        /\ u.noise.period = f.noise.period /\ u.noise.decay = f.noise.decay
        /\ u.noise.control = c /\ u.tri = f.tri /\ u.pulse = f.pulse
    BY <2>1 DEF Shaped
  <2> HIDE DEF t, u
  <2>5. Counts(t) /\ Counts(u)
    BY <1>2, <2>1, <2>3, <2>4 DEF Counts, PulseCounts
  <2> QED BY <2>2, <2>5
<1>3. ASSUME NEW c PROVE Counts(TriangleR0(s, c))
  <2> DEFINE f == Flushed(s)
             t == [f EXCEPT !.tri.control = c]
  <2>1. Shaped(f) /\ Counts(f)
    BY FlushedCounts
  <2>2. TriangleR0(s, c) = t
    BY DEF TriangleR0
  <2> HIDE DEF f
  <2>3. SameCounts(f, t)
    BY <2>1 DEF Shaped, SameCounts
  <2> HIDE DEF t
  <2> QED BY <2>1, <2>2, <2>3, CountsStay
<1>4. ASSUME NEW v PROVE Counts(PulseR1(s, v))
  <2> DEFINE t == [s EXCEPT !.sweep.enabled = v.enabled, !.sweep.period = v.period,
                            !.sweep.negate = v.negate, !.sweep.shift = v.shift, !.sweep.reload = TRUE]
  <2>1. SameCounts(s, t) /\ Shaped(t)
    BY DEF Shaped, SameCounts
  <2> HIDE DEF t
  <2>2. Counts(SweepCalc(t))
    BY <2>1, SweepCalcCounts, CountsStay
  <2> QED BY <2>2 DEF PulseR1, t
<1>5. ASSUME NEW p PROVE Counts(PulseR2(s, p))
  <2> DEFINE t == [s EXCEPT !.pulse.period = p]
  <2>1. SameCounts(s, t) /\ Shaped(t)
    BY DEF Shaped, SameCounts
  <2> HIDE DEF t
  <2>2. Counts(SweepCalc(t))
    BY <2>1, SweepCalcCounts, CountsStay
  <2> QED BY <2>2 DEF PulseR2, t
<1>6. ASSUME NEW p \in Nat PROVE Counts(TriangleR2(s, p))
  <2> DEFINE t == TriangleR2(s, p)
  <2>1. /\ t.phase = s.phase /\ t.mix = s.mix /\ t.sum = s.sum /\ t.count = s.count
        /\ t.clock = s.clock /\ t.pulse = s.pulse /\ t.noise = s.noise
        /\ t.tri.countdown = s.tri.countdown /\ t.tri.period = p /\ t.tri.seq = s.tri.seq
    BY DEF Shaped, TriangleR2
  <2> HIDE DEF t
  <2>2. Counts(t)
    BY <2>1 DEF Counts, TriangleCounts
  <2> QED BY <2>2 DEF t
<1>7. ASSUME NEW p \in Nat \ {0}, NEW mode PROVE Counts(NoiseR2(s, p, mode))
  <2> DEFINE t == NoiseR2(s, p, mode)
  <2>1. /\ t.phase = s.phase /\ t.mix = s.mix /\ t.sum = s.sum /\ t.count = s.count
        /\ t.clock = s.clock /\ t.pulse = s.pulse /\ t.tri = s.tri
        /\ t.noise.countdown = s.noise.countdown /\ t.noise.period = p
        /\ t.noise.decay = s.noise.decay /\ t.noise.control = s.noise.control
    BY DEF Shaped, NoiseR2
  <2> HIDE DEF t
  <2>2. Counts(t)
    BY <2>1 DEF Counts
  <2> QED BY <2>2 DEF t
<1>8. /\ \A c \in Controls : c.volume \in Nat
      /\ \A p \in Periods : p \in Nat
      /\ \A p \in NoisePeriods : p \in Nat \ {0}
  BY DEF ToneConstants
<1> QED
  BY <1>1, <1>2, <1>3, <1>4, <1>5, <1>6, <1>7, <1>8, Zenon

\* So does R3, which starts the sequencer of the pulse anew.
LEMMA R3Counts ==
  ASSUME ToneConstants, NEW s, Shaped(s), Counts(s), NEW p \in Nat, NEW load
  PROVE  Counts(PulseR3(s, p, load)) /\ Counts(TriangleR3(s, p, load)) /\ Counts(NoiseR3(s, load))
<1>1. Counts(PulseR3(s, p, load))
  <2> DEFINE t == [s EXCEPT !.pulse.period = p, !.pulse.duty = 0]
             f == Flushed(t)
             length == Loaded(t.pulse, Flushed(t).pulse, load)
             loaded == [f EXCEPT !.pulse.length = length]
             u == IF s.on.pulse THEN loaded ELSE t
             v == [u EXCEPT !.pulse.start = TRUE]
  <2>1. /\ t.phase = s.phase /\ t.mix = s.mix /\ t.sum = s.sum /\ t.count = s.count
        /\ t.clock = s.clock /\ t.tri = s.tri /\ t.noise = s.noise
        /\ t.pulse.countdown = s.pulse.countdown /\ t.pulse.duty = 0
        /\ t.pulse.decay = s.pulse.decay /\ t.pulse.control = s.pulse.control /\ Shaped(t)
    BY DEF Shaped
  <2>2. PulseR3(s, p, load) = SweepCalc(v)
    BY DEF PulseR3
  <2> HIDE DEF t
  <2>3. Counts(t)
    BY <2>1 DEF Counts, PulseCounts
  <2>4. Shaped(f) /\ Counts(f)
    BY <2>1, <2>3, FlushedCounts
  <2> HIDE DEF f, length
  <2>5. SameCounts(f, loaded) /\ Shaped(loaded)
    BY <2>4 DEF Shaped, SameCounts
  <2> HIDE DEF loaded
  <2>6. Counts(u) /\ Shaped(u)
    BY <2>1, <2>3, <2>4, <2>5, CountsStay
  <2> HIDE DEF u
  <2>7. SameCounts(u, v) /\ Shaped(v)
    BY <2>6 DEF Shaped, SameCounts
  <2> HIDE DEF v
  <2> QED BY <2>2, <2>6, <2>7, SweepCalcCounts, CountsStay
<1>2. Counts(TriangleR3(s, p, load))
  <2> DEFINE t == [s EXCEPT !.tri.period = p]
             f == Flushed(t)
             length == Loaded(t.tri, Flushed(t).tri, load)
             loaded == [f EXCEPT !.tri.length = length]
             u == IF s.on.tri THEN loaded ELSE t
             v == [u EXCEPT !.tri.reload = TRUE]
  <2>1. Shaped(t)
    BY DEF Shaped
  <2>2. TriangleR3(s, p, load) = v
    BY DEF TriangleR3
  <2>3. Counts(t)
    BY RegisterCounts, CountsStay DEF TriangleR2, Counts, TriangleCounts, Shaped
  <2> HIDE DEF t
  <2>4. Shaped(f) /\ Counts(f)
    BY <2>1, <2>3, FlushedCounts
  <2> HIDE DEF f, length
  <2>5. SameCounts(f, loaded) /\ Shaped(loaded)
    BY <2>4 DEF Shaped, SameCounts
  <2> HIDE DEF loaded
  <2>6. Counts(u) /\ Shaped(u)
    BY <2>1, <2>3, <2>4, <2>5, CountsStay
  <2> HIDE DEF u
  <2>7. SameCounts(u, v)
    BY <2>6 DEF Shaped, SameCounts
  <2> HIDE DEF v
  <2> QED BY <2>2, <2>6, <2>7, CountsStay
<1>3. Counts(NoiseR3(s, load))
  <2> DEFINE f == Flushed(s)
             length == Loaded(s.noise, Flushed(s).noise, load)
             loaded == [f EXCEPT !.noise.length = length]
             u == IF s.on.noise THEN loaded ELSE s
             v == [u EXCEPT !.noise.start = TRUE]
  <2>2. NoiseR3(s, load) = v
    BY DEF NoiseR3
  <2>4. Shaped(f) /\ Counts(f)
    BY FlushedCounts
  <2> HIDE DEF f, length
  <2>5. SameCounts(f, loaded) /\ Shaped(loaded)
    BY <2>4 DEF Shaped, SameCounts
  <2> HIDE DEF loaded
  <2>6. Counts(u) /\ Shaped(u)
    BY <2>4, <2>5, CountsStay
  <2> HIDE DEF u
  <2>7. SameCounts(u, v)
    BY <2>6 DEF Shaped, SameCounts
  <2> HIDE DEF v
  <2> QED BY <2>2, <2>6, <2>7, CountsStay
<1> QED
  BY <1>1, <1>2, <1>3

\* Nor does a step make anything but numbers.
LEMMA SkippedIsNat ==
  ASSUME NEW t, t.countdown \in Nat, t.period \in Nat, NEW a \in Nat, a > t.countdown
  PROVE  Skipped(t, a).countdown \in Nat /\ Skipped(t, a).wraps \in Int
<1> DEFINE c == Skipped(t, a).countdown
           u == [countdown |-> c, period |-> t.period]
<1>1. u.countdown = c /\ u.period = t.period
  OBVIOUS
<1> HIDE DEF u
<1> QED BY <1>1, SkippedOneMore

\* The timer of the pulse.
LEMMA PulseRanCounts ==
  ASSUME ToneConstants, NEW ch, DOMAIN ch = PulseFields, PulseCounts(ch), ch.period \in Nat,
         NEW mute, NEW a \in Nat
  PROVE  /\ PulseCounts(PulseRan(ch, mute, a)) /\ PulseRan(ch, mute, a).decay = ch.decay
         /\ PulseRan(ch, mute, a).control = ch.control
<1> DEFINE next == [ch EXCEPT !.countdown = ch.period, !.duty = (@ - 1) % DutySteps]
           level == IF next.duty \in DutyHigh THEN Level(next) ELSE 0
           k == Skipped(ch, a)
           x == [ch EXCEPT !.countdown = @ - a]
           y == [next EXCEPT !.out = level]
           z == [ch EXCEPT !.countdown = k.countdown, !.duty = (@ - k.wraps) % DutySteps]
           t == PulseRan(ch, mute, a)
<1> SUFFICES PulseCounts(t) /\ t.decay = ch.decay /\ t.control = ch.control
  OBVIOUS
<1>1. t = IF a <= ch.countdown THEN x ELSE IF ~mute /\ ch.length > 0 THEN y ELSE z
  BY Zenon DEF PulseRan
<1> HIDE DEF t, level
<1>2. ch.countdown \in Nat /\ ch.duty \in Int /\ DutySteps \in Nat \ {0}
  BY DEF PulseCounts, ToneConstants
<1>3. a > ch.countdown => k.countdown \in Nat /\ k.wraps \in Int
  BY <1>2, SkippedIsNat
<1> HIDE DEF k
<1>4. CASE a <= ch.countdown
  <2>1. PulseCounts(x) /\ x.decay = ch.decay /\ x.control = ch.control
    BY <1>2, <1>4 DEF PulseCounts, PulseFields
  <2>2. t = x
    <3> HIDE DEF x, y, z
    <3> QED BY <1>1, <1>4, Zenon
  <2> HIDE DEF x
  <2> QED BY <2>1, <2>2
<1>5. CASE ~(a <= ch.countdown)
  <2>1. PulseCounts(y) /\ y.decay = ch.decay /\ y.control = ch.control
    BY <1>2 DEF PulseCounts, PulseFields
  <2>2. PulseCounts(z) /\ z.decay = ch.decay /\ z.control = ch.control
    <3>1. k.countdown \in Nat /\ k.wraps \in Int
      BY <1>2, <1>3, <1>5
    <3> QED BY <1>2, <3>1 DEF PulseCounts, PulseFields
  <2>3. t = y \/ t = z
    <3> HIDE DEF x, y, z
    <3> QED BY <1>1, <1>5, Zenon
  <2> HIDE DEF y, z
  <2> QED BY <2>1, <2>2, <2>3
<1> QED
  BY <1>4, <1>5

\* The timer of the triangle.
LEMMA TriangleRanCounts ==
  ASSUME ToneConstants, NEW ch, DOMAIN ch = TriangleFields, TriangleCounts(ch), NEW a \in Nat
  PROVE  TriangleCounts(TriangleRan(ch, a))
<1> DEFINE next == [ch EXCEPT !.countdown = ch.period, !.seq = (@ + 1) % TriangleSteps]
           level == IF next.period < 2 THEN TriangleSteps \div 2 ELSE next.seq
           c == Skipped(ch, a).countdown
           x == [ch EXCEPT !.countdown = @ - a]
           y == [next EXCEPT !.out = level]
           z == [ch EXCEPT !.countdown = c]
           t == TriangleRan(ch, a)
<1> SUFFICES TriangleCounts(t)
  OBVIOUS
<1>1. t = IF a <= ch.countdown THEN x ELSE IF ch.length > 0 /\ ch.linear > 0 THEN y ELSE z
  BY Zenon DEF TriangleRan
<1> HIDE DEF t, level
<1>2. ch.countdown \in Nat /\ ch.seq \in Nat /\ ch.period \in Nat /\ TriangleSteps \in Nat \ {0}
  BY DEF TriangleCounts, ToneConstants
<1>3. a > ch.countdown => c \in Nat
  BY <1>2, SkippedIsNat
<1> HIDE DEF c
<1>4. CASE a <= ch.countdown
  <2>1. TriangleCounts(x)
    BY <1>2, <1>4 DEF TriangleCounts, TriangleFields
  <2>2. t = x
    <3> HIDE DEF x, y, z
    <3> QED BY <1>1, <1>4, Zenon
  <2> HIDE DEF x
  <2> QED BY <2>1, <2>2
<1>5. CASE ~(a <= ch.countdown)
  <2>1. TriangleCounts(y)
    BY <1>2 DEF TriangleCounts, TriangleFields
  <2>2. TriangleCounts(z)
    <3>1. c \in Nat
      BY <1>2, <1>3, <1>5
    <3> QED BY <1>2, <3>1 DEF TriangleCounts, TriangleFields
  <2>3. t = y \/ t = z
    <3> HIDE DEF x, y, z
    <3> QED BY <1>1, <1>5, Zenon
  <2> HIDE DEF y, z
  <2> QED BY <2>1, <2>2, <2>3
<1> QED
  BY <1>4, <1>5

\* The timer of the noise.
LEMMA NoiseRanCounts ==
  ASSUME NEW ch, DOMAIN ch = NoiseFields, ch.countdown \in Nat \ {0}, ch.period \in Nat \ {0},
         NEW a \in Nat
  PROVE  LET t == NoiseRan(ch, a)
         IN  /\ t.countdown \in Nat \ {0} /\ t.period = ch.period
             /\ t.decay = ch.decay /\ t.control = ch.control
<1> DEFINE next == [ch EXCEPT !.countdown = ch.period, !.lfsr = Shifted(ch)]
           level == IF next.length > 0 /\ next.lfsr % 2 = 0 THEN Level(next) ELSE 0
           x == [ch EXCEPT !.countdown = @ - a]
           y == [next EXCEPT !.out = level]
           t == NoiseRan(ch, a)
<1>1. (t = x /\ a < ch.countdown) \/ t = next \/ t = y
  BY Zenon DEF NoiseRan
<1> HIDE DEF t, level
<1>2. a < ch.countdown => /\ x.countdown \in Nat \ {0} /\ x.period = ch.period
                          /\ x.decay = ch.decay /\ x.control = ch.control
  BY DEF NoiseFields
<1>3. /\ next.countdown \in Nat \ {0} /\ next.period = ch.period
      /\ next.decay = ch.decay /\ next.control = ch.control
  BY DEF NoiseFields
<1>4. /\ y.countdown \in Nat \ {0} /\ y.period = ch.period
      /\ y.decay = ch.decay /\ y.control = ch.control
  BY DEF NoiseFields
<1> HIDE DEF x, y, next
<1>5. /\ t.countdown \in Nat \ {0} /\ t.period = ch.period
      /\ t.decay = ch.decay /\ t.control = ch.control
  BY <1>1, <1>2, <1>3, <1>4
<1> QED
  BY <1>5 DEF t

\* With pending clocks a step is one from the state after them.
LEMMA DueIs ==
  ASSUME ToneConstants, NEW s, ToneOK(s), Counts(s)
  PROVE  \E d : ToneOK(d) /\ Counts(d) /\ ~Pending(d) /\ \A n : Serve(s, n) = Serve(d, n)
<1>1. CASE ~Pending(s)
  BY <1>1
<1>2. CASE Pending(s)
  <2> DEFINE f == Flushed(s)
             d == Updated(f)
  <2>1. Shaped(s)
    BY DEF ToneOK, Fresh, RegsOK
  <2>2. Shaped(f) /\ Counts(f) /\ f.phase = s.phase
    BY <2>1, FlushedCounts
  <2>3. Fresh(f)
    BY FlushedOK DEF ToneOK, Fresh
  <2>4. f.quarter = FALSE /\ f.half = FALSE
    <3> DEFINE u == IF s.half THEN HalfTick(IF s.quarter THEN QuarterTick(s) ELSE s)
                    ELSE IF s.quarter THEN QuarterTick(s) ELSE s
    <3>1. f = [u EXCEPT !.quarter = FALSE, !.half = FALSE]
      BY Zenon DEF Flushed
    <3> HIDE DEF u
    <3>2. DOMAIN u = DOMAIN f
      <4> HIDE DEF f
      <4> QED BY <3>1
    <3> QED BY <2>2, <3>1, <3>2 DEF Shaped
  <2> HIDE DEF f
  <2>5. Fresh(d) /\ OutputsFresh(d) /\ d.mix = Mixed(d) /\ Counts(d)
    BY <2>2, <2>3, UpdatedFresh, UpdatedCounts, SweepStays DEF Fresh
  <2>6. d.quarter = FALSE /\ d.half = FALSE /\ d.phase = s.phase
    BY <2>2, <2>4 DEF Updated, Shaped
  <2>7. ASSUME NEW n PROVE Serve(s, n) = Serve(d, n)
    <3>1. d = Updated(Flushed(s))
      BY DEF f
    <3> HIDE DEF d
    <3>2. ~Pending(d)
      BY <2>6, Zenon DEF Pending
    <3> DEFINE after(e, ph) ==
          LET ticks == (n + ph) \div 2
              ticked == IF ticks = 0 THEN e ELSE NoiseTick(PulseTick(e, ticks), ticks)
              played == TriangleTick(ticked, n)
              mixed == [played EXCEPT !.mix = Mixed(played)]
          IN  [Sampled(mixed, e.mix, n) EXCEPT !.phase = (ph + n) % 2]
    <3>3. Serve(s, n) = after(d, s.phase)
      BY <1>2, <3>1, Zenon DEF Serve
    <3>4. Serve(d, n) = after(d, d.phase)
      BY <3>2, Zenon DEF Serve
    <3> HIDE DEF after
    <3> QED BY <2>6, <3>3, <3>4
  <2>8. ToneOK(d) /\ ~Pending(d)
    BY <2>5, <2>6 DEF ToneOK, Pending
  <2> HIDE DEF d
  <2> QED BY <2>5, <2>7, <2>8, Zenon
<1> QED
  BY <1>1, <1>2

\* A whole step.
LEMMA ServeCounts ==
  ASSUME ToneConstants, NEW s, ToneOK(s), Counts(s), NEW n \in Nat \ {0}, NEW quarter, NEW half
  PROVE  Counts([Serve(s, n) EXCEPT !.quarter = quarter, !.half = half])
<1>1. PICK d : ToneOK(d) /\ Counts(d) /\ ~Pending(d) /\ \A m : Serve(s, m) = Serve(d, m)
  BY DueIs, Zenon
<1> DEFINE t == Serve(d, n)
           u == [t EXCEPT !.quarter = quarter, !.half = half]
<1> SUFFICES Counts(u)
  BY <1>1
<1>2. Shaped(d) /\ SweepOK(d)
  BY <1>1 DEF ToneOK, Fresh, RegsOK
<1>3. ToneOK(u)
  BY <1>1, ServeOK
<1>4. /\ DOMAIN t = DOMAIN d /\ t.phase = (d.phase + n) % 2
      /\ t.pulse = PulseAfter(d, n) /\ t.tri = TriangleRan(d.tri, n)
      /\ t.noise = NoiseAfter(d, n) /\ t.base = BaseAfter(d, n) /\ t.mix = MixAfter(d, n)
      /\ SampleAfter(d, n, t)
  BY <1>1, <1>2, ServeIs, Zenon
<1> HIDE DEF t
<1>5. /\ u.phase = t.phase /\ u.pulse = t.pulse /\ u.tri = t.tri /\ u.noise = t.noise
      /\ u.base = t.base /\ u.mix = t.mix /\ u.sum = t.sum /\ u.count = t.count /\ u.clock = t.clock
  BY <1>2, <1>4 DEF Shaped
<1> HIDE DEF u
<1> DEFINE ticks == TicksIn(d, n)
<1>6. ticks \in Nat /\ (d.phase + n) % 2 \in {0, 1}
  <2>1. d.phase \in {0, 1}
    BY <1>1 DEF Counts
  <2> QED BY <2>1 DEF TicksIn
<1> HIDE DEF ticks
<1>7. /\ PulseCounts(u.pulse) /\ u.pulse.decay = d.pulse.decay
      /\ u.pulse.control = d.pulse.control
  <2>1. DOMAIN d.pulse = PulseFields /\ PulseCounts(d.pulse) /\ d.pulse.period \in Nat
    BY <1>1, <1>2 DEF Shaped, PulseFields, Counts, SweepOK, ToneConstants
  <2>2. u.pulse = d.pulse \/ u.pulse = PulseRan(d.pulse, d.sweep.mute, ticks)
    BY <1>4, <1>5, Zenon DEF PulseAfter, ticks
  <2> QED BY <1>6, <2>1, <2>2, PulseRanCounts
<1>8. TriangleCounts(u.tri)
  <2>1. DOMAIN d.tri = TriangleFields /\ TriangleCounts(d.tri) /\ n \in Nat
    BY <1>1, <1>2 DEF Shaped, TriangleFields, Counts
  <2> QED BY <1>4, <1>5, <2>1, TriangleRanCounts
<1>9. /\ u.noise.countdown \in Nat \ {0} /\ u.noise.period \in Nat \ {0}
      /\ u.noise.decay = d.noise.decay /\ u.noise.control = d.noise.control
  <2>1. /\ DOMAIN d.noise = NoiseFields /\ d.noise.countdown \in Nat \ {0}
        /\ d.noise.period \in Nat \ {0}
    BY <1>1, <1>2 DEF Shaped, NoiseFields, Counts
  <2>2. u.noise = d.noise \/ u.noise = NoiseRan(d.noise, ticks)
    BY <1>4, <1>5, Zenon DEF NoiseAfter, ticks
  <2> QED BY <1>6, <2>1, <2>2, NoiseRanCounts
<1>10. /\ u.pulse.decay \in Nat /\ u.pulse.control.volume \in Nat
       /\ u.noise.decay \in Nat /\ u.noise.control.volume \in Nat
  BY <1>1, <1>7, <1>9 DEF Counts
<1>11. MixAfter(d, n) \in Int
  <2>1. Levels(u)
    BY <1>8, <1>10 DEF Levels, TriangleCounts
  <2>2. u.pulse.out \in Nat /\ u.tri.out \in Nat /\ u.base \in Nat
    BY <1>3, <2>1, OutputsAreNat DEF ToneOK, OutputsFresh
  <2>3. MixAfter(d, n) = u.pulse.out + u.tri.out + u.base
    BY <1>4, <1>5, Zenon DEF MixAfter
  <2> QED BY <2>2, <2>3
<1>12. SumAfter(d, n) \in Int /\ ClockAfter(d, n) \in Nat /\ d.count + n \in Nat
  <2>1. /\ d.sum \in Int /\ d.mix \in Int /\ d.clock \in Nat /\ d.count \in Nat
        /\ SampleRate \in Nat
    BY <1>1 DEF Counts, ToneConstants
  <2>2. d.mix * (n - 1) \in Int /\ SampleRate * n \in Nat
    BY <2>1
  <2> QED BY <1>11, <2>1, <2>2 DEF SumAfter, ClockAfter
<1>13. u.sum \in Int /\ u.count \in Nat /\ u.clock \in Nat
  <2> DEFINE sum == SumAfter(d, n)
             clock == ClockAfter(d, n)
             count == d.count + n
  <2>1. /\ clock >= ClockRate => t.sum = 0 /\ t.count = 0 /\ t.clock = clock - ClockRate
        /\ ~(clock >= ClockRate) => t.sum = sum /\ t.count = count /\ t.clock = clock
    BY <1>4, Zenon DEF SampleAfter
  <2>2. sum \in Int /\ clock \in Nat /\ count \in Nat /\ ClockRate \in Nat
    BY <1>12 DEF ToneConstants
  <2> HIDE DEF sum, clock, count
  <2> QED BY <1>5, <2>1, <2>2
<1> QED
  BY <1>4, <1>5, <1>6, <1>7, <1>8, <1>9, <1>10, <1>11, <1>13 DEF Counts

\* The channels as ApuInit leaves them.
LEMMA PowerUpCounts == ASSUME ToneConstants PROVE Counts(PowerUp)
<1> DEFINE first == Min(NoisePeriods)
<1>1. first \in Nat \ {0}
  <2>1. NoisePeriods \in SUBSET Nat /\ NoisePeriods # {} /\ NoisePeriods \subseteq Nat \ {0}
    BY DEF ToneConstants
  <2>2. \E m \in NoisePeriods : \A k \in NoisePeriods : m <= k
    BY <2>1, Least, Zenon
  <2>3. first \in NoisePeriods
    BY <2>2, Zenon DEF Min
  <2> QED BY <2>1, <2>3, Zenon
<1>2. /\ PowerUp.noise.countdown = first /\ PowerUp.noise.period = first
      /\ PowerUp.noise.decay = 0 /\ PowerUp.noise.control.volume = 0
      /\ PowerUp.pulse.decay = 0 /\ PowerUp.pulse.control.volume = 0
      /\ PowerUp.pulse.countdown = 0 /\ PowerUp.pulse.duty = 0
      /\ PowerUp.tri.countdown = 0 /\ PowerUp.tri.period = 0 /\ PowerUp.tri.seq = 0
      /\ PowerUp.phase = 0 /\ PowerUp.mix = 0 /\ PowerUp.sum = 0 /\ PowerUp.count = 0
      /\ PowerUp.clock = 0
  <2> HIDE DEF first
  <2> QED BY DEF PowerUp, first
<1> HIDE DEF first
<1> QED
  BY <1>1, <1>2 DEF Counts, PulseCounts, TriangleCounts

\* The channels as a program starts them.
LEMMA ToneInitCounts == ASSUME ToneConstants, ToneInit PROVE Counts(tone)
<1>1. Fresh(PowerUp) /\ Counts(PowerUp)
  BY PowerUpCounts, PowerUpFresh
<1>2. ASSUME NEW p \in Periods, NEW load \in LengthLoads, NEW c \in Controls, NEW tri \in Linears
      PROVE  Counts(Updated(Started(PowerUp, p, load, c, tri)))
  <2> DEFINE a == Status(PowerUp, AllOn)
             b == PulseR3(PulseR0(a, c), p, load)
             d == TriangleR3(TriangleR0(b, tri), p, load)
             e == NoiseR3(NoiseR0(d, c), load)
  <2>0. p \in Nat
    BY DEF ToneConstants
  <2>1. Fresh(a) /\ Counts(a)
    BY <1>1, StatusFresh, RegisterCounts DEF Fresh, RegsOK
  <2> HIDE DEF a
  <2>2. Fresh(b) /\ Counts(b)
    <3>1. Fresh(PulseR0(a, c)) /\ Counts(PulseR0(a, c))
      BY <2>1, R0Fresh, RegisterCounts DEF Fresh, RegsOK
    <3> QED BY <2>0, <3>1, PulseR3Fresh, R3Counts DEF Fresh, RegsOK
  <2> HIDE DEF b
  <2>3. Fresh(d) /\ Counts(d)
    <3>1. Fresh(TriangleR0(b, tri)) /\ Counts(TriangleR0(b, tri))
      BY <2>2, R0Fresh, RegisterCounts DEF Fresh, RegsOK
    <3> QED BY <2>0, <3>1, R3Fresh, R3Counts DEF Fresh, RegsOK
  <2> HIDE DEF d
  <2>4. Fresh(e) /\ Counts(e)
    <3>1. Fresh(NoiseR0(d, c)) /\ Counts(NoiseR0(d, c))
      BY <2>3, R0Fresh, RegisterCounts DEF Fresh, RegsOK
    <3> QED BY <2>0, <3>1, R3Fresh, R3Counts DEF Fresh, RegsOK
  <2> HIDE DEF e
  <2>5. Counts(Updated(e))
    BY <2>4, UpdatedCounts DEF Fresh, RegsOK
  <2> QED
    BY <2>5 DEF Started, a, b, d, e
<1> QED
  BY <1>1, <1>2 DEF ToneInit

\* Every write of a register.
LEMMA ToneWriteCounts ==
  ASSUME ToneConstants, ToneInv, Counts(tone), ToneWrite
  PROVE  Counts(tone')
<1>1. Shaped(tone) /\ Fresh(tone)
  BY DEF ToneInv, ToneOK, Fresh, RegsOK
<1>2. ASSUME NEW s, Shaped(s), Counts(s), Write(s) PROVE Counts(tone')
  BY <1>2, UpdatedCounts DEF Write
<1>3. ASSUME NEW on \in Switches, Write(Status(tone, on)) PROVE Counts(tone')
  BY <1>1, <1>2, <1>3, StatusFresh, RegisterCounts DEF Fresh, RegsOK
<1>4. ASSUME NEW c \in Controls, Write(PulseR0(tone, c)) \/ Write(NoiseR0(tone, c))
      PROVE  Counts(tone')
  BY <1>1, <1>2, <1>4, R0Fresh, RegisterCounts DEF Fresh, RegsOK
<1>5. ASSUME NEW c \in Linears, Write(TriangleR0(tone, c)) PROVE Counts(tone')
  BY <1>1, <1>2, <1>5, R0Fresh, RegisterCounts DEF Fresh, RegsOK
<1>6. ASSUME NEW v \in Sweeps, Write(PulseR1(tone, v)) PROVE Counts(tone')
  BY <1>1, <1>2, <1>6, SweepWriteFresh, RegisterCounts DEF Fresh, RegsOK
<1>7. ASSUME NEW p \in Periods, Write(PulseR2(tone, p)) \/ Write(TriangleR2(tone, p))
      PROVE  Counts(tone')
  BY <1>1, <1>2, <1>7, SweepWriteFresh, PeriodFresh, RegisterCounts DEF Fresh, RegsOK
<1>8. ASSUME NEW p \in NoisePeriods, NEW mode \in BOOLEAN, Write(NoiseR2(tone, p, mode))
      PROVE  Counts(tone')
  BY <1>1, <1>2, <1>8, PeriodFresh, RegisterCounts DEF Fresh, RegsOK
<1>9. ASSUME NEW p \in Periods, NEW load \in LengthLoads,
             Write(PulseR3(tone, p, load)) \/ Write(TriangleR3(tone, p, load))
      PROVE  Counts(tone')
  <2>1. p \in Nat
    BY DEF ToneConstants
  <2> QED BY <1>1, <1>2, <1>9, <2>1, PulseR3Fresh, R3Fresh, R3Counts DEF Fresh, RegsOK
<1>10. ASSUME NEW load \in LengthLoads, Write(NoiseR3(tone, load)) PROVE Counts(tone')
  BY <1>1, <1>2, <1>10, R3Fresh, R3Counts DEF Fresh, RegsOK
<1> QED
  BY <1>3, <1>4, <1>5, <1>6, <1>7, <1>8, <1>9, <1>10, Zenon DEF ToneWrite

\* What the channels count with stays what they can count with.
THEOREM ToneCounts == ToneSpec => [](ToneInv /\ Counts(tone))
<1>1. ToneInit => Counts(tone)
  BY ToneConstants, ToneInitCounts
<1>2. ToneInv /\ Counts(tone) /\ [ToneNext]_toneVars => Counts(tone)'
  <2>1. ASSUME Counts(tone), NEW n, ToneTicks(n) PROVE Counts(tone')
    BY <2>1 DEF ToneTicks
  <2>2. ASSUME ToneInv, Counts(tone), NEW n \in StepLengths, ToneStep(n) PROVE Counts(tone')
    <3>1. PICK quarter \in BOOLEAN, half \in BOOLEAN :
            tone' = [Serve(tone, n) EXCEPT !.quarter = quarter, !.half = half]
      BY <2>2, Zenon DEF ToneStep
    <3>2. n \in Nat \ {0}
      BY <2>2 DEF StepLengths
    <3>3. Counts([Serve(tone, n) EXCEPT !.quarter = quarter, !.half = half])
      BY <2>2, <3>2, ToneConstants, ServeCounts DEF ToneInv
    <3> QED
      BY <3>1, <3>3, Zenon
  <2>3. ASSUME ToneInv, Counts(tone), ToneWrite PROVE Counts(tone')
    BY <2>3, ToneConstants, ToneWriteCounts
  <2>4. ASSUME Counts(tone), UNCHANGED toneVars PROVE Counts(tone')
    BY <2>4 DEF toneVars
  <2>5. Counts(tone)' <=> Counts(tone')
    BY DEF Counts, PulseCounts, TriangleCounts
  <2> QED
    BY <2>1, <2>2, <2>3, <2>4, <2>5 DEF ToneNext
<1> QED
  BY <1>1, <1>2, ToneInvariant, PTL DEF ToneSpec

\* A step to the next event leaves the channels as one cycle after the other would, for
\* every table, sequencer and rate, and for steps of any length (apu.c 450-532, 831-908).
THEOREM StepTheorem == SoundSpec => StepIsExact
<1>1. ASSUME ToneInv, Counts(tone), NEW n \in 1..todo, ToneStep(n), tone.mix = Mixed(tone)
      PROVE  tone' = [CycleByCycle(n) EXCEPT !.quarter = tone'.quarter, !.half = tone'.half]
  <2>1. Shaped(tone) /\ SweepOK(tone)
    BY <1>1 DEF ToneInv, ToneOK, Fresh, RegsOK
  <2>2. n \in StepLengths
    BY <1>1, Zenon DEF ToneStep
  <2>3. n \in Nat \ {0}
    OBVIOUS
  <2>4. ASSUME NEW k \in 1..(n - 1) PROVE Serve(Serve(tone, k), 1) = Serve(tone, k + 1)
    <3>1. ~Pending(tone)
      BY <2>2, <2>3 DEF StepLengths
    <3>2. /\ PulseSounds(tone) => n <= 2 * (tone.pulse.countdown + 1) - tone.phase
          /\ TriangleSounds(tone) => n <= tone.tri.countdown + 1
          /\ n <= 2 * tone.noise.countdown - tone.phase
          /\ n <= (ClockRate - tone.clock + SampleRate - 1) \div SampleRate
      BY <2>2, <3>1 DEF StepLengths
    <3>3. k \in Nat \ {0} /\ k + 1 <= n
      BY <2>3
    <3>4. NoEventBefore(tone, k + 1)
      <4> DEFINE x == 2 * (tone.pulse.countdown + 1) - tone.phase
                 y == tone.tri.countdown + 1
                 z == 2 * tone.noise.countdown - tone.phase
                 w == (ClockRate - tone.clock + SampleRate - 1) \div SampleRate
      <4>1. x \in Int /\ y \in Int /\ z \in Int /\ w \in Int
        BY <1>1, ToneConstants DEF Counts, PulseCounts, TriangleCounts, ToneConstants
      <4>2. \A e \in Int : n <= e => k + 1 <= e
        BY <2>3, <3>3
      <4> QED BY <3>2, <4>1, <4>2, Zenon DEF NoEventBefore
    <3> QED BY <1>1, <2>1, <3>1, <3>3, <3>4, ToneConstants, OneMore, Zenon
  <2>5. CycleByCycle(n) = Serve(tone, n)
    BY <2>3, <2>4, CycleByCycleIs
  <2>6. PICK quarter \in BOOLEAN, half \in BOOLEAN :
          tone' = [Serve(tone, n) EXCEPT !.quarter = quarter, !.half = half]
    BY <1>1, Zenon DEF ToneStep
  <2>7. "quarter" \in DOMAIN Serve(tone, n) /\ "half" \in DOMAIN Serve(tone, n)
    <3>1. ToneOK([Serve(tone, n) EXCEPT !.quarter = quarter, !.half = half])
      BY <1>1, ToneConstants, ServeOK DEF ToneInv
    <3> DEFINE t == Serve(tone, n)
    <3> HIDE DEF t
    <3>2. DOMAIN [t EXCEPT !.quarter = quarter, !.half = half] = DOMAIN t
      OBVIOUS
    <3> QED BY <3>1, <3>2 DEF ToneOK, Fresh, RegsOK, Shaped, t
  <2> DEFINE t == Serve(tone, n)
  <2>8. tone'.quarter = quarter /\ tone'.half = half
    <3>1. "quarter" \in DOMAIN t /\ "half" \in DOMAIN t
               /\ tone' = [t EXCEPT !.quarter = quarter, !.half = half]
      BY <2>6, <2>7
    <3> HIDE DEF t
    <3> QED BY <3>1
  <2> QED BY <2>5, <2>6, <2>8
<1>2. ToneInv /\ Counts(tone) =>
        [\A n \in 1..todo :
           ToneStep(n) /\ tone.mix = Mixed(tone) =>
             tone' = [CycleByCycle(n) EXCEPT !.quarter = tone'.quarter, !.half = tone'.half]]_toneVars
  BY <1>1, Zenon
<1> QED
  BY <1>2, ToneCounts, SoundImplementsTone, PTL DEF StepIsExact
=============================================================================
