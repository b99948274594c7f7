---------------------------- MODULE CpuInsn_proofs ---------------------------
(* Proofs about the instructions.  The arithmetic of CpuAlu is exact for       *)
(* bytes of any width and numbers of any length, the programs of CpuCore keep  *)
(* a chain of it exact through interrupts, whose returns go back to where      *)
(* they came from, and an instruction of CpuAccess costs its devices what the  *)
(* table says.                                                                 *)
EXTENDS CpuCore, CpuAccess, SequenceTheorems, TLAPS

\* The flags as the proofs use them: booleans under their names.
LEMMA FlagsFields ==
  ASSUME NEW p \in Flags
  PROVE  /\ p.c \in BOOLEAN /\ p.v \in BOOLEAN /\ p.n \in BOOLEAN /\ p.z \in BOOLEAN
         /\ Carry(p) \in {0, 1}
BY DEF Flags, Carry

\* What the width of a byte is.
LEMMA SizeFacts == Size \in Nat /\ Size > 1 /\ Size = 2 * Half /\ Half \in Nat /\ Half > 0
BY HalfAssumption DEF Size

\* A sum of two bytes and a carry is a byte and a carry.
LEMMA SumOfBytes ==
  ASSUME NEW sum \in 0..(2 * Size - 1)
  PROVE  /\ sum % Size \in Byte
         /\ sum >= Size => sum % Size = sum - Size
         /\ sum < Size => sum % Size = sum
<1>. sum \in Int /\ sum >= 0 /\ sum < 2 * Size
  BY SizeFacts
<1>1. CASE sum < Size
  BY <1>1, SizeFacts DEF Byte
<1>2. CASE sum >= Size
  <2>1. (sum - Size) % Size = sum - Size
    BY <1>2, SizeFacts
  <2>2. sum % Size = (sum - Size) % Size
    BY <1>2, SizeFacts
  <2>. QED BY <1>2, <2>1, <2>2, SizeFacts DEF Byte
<1>. QED BY <1>1, <1>2, SizeFacts

\* What ADC computes: the byte and the carry make up the exact sum.
LEMMA AdcSum ==
  ASSUME NEW a \in Byte, NEW val \in Byte, NEW p \in Flags
  PROVE  /\ adc_base(a, val, p).val \in Byte
         /\ adc_base(a, val, p).val + Carry(adc_base(a, val, p).p) * Size = a + val + Carry(p)
<1> DEFINE sum == a + val + Carry(p)
<1> DEFINE res == adc_base(a, val, p)
<1>1. sum \in 0..(2 * Size - 1)
  BY FlagsFields, SizeFacts DEF Byte
<1>2. res.val = sum % Size
  BY DEF adc_base, Result
<1>3. res.p.c = (sum >= Size)
  BY DEF adc_base, Result, UpdateNZ, Flags
<1>4. Carry(res.p) = IF sum >= Size THEN 1 ELSE 0
  BY <1>3 DEF Carry
<1> HIDE DEF sum, res
<1>5. res.val \in Byte /\ res.val + Carry(res.p) * Size = sum
  BY <1>1, <1>2, <1>4, SumOfBytes, SizeFacts DEF Byte
<1>. QED BY <1>5 DEF sum, res

\* What SBC computes: the byte and the borrow make up the exact difference.
LEMMA SbcSum ==
  ASSUME NEW a \in Byte, NEW val \in Byte, NEW p \in Flags
  PROVE  /\ sbc_base(a, val, p).val \in Byte
         /\ sbc_base(a, val, p).val + Carry(sbc_base(a, val, p).p) * Size
              = a - val + Carry(p) + Size - 1
<1>1. Flip(val) \in Byte /\ Flip(val) = Size - 1 - val
  BY SizeFacts DEF Flip, Byte
<1>2. sbc_base(a, val, p) = adc_base(a, Flip(val), p)
  BY DEF sbc_base
<1>. HIDE DEF Flip
<1>3. /\ adc_base(a, Flip(val), p).val \in Byte
      /\ adc_base(a, Flip(val), p).val + Carry(adc_base(a, Flip(val), p).p) * Size
           = a + Flip(val) + Carry(p)
  BY <1>1, AdcSum
<1>4. a + Flip(val) + Carry(p) = a - val + Carry(p) + Size - 1
  BY <1>1, SizeFacts, FlagsFields DEF Byte
<1>. QED BY <1>2, <1>3, <1>4

-----------------------------------------------------------------------------
(* Chains. *)

\* A byte put on top of a number that is shorter than the weight.
LEMMA OnTop ==
  ASSUME NEW w \in Nat \ {0}, NEW x \in Nat, x < w, NEW b \in Byte
  PROVE  x + b * w \in Nat /\ x + b * w < w * Size
<1>1. b \in Int /\ 0 <= b /\ b + 1 <= Size
  BY SizeFacts DEF Byte
<1>2. b * w \in Int /\ 0 <= b * w
  BY <1>1
<1>3. (b + 1) * w <= Size * w
  BY <1>1, SizeFacts
<1>4. (b + 1) * w = b * w + w
  BY <1>1
<1>5. Size * w = w * Size
  BY SizeFacts
<1>. QED BY <1>1, <1>2, <1>3, <1>4, <1>5, SizeFacts

\* The type of a chain and its numbers survive one more byte from below.
Grows(ch, a, val, res, new) ==
  /\ new \in Chains /\ Fits(new) /\ new.kind = ch.kind
  /\ new.x = ch.x + a * ch.weight /\ new.y = ch.y + val * ch.weight
  /\ new.r = ch.r + res * ch.weight /\ new.weight = ch.weight * Size

LEMMA ExtendGrows ==
  ASSUME NEW ch \in Chains, Fits(ch), NEW a \in Byte, NEW val \in Byte, NEW res \in Byte,
         NEW signed \in BOOLEAN
  PROVE  Grows(ch, a, val, res, Extend(ch, a, val, res, signed))
<1> DEFINE new == Extend(ch, a, val, res, signed)
<1>1. /\ ch.x \in Nat /\ ch.y \in Nat /\ ch.r \in Nat /\ ch.weight \in Nat \ {0}
      /\ ch.x < ch.weight /\ ch.y < ch.weight /\ ch.r < ch.weight
  BY DEF Chains, Fits
<1>2. /\ new.kind = ch.kind
      /\ new.x = ch.x + a * ch.weight /\ new.y = ch.y + val * ch.weight
      /\ new.r = ch.r + res * ch.weight /\ new.weight = ch.weight * Size
  BY DEF Extend, Chains
<1>3. /\ new.x \in Nat /\ new.x < new.weight
      /\ new.y \in Nat /\ new.y < new.weight
      /\ new.r \in Nat /\ new.r < new.weight
  BY <1>1, <1>2, OnTop
<1>4. new.weight \in Nat \ {0}
  BY <1>1, <1>2, <1>3, SizeFacts
<1>5. /\ ch.x + a * ch.weight \in Nat /\ ch.y + val * ch.weight \in Nat
      /\ ch.r + res * ch.weight \in Nat /\ ch.weight * Size \in Nat \ {0}
  BY <1>2, <1>3, <1>4, Zenon
<1>6. new \in Chains
  BY <1>5, Zenon DEF Extend, Chains
<1>7. Fits(new)
  BY <1>3 DEF Fits
<1>. QED BY <1>2, <1>6, <1>7, Zenon DEF Grows

\* The carry as a number (CFLAG_MASK is bit 0).
LEMMA CarryFacts ==
  ASSUME NEW p \in Flags PROVE Carry(p) \in {0, 1} /\ Carry(p) \in Int
BY FlagsFields

\* The flags an addition leaves are flags.
LEMMA AdcFlags ==
  ASSUME NEW a \in Byte, NEW val \in Byte, NEW p \in Flags
  PROVE  adc_base(a, val, p).p \in Flags
<1> DEFINE sum == a + val + Carry(p)
<1> DEFINE add == sum % Size
<1> DEFINE q == [p EXCEPT !.v = Overflow(a, val, add), !.c = sum >= Size]
<1>1. Overflow(a, val, add) \in BOOLEAN /\ (sum >= Size) \in BOOLEAN /\ Neg(add) \in BOOLEAN
      /\ (add = 0) \in BOOLEAN
  <2>1. Neg(a) \in BOOLEAN /\ Neg(val) \in BOOLEAN /\ Neg(add) \in BOOLEAN
        /\ (sum >= Size) \in BOOLEAN /\ (add = 0) \in BOOLEAN
    BY SMT DEF Neg
  <2>2. Overflow(a, val, add) \in BOOLEAN
    BY Zenon DEF Overflow
  <2>. QED BY <2>1, <2>2, Zenon
<1>2. adc_base(a, val, p).p = UpdateNZ(q, add)
  BY DEF adc_base, Result
<1>3. q \in Flags
  BY <1>1, Zenon DEF Flags
<1>. QED BY <1>1, <1>2, <1>3, Zenon DEF Flags, UpdateNZ

\* The fields of a chain.
LEMMA ChainFields ==
  ASSUME NEW ch \in Chains, Fits(ch)
  PROVE  /\ ch.x \in Nat /\ ch.y \in Nat /\ ch.r \in Nat /\ ch.weight \in Nat \ {0}
         /\ ch.x < ch.weight /\ ch.y < ch.weight /\ ch.r < ch.weight
  BY DEF Chains, Fits

\* A carry into one byte and out of it: bytes that are exact with the carry
\* between them make a number that is exact with the last carry.
Carried(w, r, c, n, v, c2, m) ==
  r + c * w = n /\ v + c2 * Size = m + c => (r + v * w) + c2 * (w * Size) = n + m * w

\* Exactness is carried from byte to byte, whatever the bytes.
LEMMA CarriedAlways ==
  ASSUME NEW w \in Nat, NEW r \in Int, NEW c \in Int, NEW n \in Int,
         NEW v \in Int, NEW c2 \in Int, NEW m \in Int
  PROVE  Carried(w, r, c, n, v, c2, m)
<1>. SUFFICES ASSUME r + c * w = n, v + c2 * Size = m + c
              PROVE  (r + v * w) + c2 * (w * Size) = n + m * w
  BY DEF Carried
<1> DEFINE k == c2 * Size
<1>0. k \in Int /\ Size \in Int
  BY SizeFacts
<1>1. c2 * (w * Size) = k * w
  BY <1>0
<1> HIDE DEF k
<1>2. v + k = m + c
  BY DEF k
<1>3. v * w + k * w = m * w + c * w
  <2>1. (v + k) * w = v * w + k * w
    BY <1>0
  <2>2. (m + c) * w = m * w + c * w
    OBVIOUS
  <2>. QED BY <1>2, <2>1, <2>2
<1> DEFINE vw == v * w
<1> DEFINE kw == k * w
<1> DEFINE mw == m * w
<1> DEFINE cw == c * w
<1>4. vw \in Int /\ kw \in Int /\ mw \in Int /\ cw \in Int
  BY <1>0
<1>5. vw + kw = mw + cw /\ r + cw = n
  BY <1>3
<1> HIDE DEF vw, kw, mw, cw
<1>6. (r + vw) + kw = n + mw
  BY <1>4, <1>5
<1>. QED BY <1>1, <1>6 DEF vw, kw, mw

\* What the operands of one more byte add to the numbers.
Added(w, x, y, a, b) == (x + y) + (a + b) * w = (x + a * w) + (y + b * w)
Subtracted(w, x, y, a, b) ==
  (x - y + w) + (a - b + Size - 1) * w = (x + a * w) - (y + b * w) + w * Size

\* The operands' part of the sum and of the difference.
LEMMA Products ==
  ASSUME NEW w \in Nat, NEW x \in Int, NEW y \in Int, NEW a \in Int, NEW b \in Int
  PROVE  Added(w, x, y, a, b) /\ Subtracted(w, x, y, a, b)
<1>1. (a + b) * w = a * w + b * w
  OBVIOUS
<1>2. (a - b + Size - 1) * w = a * w - b * w + w * Size - w
  BY SizeFacts
<1> DEFINE aw == a * w
<1> DEFINE bw == b * w
<1> DEFINE sw == w * Size
<1>3. aw \in Int /\ bw \in Int /\ sw \in Int
  BY SizeFacts
<1> HIDE DEF aw, bw, sw
<1>4. (x + y) + (aw + bw) = (x + aw) + (y + bw)
  BY <1>3
<1>5. (x - y + w) + (aw - bw + sw - w) = (x + aw) - (y + bw) + sw
  BY <1>3
<1>6. Added(w, x, y, a, b)
  BY <1>1, <1>4, Zenon DEF aw, bw, Added
<1>7. Subtracted(w, x, y, a, b)
  BY <1>2, <1>5, Zenon DEF aw, bw, sw, Subtracted
<1>. QED BY <1>6, <1>7

\* A program that clears the carry and adds two numbers byte by byte with ADC
\* has the exact sum in the bytes and the carry after every byte, for every
\* width of a byte and every length (adc_base).
THEOREM AddExact ==
  ASSUME NEW ch \in Chains, Fits(ch), ch.kind = "add", NEW p \in Flags, WideExact(ch, p),
         NEW a \in Byte, NEW val \in Byte
  PROVE  LET res == adc_base(a, val, p)
             new == Extend(ch, a, val, res.val, TRUE)
         IN new \in Chains /\ Fits(new) /\ WideExact(new, res.p)
<1> DEFINE res == adc_base(a, val, p)
<1> DEFINE new == Extend(ch, a, val, res.val, TRUE)
<1>1. res.val \in Byte /\ res.val + Carry(res.p) * Size = a + val + Carry(p)
  BY AdcSum
<1>2. res.p \in Flags
  BY AdcFlags
<1> HIDE DEF res
<1>3. Grows(ch, a, val, res.val, new)
  BY <1>1, ExtendGrows
<1> HIDE DEF new
<1>4. ch.r + Carry(p) * ch.weight = ch.x + ch.y
  BY DEF WideExact
<1>5. /\ ch.x \in Int /\ ch.y \in Int /\ ch.r \in Int /\ ch.weight \in Nat
      /\ Carry(p) \in Int /\ Carry(res.p) \in Int
      /\ a \in Int /\ val \in Int /\ res.val \in Int
      /\ ch.x + ch.y \in Int /\ a + val \in Int
  BY <1>1, <1>2, ChainFields, CarryFacts, SizeFacts DEF Byte
<1>6. Carried(ch.weight, ch.r, Carry(p), ch.x + ch.y, res.val, Carry(res.p), a + val)
  BY <1>5, CarriedAlways
<1>7. Added(ch.weight, ch.x, ch.y, a, val)
  BY <1>5, Products
<1>8. new.r + Carry(res.p) * new.weight = new.x + new.y
  BY <1>1, <1>3, <1>4, <1>6, <1>7, Zenon DEF Carried, Added, Grows
<1>9. WideExact(new, res.p)
  BY <1>3, <1>8 DEF WideExact, Grows
<1>. QED BY <1>3, <1>9 DEF res, new, Grows

\* A program that sets the carry and subtracts byte by byte with SBC has the
\* exact difference in the bytes, with the carry clear when it owes a borrow
\* (sbc_base).
THEOREM SubExact ==
  ASSUME NEW ch \in Chains, Fits(ch), ch.kind = "sub", NEW p \in Flags, WideExact(ch, p),
         NEW a \in Byte, NEW val \in Byte
  PROVE  LET res == sbc_base(a, val, p)
             new == Extend(ch, a, val, res.val, TRUE)
         IN new \in Chains /\ Fits(new) /\ WideExact(new, res.p)
<1> DEFINE res == sbc_base(a, val, p)
<1> DEFINE new == Extend(ch, a, val, res.val, TRUE)
<1>1. res.val \in Byte /\ res.val + Carry(res.p) * Size = a - val + Carry(p) + Size - 1
  BY SbcSum
<1>2. res.p \in Flags
  <2>1. Flip(val) \in Byte
    BY SizeFacts DEF Flip, Byte
  <2>. QED BY <2>1, AdcFlags DEF sbc_base
<1> HIDE DEF res
<1>3. Grows(ch, a, val, res.val, new)
  BY <1>1, ExtendGrows
<1> HIDE DEF new
<1>4. ch.r + Carry(p) * ch.weight = ch.x - ch.y + ch.weight
  BY DEF WideExact
<1>5. /\ ch.x \in Int /\ ch.y \in Int /\ ch.r \in Int /\ ch.weight \in Nat
      /\ Carry(p) \in Int /\ Carry(res.p) \in Int
      /\ a \in Int /\ val \in Int /\ res.val \in Int /\ Size \in Int
      /\ ch.x - ch.y + ch.weight \in Int /\ a - val + Size - 1 \in Int
  BY <1>1, <1>2, ChainFields, CarryFacts, SizeFacts DEF Byte
<1>6. Carried(ch.weight, ch.r, Carry(p), ch.x - ch.y + ch.weight, res.val, Carry(res.p),
              a - val + Size - 1)
  BY <1>5, CarriedAlways
<1>7. Subtracted(ch.weight, ch.x, ch.y, a, val)
  BY <1>5, Products
<1>8. res.val + Carry(res.p) * Size = (a - val + Size - 1) + Carry(p)
  BY <1>1, <1>5
<1>9. new.r + Carry(res.p) * new.weight = new.x - new.y + new.weight
  BY <1>3, <1>4, <1>6, <1>7, <1>8, Zenon DEF Carried, Subtracted, Grows
<1>10. WideExact(new, res.p)
  BY <1>3, <1>9 DEF WideExact, Grows
<1>. QED BY <1>3, <1>10 DEF res, new, Grows

-----------------------------------------------------------------------------
(* The overflow flag. *)

\* The sign of a number is the sign of its top byte.
TopSign(w, x, b) == 2 * (x + b * w) >= w * Size <=> Neg(b)

\* The N flag of the top byte (NFLAG_CHECK) is the sign of the number.
LEMMA TopSignAlways ==
  ASSUME NEW w \in Nat \ {0}, NEW x \in Nat, x < w, NEW b \in Byte
  PROVE  TopSign(w, x, b)
<1>1. b \in Int /\ Half \in Int /\ Half > 0 /\ w * Size = 2 * (Half * w)
  BY SizeFacts DEF Byte
<1> DEFINE bw == b * w
<1> DEFINE hw == Half * w
<1>2. bw \in Int /\ hw \in Int
  BY <1>1
<1>3. CASE b >= Half
  <2>1. b * w >= Half * w
    BY <1>1, <1>3
  <2>2. bw >= hw
    BY <2>1
  <2> HIDE DEF bw, hw
  <2>3. 2 * (x + bw) >= 2 * hw
    BY <1>2, <2>2
  <2>. QED BY <1>1, <1>3, <2>3 DEF TopSign, Neg, bw, hw
<1>4. CASE b < Half
  <2>1. (b + 1) * w <= Half * w /\ (b + 1) * w = b * w + w
    BY <1>1, <1>4
  <2>2. bw + w <= hw
    BY <2>1
  <2> HIDE DEF bw, hw
  <2>3. ~(2 * (x + bw) >= 2 * hw)
    BY <1>2, <2>2
  <2>. QED BY <1>1, <1>4, <2>3 DEF TopSign, Neg, bw, hw
<1>. QED BY <1>1, <1>3, <1>4

\* Two signed numbers of the same sign overflow when the sign of the result is
\* another, and numbers of different signs never do.
Sign(n, weight) == 2 * n >= weight
SumOverflows(x, y, r, weight) ==
  (Sign(x, weight) <=> Sign(y, weight)) /\ (Sign(x, weight) <=> ~Sign(r, weight))
DifferenceOverflows(x, y, r, weight) ==
  (Sign(x, weight) <=> ~Sign(y, weight)) /\ (Sign(x, weight) <=> ~Sign(r, weight))

\* When the sum of two signed numbers does not fit, by the three signs alone.
LEMMA SignedSum ==
  ASSUME NEW weight \in Nat \ {0}, NEW x \in Nat, NEW y \in Nat, NEW r \in Nat,
         x < weight, y < weight, r < weight, NEW c \in {0, 1}, r + c * weight = x + y
  PROVE  ~Fitting(Signed(x, weight) + Signed(y, weight), weight)
           <=> SumOverflows(x, y, r, weight)
<1>1. r = x + y \/ r + weight = x + y
  BY Z3
<1>. QED BY <1>1 DEF Fitting, Signed, SumOverflows, Sign

\* The same of their difference.
LEMMA SignedDifference ==
  ASSUME NEW weight \in Nat \ {0}, NEW x \in Nat, NEW y \in Nat, NEW r \in Nat,
         x < weight, y < weight, r < weight, NEW c \in {0, 1},
         r + c * weight = x - y + weight
  PROVE  ~Fitting(Signed(x, weight) - Signed(y, weight), weight)
           <=> DifferenceOverflows(x, y, r, weight)
<1>1. r = x - y + weight \/ r = x - y
  BY Z3
<1>. QED BY <1>1 DEF Fitting, Signed, DifferenceOverflows, Sign

\* ADC takes V from VFLAG_CPU_CHECK.
LEMMA AdcOverflow ==
  ASSUME NEW a \in Byte, NEW val \in Byte, NEW p \in Flags
  PROVE  adc_base(a, val, p).p.v <=> Overflow(a, val, adc_base(a, val, p).val)
  BY DEF adc_base, Result, UpdateNZ, Flags

\* After ADC or SBC the chain has a meaning as signed.
LEMMA ExtendSigned ==
  ASSUME NEW ch \in Chains, NEW a, NEW val, NEW res
  PROVE  Extend(ch, a, val, res, TRUE).signed
  BY DEF Extend, Chains

\* After every ADC of such an addition the overflow flag says whether the two
\* numbers, taken as signed, have a sum that fits (adc_base, VFLAG_CPU_CHECK).
THEOREM AddSigned ==
  ASSUME NEW ch \in Chains, Fits(ch), ch.kind = "add", NEW p \in Flags, WideExact(ch, p),
         NEW a \in Byte, NEW val \in Byte
  PROVE  LET res == adc_base(a, val, p)
         IN SignedExact(Extend(ch, a, val, res.val, TRUE), res.p)
<1> DEFINE res == adc_base(a, val, p)
<1> DEFINE new == Extend(ch, a, val, res.val, TRUE)
<1>1. new \in Chains /\ Fits(new) /\ WideExact(new, res.p)
  BY AddExact
<1>2. res.val \in Byte /\ res.p \in Flags /\ (res.p.v <=> Overflow(a, val, res.val))
  BY AdcSum, AdcFlags, AdcOverflow
<1> HIDE DEF res
<1>3. Grows(ch, a, val, res.val, new)
  BY <1>2, ExtendGrows
<1>4. new.signed
  BY ExtendSigned
<1> HIDE DEF new
<1>5. /\ ch.x \in Nat /\ ch.y \in Nat /\ ch.r \in Nat /\ ch.weight \in Nat \ {0}
      /\ ch.x < ch.weight /\ ch.y < ch.weight /\ ch.r < ch.weight
  BY ChainFields
<1>6. TopSign(ch.weight, ch.x, a) /\ TopSign(ch.weight, ch.y, val) /\ TopSign(ch.weight, ch.r, res.val)
  BY <1>2, <1>5, TopSignAlways
<1>7. /\ Sign(new.x, new.weight) <=> Neg(a)
      /\ Sign(new.y, new.weight) <=> Neg(val)
      /\ Sign(new.r, new.weight) <=> Neg(res.val)
  BY <1>3, <1>6, Zenon DEF Sign, TopSign, Grows
<1>8. /\ new.x \in Nat /\ new.y \in Nat /\ new.r \in Nat /\ new.weight \in Nat \ {0}
      /\ new.x < new.weight /\ new.y < new.weight /\ new.r < new.weight
      /\ Carry(res.p) \in {0, 1}
      /\ new.r + Carry(res.p) * new.weight = new.x + new.y
  BY <1>1, <1>2, <1>3, ChainFields, CarryFacts DEF WideExact, Grows
<1>9. ~Fitting(Signed(new.x, new.weight) + Signed(new.y, new.weight), new.weight)
        <=> SumOverflows(new.x, new.y, new.r, new.weight)
  BY <1>8, SignedSum
<1>10. SumOverflows(new.x, new.y, new.r, new.weight) <=> res.p.v
  BY <1>2, <1>7, Zenon DEF SumOverflows, Overflow
<1>11. new.kind = "add"
  BY <1>3 DEF Grows
<1>12. SignedExact(new, res.p)
  BY <1>9, <1>10, <1>11 DEF SignedExact
<1>. QED BY <1>12 DEF new, res

\* The same of a subtraction (sbc_base).
THEOREM SubSigned ==
  ASSUME NEW ch \in Chains, Fits(ch), ch.kind = "sub", NEW p \in Flags, WideExact(ch, p),
         NEW a \in Byte, NEW val \in Byte
  PROVE  LET res == sbc_base(a, val, p)
         IN SignedExact(Extend(ch, a, val, res.val, TRUE), res.p)
<1> DEFINE res == sbc_base(a, val, p)
<1> DEFINE new == Extend(ch, a, val, res.val, TRUE)
<1>1. new \in Chains /\ Fits(new) /\ WideExact(new, res.p)
  BY SubExact
<1>0. Flip(val) \in Byte /\ (Neg(Flip(val)) <=> ~Neg(val))
  BY SizeFacts DEF Flip, Byte, Neg
<1>2. res.val \in Byte /\ res.p \in Flags /\ (res.p.v <=> Overflow(a, Flip(val), res.val))
  BY <1>0, SbcSum, AdcFlags, AdcOverflow DEF sbc_base
<1> HIDE DEF res
<1>3. Grows(ch, a, val, res.val, new)
  BY <1>2, ExtendGrows
<1>4. new.signed
  BY ExtendSigned
<1> HIDE DEF new
<1>5. /\ ch.x \in Nat /\ ch.y \in Nat /\ ch.r \in Nat /\ ch.weight \in Nat \ {0}
      /\ ch.x < ch.weight /\ ch.y < ch.weight /\ ch.r < ch.weight
  BY ChainFields
<1>6. TopSign(ch.weight, ch.x, a) /\ TopSign(ch.weight, ch.y, val) /\ TopSign(ch.weight, ch.r, res.val)
  BY <1>2, <1>5, TopSignAlways
<1>7. /\ Sign(new.x, new.weight) <=> Neg(a)
      /\ Sign(new.y, new.weight) <=> Neg(val)
      /\ Sign(new.r, new.weight) <=> Neg(res.val)
  BY <1>3, <1>6, Zenon DEF Sign, TopSign, Grows
<1>8. /\ new.x \in Nat /\ new.y \in Nat /\ new.r \in Nat /\ new.weight \in Nat \ {0}
      /\ new.x < new.weight /\ new.y < new.weight /\ new.r < new.weight
      /\ Carry(res.p) \in {0, 1}
      /\ new.r + Carry(res.p) * new.weight = new.x - new.y + new.weight
  BY <1>1, <1>2, <1>3, ChainFields, CarryFacts DEF WideExact, Grows
<1>9. ~Fitting(Signed(new.x, new.weight) - Signed(new.y, new.weight), new.weight)
        <=> DifferenceOverflows(new.x, new.y, new.r, new.weight)
  BY <1>8, SignedDifference
<1>10. DifferenceOverflows(new.x, new.y, new.r, new.weight) <=> res.p.v
  BY <1>0, <1>2, <1>7, Zenon DEF DifferenceOverflows, Overflow
<1>11. new.kind = "sub"
  BY <1>3 DEF Grows
<1>12. SignedExact(new, res.p)
  BY <1>9, <1>10, <1>11 DEF SignedExact
<1>. QED BY <1>12 DEF new, res

\* A comparison orders the two bytes: it sets the carry if and only if the register is
\* not the smaller one, and the zero flag if and only if they are equal.  It is also the
\* lowest byte of a subtraction: SBCs of the higher bytes may follow a CMP (cpn_base).
THEOREM CompareExact ==
  ASSUME NEW n \in Byte, NEW val \in Byte, NEW p \in Flags
  PROVE  LET res == cpn_base(val, n, p)
         IN /\ res.p.c <=> n >= val
            /\ res.p.z <=> n = val
            /\ WideExact(Extend(Begin("sub"), n, val, res.val, FALSE), res.p)
<1> DEFINE res == cpn_base(val, n, p)
<1> DEFINE new == Extend(Begin("sub"), n, val, res.val, FALSE)
<1>0. n \in 0..(Size - 1) /\ val \in 0..(Size - 1) /\ Size \in Nat /\ Size > 1
  BY SizeFacts DEF Byte
<1>1. res.val = (n - val) % Size
  BY DEF cpn_base, Result
<1>2. res.p.c <=> n >= val
  BY DEF cpn_base, Result, UpdateNZ, Flags
<1>3. Carry(res.p) = IF n >= val THEN 1 ELSE 0
  BY <1>2 DEF Carry
<1>4. n >= val => (n - val) % Size = n - val
  BY <1>0
<1>5. n < val => (n - val) % Size = n - val + Size
  <2>. HAVE n < val
  <2>1. (n - val + Size) % Size = n - val + Size
    BY <1>0
  <2>. QED BY <1>0, <2>1
<1>6. /\ new.kind = "sub" /\ new.x = 0 + n * 1 /\ new.y = 0 + val * 1
      /\ new.r = 0 + res.val * 1 /\ new.weight = 1 * Size
  BY DEF Extend, Begin, NoChain
<1> HIDE DEF new, res
<1>7. res.val + Carry(res.p) * Size = n - val + Size
  BY <1>0, <1>1, <1>3, <1>4, <1>5
<1>8. new.x = n /\ new.y = val /\ new.r = res.val /\ new.weight = Size
  BY <1>0, <1>1, <1>4, <1>5, <1>6
<1>9. WideExact(new, res.p)
  BY <1>6, <1>7, <1>8 DEF WideExact
<1>10. res.p.z <=> res.val = 0
  BY DEF res, cpn_base, Result, UpdateNZ, Flags
<1>11. res.p.z <=> n = val
  BY <1>0, <1>1, <1>4, <1>5, <1>10
<1>. QED BY <1>2, <1>9, <1>11 DEF new, res

-----------------------------------------------------------------------------
(* The invariant of CpuCore. *)

Registers == [pc : Addr, a : Byte, x : Byte, y : Byte, s : Byte, p : Flags]
CellValues == [byte : Byte] \cup [flags : Flags]
Frames == [kind : {"jsr", "interrupt"}, resume : Addr, s : Byte, p : Flags, chain : Chains]

\* B is never set in the register, U always is.
ProgramFlags == {p \in Flags : ~p.b /\ p.u}

\* A chain that the flags p are right about.
ChainOK(ch, p) == ch \in Chains /\ Fits(ch) /\ WideExact(ch, p) /\ SignedExact(ch, p)

\* What a call or an interrupt pushed as the address to return to.
Pushed(f) == IF f.kind = "jsr" THEN (f.resume - 1) % (Size * Size) ELSE f.resume

RegistersOK == reg \in Registers /\ reg.p \in ProgramFlags
CellsOK == ram \in [Cells -> CellValues] /\ ram[DataByte] \in [byte : Byte]

\* The frame is above S, its cells are what was pushed, and what an RTI would bring
\* back, the flags and the chain that the interrupt cut, fit together.
FrameOK(f) ==
  /\ f \in Frames /\ f.p \in ProgramFlags
  /\ reg.s <= f.s - Held(f)
  /\ ram[f.s] = [byte |-> Pushed(f) \div Size] /\ ram[f.s - 1] = [byte |-> Pushed(f) % Size]
  /\ f.kind = "interrupt" => ram[f.s - 2] = [flags |-> f.p]
  /\ ChainOK(f.chain, f.p)

CoreInv ==
  /\ rom \in Roms /\ RegistersOK /\ CellsOK
  /\ ChainOK(chain, reg.p)
  /\ \A f \in calls : FrameOK(f)

\* A flag that is set or cleared, and the flags that follow a byte.
LEMMA FlagSet ==
  ASSUME NEW p \in ProgramFlags, NEW c \in BOOLEAN
  PROVE  /\ [p EXCEPT !.c = c] \in ProgramFlags /\ [p EXCEPT !.c = c].c = c
         /\ [p EXCEPT !.c = c].v = p.v
         /\ [p EXCEPT !.v = c] \in ProgramFlags /\ [p EXCEPT !.v = c].c = p.c
         /\ \A q \in {[p EXCEPT !.i = c], [p EXCEPT !.d = c]} :
              q \in ProgramFlags /\ q.c = p.c /\ q.v = p.v
BY DEF ProgramFlags, Flags

LEMMA FlagsFollow ==
  ASSUME NEW p \in ProgramFlags, NEW val \in Int
  PROVE  /\ UpdateNZ(p, val) \in ProgramFlags
         /\ UpdateNZ(p, val).c = p.c /\ UpdateNZ(p, val).v = p.v
<1> DEFINE n == Neg(val)
<1> DEFINE z == (val = 0)
<1>1. n \in BOOLEAN /\ z \in BOOLEAN
  BY SizeFacts DEF Neg
<1>2. UpdateNZ(p, val) = [p EXCEPT !.n = n, !.z = z]
  BY Zenon DEF UpdateNZ
<1> HIDE DEF n, z
<1>3. [p EXCEPT !.n = n, !.z = z] \in ProgramFlags
      /\ [p EXCEPT !.n = n, !.z = z].c = p.c /\ [p EXCEPT !.n = n, !.z = z].v = p.v
  BY <1>1 DEF ProgramFlags, Flags
<1>. QED BY <1>2, <1>3

\* A result with its carry: what the shifts, comparisons and additions leave.
LEMMA ResultWithCarry ==
  ASSUME NEW p \in ProgramFlags, NEW c \in BOOLEAN, NEW val \in Int
  PROVE  LET res == Result(val, [p EXCEPT !.c = c])
         IN  res.val = val /\ res.p \in ProgramFlags /\ res.p.c = c /\ res.p.v = p.v
<1> DEFINE q == [p EXCEPT !.c = c]
<1>1. q \in ProgramFlags /\ q.c = c /\ q.v = p.v
  BY DEF ProgramFlags, Flags
<1>2. Result(val, q).val = val /\ Result(val, q).p = UpdateNZ(q, val)
  BY DEF Result
<1> HIDE DEF q
<1>3. UpdateNZ(q, val) \in ProgramFlags /\ UpdateNZ(q, val).c = q.c /\ UpdateNZ(q, val).v = q.v
  BY <1>1, FlagsFollow
<1>4. Result(val, q).val = val /\ Result(val, q).p \in ProgramFlags
      /\ Result(val, q).p.c = c /\ Result(val, q).p.v = p.v
  BY <1>1, <1>2, <1>3, Zenon
<1>. QED BY <1>4, Zenon DEF q

-----------------------------------------------------------------------------
(* The shifts, and what they add to a chain. *)

\* A left shift by one: the bit in and the bit out make up the double.
LEMMA LeftShift ==
  ASSUME NEW v \in Byte, NEW c \in {0, 1}
  PROVE  /\ ((2 * v) % Size) + c \in Byte
         /\ (((2 * v) % Size) + c) + (IF Neg(v) THEN 1 ELSE 0) * Size = 2 * v + c
<1>1. v \in Int /\ 0 <= v /\ v < Size /\ Size = 2 * Half /\ Half \in Int /\ Half > 0 /\ Size \in Int
  BY SizeFacts DEF Byte
<1>2. CASE Neg(v)
  <2>1. v >= Half
    BY <1>2 DEF Neg
  <2>2. (2 * v) % Size = 2 * v - Size
    <3>1. (2 * v) \in 0..(2 * Size - 1) /\ 2 * v >= Size
      BY <1>1, <2>1
    <3>. QED BY <3>1, SumOfBytes
  <2>. QED BY <1>1, <1>2, <2>1, <2>2 DEF Byte
<1>3. CASE ~Neg(v)
  <2>1. v < Half
    BY <1>1, <1>3 DEF Neg
  <2>2. (2 * v) % Size = 2 * v
    <3>1. (2 * v) \in 0..(2 * Size - 1) /\ 2 * v < Size
      BY <1>1, <2>1
    <3>. QED BY <3>1, SumOfBytes
  <2>3. (IF Neg(v) THEN 1 ELSE 0) * Size = 0
    BY <1>1, <1>3
  <2>4. 2 * v + c \in Byte
    BY <1>1, <2>1 DEF Byte
  <2>. QED BY <1>1, <2>2, <2>3, <2>4
<1>. QED BY <1>2, <1>3

\* A right shift by one.
LEMMA RightShift ==
  ASSUME NEW v \in Byte, NEW c \in {0, 1}
  PROVE  /\ (v \div 2) + (c * Half) \in Byte
         /\ 2 * ((v \div 2) + (c * Half)) + (IF v % 2 = 1 THEN 1 ELSE 0) = v + c * Size
<1>1. v \in Int /\ 0 <= v /\ v < Size /\ Size = 2 * Half /\ Half \in Int /\ Half > 0 /\ Size \in Int
  BY SizeFacts DEF Byte
<1>2. v = 2 * (v \div 2) + (v % 2) /\ v % 2 \in {0, 1} /\ (v \div 2) \in Int
  BY <1>1
<1> DEFINE h == v \div 2
<1> DEFINE m == v % 2
<1>3. v = 2 * h + m /\ m \in {0, 1} /\ h \in Int
  BY <1>2
<1> HIDE DEF h, m
<1>4. CASE c = 0
  <2>1. c * Half = 0 /\ c * Size = 0
    BY <1>1, <1>4
  <2>2. h + 0 \in Byte
    BY <1>1, <1>3 DEF Byte
  <2>3. 2 * (h + 0) + (IF m = 1 THEN 1 ELSE 0) = v + 0
    BY <1>1, <1>3
  <2>. QED BY <2>1, <2>2, <2>3 DEF h, m
<1>5. CASE c = 1
  <2>1. c * Half = Half /\ c * Size = Size
    BY <1>1, <1>5
  <2>2. h + Half \in Byte
    BY <1>1, <1>3 DEF Byte
  <2>3. 2 * (h + Half) + (IF m = 1 THEN 1 ELSE 0) = v + Size
    BY <1>1, <1>3
  <2>. QED BY <2>1, <2>2, <2>3 DEF h, m
<1>. QED BY <1>4, <1>5

\* What each shift leaves: the byte and the bit out in the carry.
LeftShifted(res, v, c, p) ==
  /\ res.val \in Byte /\ res.p \in ProgramFlags /\ res.p.v = p.v
  /\ res.val + Carry(res.p) * Size = 2 * v + c
RightShifted(res, v, c, p) ==
  /\ res.val \in Byte /\ res.p \in ProgramFlags /\ res.p.v = p.v
  /\ 2 * res.val + Carry(res.p) = v + c * Size

LEMMA ShiftsShift ==
  ASSUME NEW v \in Byte, NEW p \in ProgramFlags
  PROVE  /\ LeftShifted(asl_base(v, p), v, 0, p) /\ LeftShifted(rol_base(v, p), v, Carry(p), p)
         /\ RightShifted(lsr_base(v, p), v, 0, p) /\ RightShifted(ror_base(v, p), v, Carry(p), p)
<1>0. Carry(p) \in {0, 1} /\ 0 \in {0, 1}
  BY FlagsFields DEF ProgramFlags
<1>1. ASSUME NEW b \in BOOLEAN, NEW q \in ProgramFlags, q.c = b PROVE Carry(q) = IF b THEN 1 ELSE 0
  BY <1>1 DEF Carry
<1> DEFINE n == Neg(v)
<1> DEFINE odd == (v % 2 = 1)
<1>2. n \in BOOLEAN /\ odd \in BOOLEAN
  BY SizeFacts DEF Neg, Byte
<1>3. \A c \in {0, 1} :
        LeftShifted(Result(((2 * v) % Size) + c, [p EXCEPT !.c = n]), v, c, p)
  <2>. TAKE c \in {0, 1}
  <2> DEFINE r == Result(((2 * v) % Size) + c, [p EXCEPT !.c = n])
  <2>1. r.val = ((2 * v) % Size) + c /\ r.p \in ProgramFlags /\ r.p.c = n /\ r.p.v = p.v
    <3>1. ((2 * v) % Size) + c \in Int
      BY LeftShift, SizeFacts DEF Byte
    <3>. QED BY <1>2, <3>1, ResultWithCarry
  <2> HIDE DEF r
  <2>2. Carry(r.p) = IF n THEN 1 ELSE 0
    BY <1>1, <1>2, <2>1
  <2>3. r.val \in Byte /\ r.val + Carry(r.p) * Size = 2 * v + c
    BY <2>1, <2>2, LeftShift, Zenon
  <2>4. LeftShifted(r, v, c, p)
    BY <2>1, <2>3, Zenon DEF LeftShifted
  <2>. QED BY <2>4 DEF r
<1>4. \A c \in {0, 1} :
        RightShifted(Result((v \div 2) + (c * Half), [p EXCEPT !.c = odd]), v, c, p)
  <2>. TAKE c \in {0, 1}
  <2> DEFINE r == Result((v \div 2) + (c * Half), [p EXCEPT !.c = odd])
  <2>1. r.val = (v \div 2) + (c * Half) /\ r.p \in ProgramFlags /\ r.p.c = odd /\ r.p.v = p.v
    <3>1. (v \div 2) + (c * Half) \in Int
      BY RightShift, SizeFacts DEF Byte
    <3>. QED BY <1>2, <3>1, ResultWithCarry
  <2> HIDE DEF r
  <2>2. Carry(r.p) = IF odd THEN 1 ELSE 0
    BY <1>1, <1>2, <2>1
  <2>3. r.val \in Byte /\ 2 * r.val + Carry(r.p) = v + c * Size
    BY <2>1, <2>2, RightShift, Zenon
  <2>4. RightShifted(r, v, c, p)
    BY <2>1, <2>3, Zenon DEF RightShifted
  <2>. QED BY <2>4 DEF r
<1>5. LeftShifted(rol_base(v, p), v, Carry(p), p) /\ RightShifted(ror_base(v, p), v, Carry(p), p)
  BY <1>0, <1>3, <1>4, Zenon DEF rol_base, ror_base
<1>6. (2 * v) % Size = ((2 * v) % Size) + 0 /\ v \div 2 = (v \div 2) + (0 * Half)
  <2>1. (2 * v) \in 0..(2 * Size - 1)
    BY SizeFacts DEF Byte
  <2>2. (2 * v) % Size \in Int
    BY <2>1, SumOfBytes, SizeFacts DEF Byte
  <2>3. v \div 2 \in Int /\ 0 * Half = 0
    BY SizeFacts DEF Byte
  <2>. QED BY <2>2, <2>3
<1>7. asl_base(v, p) = Result(((2 * v) % Size) + 0, [p EXCEPT !.c = n])
      /\ lsr_base(v, p) = Result((v \div 2) + (0 * Half), [p EXCEPT !.c = odd])
  BY <1>6, Zenon DEF asl_base, lsr_base
<1>. QED BY <1>0, <1>3, <1>4, <1>5, <1>7, Zenon

\* A left shift doubles one byte more of a number, with what the bytes below shifted out.
LEMMA DoubledOneMore ==
  ASSUME NEW ch \in Chains, Fits(ch), ch.kind = "shl", NEW c \in {0, 1},
         ch.r + c * ch.weight = 2 * ch.x, NEW v \in Byte, NEW p \in ProgramFlags,
         NEW res, LeftShifted(res, v, c, p)
  PROVE  ChainOK(Extend(ch, v, 0, res.val, FALSE), res.p)
<1> DEFINE new == Extend(ch, v, 0, res.val, FALSE)
<1>0. 0 \in Byte /\ res.val \in Byte /\ res.p \in Flags /\ res.val + Carry(res.p) * Size = 2 * v + c
  BY SizeFacts DEF Byte, LeftShifted, ProgramFlags
<1>1. Grows(ch, v, 0, res.val, new)
  BY <1>0, ExtendGrows
<1> HIDE DEF new
<1>2. /\ ch.x \in Int /\ ch.r \in Int /\ ch.weight \in Nat /\ c \in Int /\ Carry(res.p) \in Int
      /\ v \in Int /\ res.val \in Int /\ 2 * ch.x \in Int /\ 2 * v \in Int
  BY <1>0, ChainFields, CarryFacts, SizeFacts DEF Byte
<1>3. Carried(ch.weight, ch.r, c, 2 * ch.x, res.val, Carry(res.p), 2 * v)
  BY <1>2, CarriedAlways
<1>4. 2 * ch.x + (2 * v) * ch.weight = 2 * (ch.x + v * ch.weight)
  BY <1>2
<1>5. new.r + Carry(res.p) * new.weight = 2 * new.x
  BY <1>0, <1>1, <1>3, <1>4, Zenon DEF Carried, Grows
<1>6. WideExact(new, res.p) /\ SignedExact(new, res.p) /\ new \in Chains /\ Fits(new)
  BY <1>1, <1>5 DEF WideExact, SignedExact, Grows
<1>. QED BY <1>6, Zenon DEF new, ChainOK

\* A number below a weight with one more byte below it.
LEMMA OnBottom ==
  ASSUME NEW w \in Nat \ {0}, NEW x \in Nat, x < w, NEW b \in Byte
  PROVE  x * Size + b \in Nat /\ x * Size + b < w * Size
<1>1. b \in Int /\ 0 <= b /\ b + 1 <= Size
  BY SizeFacts DEF Byte
<1>2. x * Size \in Nat
  BY SizeFacts
<1>3. (x + 1) * Size <= w * Size
  BY SizeFacts
<1>4. (x + 1) * Size = x * Size + Size
  BY SizeFacts
<1>5. w * Size \in Int
  BY SizeFacts
<1> DEFINE xs == x * Size
<1> DEFINE ws == w * Size
<1>6. xs \in Nat /\ ws \in Int /\ xs + Size <= ws
  BY <1>2, <1>3, <1>4, <1>5
<1> HIDE DEF xs, ws
<1>7. xs + b \in Nat /\ xs + b < ws
  BY <1>1, <1>6, SizeFacts
<1>. QED BY <1>7 DEF xs, ws

\* A right shift halves one byte more of a number, from the high end down.
LEMMA HalvedOneMore ==
  ASSUME NEW ch \in Chains, Fits(ch), ch.kind = "shr", NEW c \in {0, 1},
         2 * ch.r + c = ch.x, NEW v \in Byte, NEW p \in ProgramFlags,
         NEW res, RightShifted(res, v, c, p)
  PROVE  ChainOK(ExtendDown(ch, v, res.val), res.p)
<1> DEFINE new == ExtendDown(ch, v, res.val)
<1>0. res.val \in Byte /\ res.p \in Flags /\ 2 * res.val + Carry(res.p) = v + c * Size
  BY DEF RightShifted, ProgramFlags
<1>1. /\ ch.x \in Nat /\ ch.y \in Nat /\ ch.r \in Nat /\ ch.weight \in Nat \ {0}
      /\ ch.x < ch.weight /\ ch.y < ch.weight /\ ch.r < ch.weight
  BY ChainFields
<1>2. /\ new.kind = ch.kind /\ new.x = ch.x * Size + v /\ new.r = ch.r * Size + res.val
      /\ new.y = ch.y /\ new.weight = ch.weight * Size
  BY DEF ExtendDown, Chains
<1>3. /\ ch.x * Size + v \in Nat /\ ch.x * Size + v < ch.weight * Size
      /\ ch.r * Size + res.val \in Nat /\ ch.r * Size + res.val < ch.weight * Size
  BY <1>0, <1>1, OnBottom
<1>4. ch.weight * Size \in Nat \ {0} /\ ch.weight <= ch.weight * Size
  <2> DEFINE w == ch.weight
  <2>1. w \in Nat \ {0}
    BY <1>1
  <2> HIDE DEF w
  <2>2. w * Size \in Nat /\ w * Size >= w
    BY <2>1, SizeFacts
  <2>. QED BY <2>1, <2>2 DEF w
<1>5. new \in Chains
  BY <1>3, <1>4, Zenon DEF ExtendDown, Chains
<1>6. ch.y < ch.weight * Size
  BY <1>1, <1>4
<1>7. Fits(new)
  BY <1>2, <1>3, <1>6, Zenon DEF Fits
<1>8. 2 * (ch.r * Size + res.val) + Carry(res.p) = ch.x * Size + v
  <2> DEFINE r == ch.r
  <2> DEFINE x == ch.x
  <2> DEFINE rs == r * Size
  <2> DEFINE cs == c * Size
  <2>1. x = 2 * r + c /\ r \in Int /\ c \in Int
    BY <1>1
  <2> HIDE DEF r, x
  <2>2. x * Size = 2 * rs + cs /\ rs \in Int /\ cs \in Int
    <3>1. (2 * r + c) * Size = 2 * (r * Size) + c * Size
      BY <2>1, SizeFacts
    <3>. QED BY <2>1, <3>1, SizeFacts
  <2>3. res.val \in Int /\ v \in Int /\ Carry(res.p) \in Int /\ 2 * res.val + Carry(res.p) = v + cs
    BY <1>0, CarryFacts, SizeFacts DEF Byte
  <2> DEFINE b == res.val
  <2> DEFINE k == Carry(res.p)
  <2> HIDE DEF rs, cs, b, k
  <2>5. b \in Int /\ v \in Int /\ k \in Int /\ 2 * b + k = v + cs
    BY <2>3 DEF b, k
  <2>6. 2 * (rs + b) + k = (2 * rs + cs) + v
    BY <2>2, <2>5
  <2>4. 2 * (rs + res.val) + Carry(res.p) = (2 * rs + cs) + v
    BY <2>6 DEF b, k
  <2>. QED BY <2>2, <2>4 DEF r, x, rs
<1> HIDE DEF new
<1>9. WideExact(new, res.p) /\ SignedExact(new, res.p)
  BY <1>2, <1>8 DEF WideExact, SignedExact
<1>. QED BY <1>5, <1>7, <1>9, Zenon DEF new, ChainOK

\* A chain not begun, and one of no bytes yet.
LEMMA EmptyChains ==
  ASSUME NEW kind \in {"none", "add", "sub", "shl", "shr"}
  PROVE  /\ Begin(kind) \in Chains /\ Fits(Begin(kind)) /\ Begin(kind).kind = kind
         /\ Begin(kind).x = 0 /\ Begin(kind).y = 0 /\ Begin(kind).r = 0 /\ Begin(kind).weight = 1
         /\ ~Begin(kind).signed
<1>1. Begin(kind) \in Chains
  <2>1. NoChain \in Chains
    BY DEF NoChain, Chains
  <2>2. ASSUME NEW ch \in Chains PROVE [ch EXCEPT !.kind = kind] \in Chains
    BY DEF Chains
  <2>. QED BY <2>1, <2>2, Zenon DEF Begin
<1>2. /\ Begin(kind).kind = kind /\ Begin(kind).x = 0 /\ Begin(kind).y = 0 /\ Begin(kind).r = 0
      /\ Begin(kind).weight = 1 /\ ~Begin(kind).signed
  BY DEF Begin, NoChain
<1>. QED BY <1>1, <1>2 DEF Fits

LEMMA NoChainOK == ASSUME NEW p \in Flags PROVE ChainOK(NoChain, p)
<1>1. NoChain \in Chains /\ Fits(NoChain) /\ NoChain.kind = "none"
  BY DEF NoChain, Chains, Fits
<1>. QED BY <1>1 DEF ChainOK, WideExact, SignedExact

\* CLC and SEC begin an addition and a subtraction.
LEMMA BeginOK ==
  ASSUME NEW p \in Flags
  PROVE  (~p.c => ChainOK(Begin("add"), p)) /\ (p.c => ChainOK(Begin("sub"), p))
<1>1. ASSUME ~p.c PROVE Carry(p) = 0
  BY <1>1 DEF Carry
<1>2. ASSUME p.c PROVE Carry(p) = 1
  BY <1>2 DEF Carry
<1>3. ASSUME ~p.c PROVE ChainOK(Begin("add"), p)
  BY <1>1, <1>3, EmptyChains DEF ChainOK, WideExact, SignedExact
<1>4. ASSUME p.c PROVE ChainOK(Begin("sub"), p)
  BY <1>2, <1>4, EmptyChains DEF ChainOK, WideExact, SignedExact
<1>. QED BY <1>3, <1>4

\* A chain looks at the carry and the overflow flag only.
LEMMA SameCarry ==
  ASSUME NEW ch, NEW p \in Flags, NEW q \in Flags, q.c = p.c, q.v = p.v, ChainOK(ch, p)
  PROVE  ChainOK(ch, q)
<1>1. Carry(q) = Carry(p)
  BY DEF Carry
<1>2. WideExact(ch, q)
  BY <1>1 DEF WideExact, ChainOK
<1>3. SignedExact(ch, q)
  BY Zenon DEF SignedExact, ChainOK
<1>. QED BY <1>2, <1>3, Zenon DEF ChainOK

-----------------------------------------------------------------------------
(* What the base functions leave: a byte, the program's flags, and a chain. *)

\* One of eight bits: nothing where the byte ends.
Weights == {1, 2, 4, 8, 16, 32, 64, 128}
BitAt(n, weight) == (n \div weight) % 2

LEMMA BitsOfByte ==
  ASSUME NEW n \in Byte, NEW weight \in Weights
  PROVE  BitAt(n, weight) \in {0, 1} /\ (weight >= Size => BitAt(n, weight) = 0)
<1>1. n \in Nat /\ n < Size /\ Size \in Nat
  BY SizeFacts DEF Byte
<1>2. ASSUME NEW k \in {1, 2, 4, 8, 16, 32, 64, 128}
      PROVE  (n \div k) % 2 \in {0, 1} /\ (k >= Size => n \div k = 0)
  BY <1>1, <1>2
<1>. QED BY <1>2 DEF Weights, BitAt

\* Bits put together make a byte.
Sum(f) ==
  1 * f[1] + 2 * f[2] + 4 * f[4] + 8 * f[8] + 16 * f[16] + 32 * f[32] + 64 * f[64] + 128 * f[128]

LEMMA ByteOfBits ==
  ASSUME NEW f \in [Weights -> {0, 1}], \A k \in Weights : k >= Size => f[k] = 0
  PROVE  Sum(f) \in Byte
<1>1. /\ f[1] \in {0, 1} /\ f[2] \in {0, 1} /\ f[4] \in {0, 1} /\ f[8] \in {0, 1}
      /\ f[16] \in {0, 1} /\ f[32] \in {0, 1} /\ f[64] \in {0, 1} /\ f[128] \in {0, 1}
      /\ 4 >= Size => f[4] = 0
      /\ 8 >= Size => f[8] = 0
      /\ 16 >= Size => f[16] = 0
      /\ 32 >= Size => f[32] = 0
      /\ 64 >= Size => f[64] = 0
      /\ 128 >= Size => f[128] = 0
  BY DEF Weights
<1>2. Half \in {2, 4, 8, 16, 32, 64, 128}
  BY CoreConstants
<1> HIDE DEF Weights
<1>3. /\ 4 >= 2 * Half => f[4] = 0
      /\ 8 >= 2 * Half => f[8] = 0
      /\ 16 >= 2 * Half => f[16] = 0
      /\ 32 >= 2 * Half => f[32] = 0
      /\ 64 >= 2 * Half => f[64] = 0
      /\ 128 >= 2 * Half => f[128] = 0
  BY <1>1 DEF Size
<1>4. 1 * f[1] + 2 * f[2] + 4 * f[4] + 8 * f[8] + 16 * f[16] + 32 * f[32] + 64 * f[64]
        + 128 * f[128] \in 0..(2 * Half - 1)
  <2> DEFINE g1 == f[1]
  <2> DEFINE g2 == f[2]
  <2> DEFINE g4 == f[4]
  <2> DEFINE g8 == f[8]
  <2> DEFINE g16 == f[16]
  <2> DEFINE g32 == f[32]
  <2> DEFINE g64 == f[64]
  <2> DEFINE g128 == f[128]
  <2> HIDE DEF g1, g2, g4, g8, g16, g32, g64, g128
  <2>1. /\ g1 \in {0, 1} /\ g2 \in {0, 1} /\ g4 \in {0, 1} /\ g8 \in {0, 1}
        /\ g16 \in {0, 1} /\ g32 \in {0, 1} /\ g64 \in {0, 1} /\ g128 \in {0, 1}
        /\ 4 >= 2 * Half => g4 = 0
        /\ 8 >= 2 * Half => g8 = 0
        /\ 16 >= 2 * Half => g16 = 0
        /\ 32 >= 2 * Half => g32 = 0
        /\ 64 >= 2 * Half => g64 = 0
        /\ 128 >= 2 * Half => g128 = 0
    BY <1>1, <1>3 DEF g1, g2, g4, g8, g16, g32, g64, g128
  <2>2. 1 * g1 + 2 * g2 + 4 * g4 + 8 * g8 + 16 * g16 + 32 * g32 + 64 * g64 + 128 * g128
          \in 0..(2 * Half - 1)
    BY <1>2, <2>1
  <2>. QED BY <2>2, Zenon DEF g1, g2, g4, g8, g16, g32, g64, g128
<1>. QED BY <1>4, Zenon DEF Byte, Size, Sum

LEMMA BitwiseIsByte ==
  ASSUME NEW m \in Byte, NEW n \in Byte
  PROVE  And(m, n) \in Byte /\ Or(m, n) \in Byte /\ Xor(m, n) \in Byte
<1> DEFINE i(k) == BitAt(m, k)
<1> DEFINE j(k) == BitAt(n, k)
<1>1. \A k \in Weights : /\ i(k) \in {0, 1} /\ (k >= Size => i(k) = 0)
                         /\ j(k) \in {0, 1} /\ (k >= Size => j(k) = 0)
  BY BitsOfByte
<1> DEFINE both == [k \in Weights |-> i(k) * j(k)]
<1> DEFINE some == [k \in Weights |-> i(k) + j(k) - i(k) * j(k)]
<1> DEFINE one == [k \in Weights |-> (i(k) + j(k)) % 2]
<1>2. And(m, n) = Sum(both)
  BY DEF And, Bitwise, Sum, Weights, BitAt
<1>3. Or(m, n) = Sum(some)
  BY DEF Or, Bitwise, Sum, Weights, BitAt
<1>4. Xor(m, n) = Sum(one)
  BY DEF Xor, Bitwise, Sum, Weights, BitAt
<1> HIDE DEF i, j
<1>5. /\ both \in [Weights -> {0, 1}] /\ \A k \in Weights : k >= Size => both[k] = 0
      /\ some \in [Weights -> {0, 1}] /\ \A k \in Weights : k >= Size => some[k] = 0
      /\ one \in [Weights -> {0, 1}] /\ \A k \in Weights : k >= Size => one[k] = 0
  <2>1. \A u, v \in {0, 1} : u * v \in {0, 1} /\ u + v - u * v \in {0, 1} /\ (u + v) % 2 \in {0, 1}
    OBVIOUS
  <2>2. 0 * 0 = 0 /\ 0 + 0 - 0 * 0 = 0 /\ (0 + 0) % 2 = 0
    OBVIOUS
  <2>3. ASSUME NEW k \in Weights
        PROVE  /\ both[k] \in {0, 1} /\ some[k] \in {0, 1} /\ one[k] \in {0, 1}
               /\ k >= Size => both[k] = 0 /\ some[k] = 0 /\ one[k] = 0
    BY <1>1, <2>1, <2>2, <2>3, Zenon
  <2>. QED BY <2>3, Zenon
<1> HIDE DEF both, some, one
<1>. QED BY <1>2, <1>3, <1>4, <1>5, ByteOfBits, Zenon

\* ADC and SBC leave a byte and flags of a program.
LEMMA SumFlags ==
  ASSUME NEW a \in Byte, NEW val \in Byte, NEW p \in ProgramFlags
  PROVE  /\ adc_base(a, val, p).val \in Byte /\ adc_base(a, val, p).p \in ProgramFlags
         /\ sbc_base(a, val, p).val \in Byte /\ sbc_base(a, val, p).p \in ProgramFlags
<1>1. p \in Flags
  BY DEF ProgramFlags
<1>2. ASSUME NEW b \in Byte
      PROVE  adc_base(a, b, p).val \in Byte /\ adc_base(a, b, p).p \in ProgramFlags
  <2> DEFINE sum == a + b + Carry(p)
  <2> DEFINE add == sum % Size
  <2> DEFINE v == Overflow(a, b, add)
  <2> DEFINE c == (sum >= Size)
  <2>1. adc_base(a, b, p).val \in Byte
    BY <1>1, <1>2, AdcSum
  <2>2. adc_base(a, b, p) = Result(add, [p EXCEPT !.v = v, !.c = c])
    BY Zenon DEF adc_base
  <2>3. v \in BOOLEAN /\ c \in BOOLEAN
    <3>1. sum \in Int /\ Size \in Int
      BY <1>1, CarryFacts, SizeFacts DEF Byte
    <3>2. c \in BOOLEAN
      BY <3>1
    <3>3. v \in BOOLEAN
      BY Zenon DEF Overflow
    <3>. QED BY <3>2, <3>3
  <2>4. add \in Int
    BY <2>1, <2>2, SizeFacts DEF Result, Byte
  <2> HIDE DEF v, c, add
  <2>5. [p EXCEPT !.v = v, !.c = c] \in ProgramFlags
    BY <2>3 DEF ProgramFlags, Flags
  <2> DEFINE q == [p EXCEPT !.v = v, !.c = c]
  <2>6. Result(add, q).p = UpdateNZ(q, add)
    BY DEF Result
  <2> HIDE DEF q
  <2>7. UpdateNZ(q, add) \in ProgramFlags
    BY <2>4, <2>5, FlagsFollow, Zenon DEF q
  <2>. QED BY <2>1, <2>2, <2>6, <2>7, Zenon DEF q
<1>3. Flip(val) \in Byte
  BY SizeFacts DEF Flip, Byte
<1>. QED BY <1>2, <1>3, Zenon DEF sbc_base

\* An addition or a subtraction goes on with one byte more.
LEMMA SumOneMore ==
  ASSUME NEW ch, NEW p \in ProgramFlags, ChainOK(ch, p), NEW a \in Byte, NEW val \in Byte
  PROVE  /\ ch.kind = "add" =>
              LET res == adc_base(a, val, p)
              IN  ChainOK(Extend(ch, a, val, res.val, TRUE), res.p)
         /\ ch.kind = "sub" =>
              LET res == sbc_base(a, val, p)
              IN  ChainOK(Extend(ch, a, val, res.val, TRUE), res.p)
<1>1. p \in Flags /\ ch \in Chains /\ Fits(ch) /\ WideExact(ch, p)
  BY DEF ProgramFlags, ChainOK
<1>2. CASE ch.kind = "add"
  BY <1>1, <1>2, AddExact, AddSigned, Zenon DEF ChainOK
<1>3. CASE ch.kind = "sub"
  BY <1>1, <1>3, SubExact, SubSigned, Zenon DEF ChainOK
<1>. QED BY <1>2, <1>3, Zenon

\* A comparison begins a subtraction, and leaves a byte and flags of a program.
LEMMA CompareBegins ==
  ASSUME NEW n \in Byte, NEW val \in Byte, NEW p \in ProgramFlags
  PROVE  LET res == cpn_base(val, n, p)
         IN  res.p \in ProgramFlags /\ ChainOK(Extend(Begin("sub"), n, val, res.val, FALSE), res.p)
<1> DEFINE res == cpn_base(val, n, p)
<1> DEFINE new == Extend(Begin("sub"), n, val, res.val, FALSE)
<1> DEFINE c == (n >= val)
<1>0. p \in Flags /\ n \in Int /\ val \in Int /\ c \in BOOLEAN /\ (n - val) % Size \in Byte
  BY SizeFacts DEF ProgramFlags, Byte
<1>1. res = Result((n - val) % Size, [p EXCEPT !.c = c])
  BY Zenon DEF cpn_base
<1> HIDE DEF c
<1>2. (n - val) % Size \in Int
  BY <1>0, SizeFacts DEF Byte
<1>3. res.val = (n - val) % Size /\ res.p \in ProgramFlags
  BY <1>0, <1>1, <1>2, ResultWithCarry
<1>4. WideExact(new, res.p)
  BY <1>0, CompareExact
<1> HIDE DEF res
<1>5. Grows(Begin("sub"), n, val, res.val, new)
  BY <1>0, <1>3, EmptyChains, ExtendGrows
<1>6. new.signed = FALSE
  BY DEF Extend, Begin, NoChain
<1> HIDE DEF new
<1>7. SignedExact(new, res.p)
  BY <1>6, Zenon DEF SignedExact
<1>8. ChainOK(new, res.p)
  BY <1>4, <1>5, <1>7, Zenon DEF ChainOK, Grows
<1>. QED BY <1>3, <1>8 DEF res, new

\* The chain that an addition, a subtraction or a rotation leaves.
LEMMA GrownOK ==
  ASSUME NEW p \in ProgramFlags, ChainOK(chain, p), NEW a \in Byte, NEW val \in Byte
  PROVE  /\ ChainOK(Grown("add", a, val, adc_base(a, val, p).val, TRUE), adc_base(a, val, p).p)
         /\ ChainOK(Grown("sub", a, val, sbc_base(a, val, p).val, TRUE), sbc_base(a, val, p).p)
         /\ ChainOK(Grown("shl", val, 0, rol_base(val, p).val, FALSE), rol_base(val, p).p)
         /\ ChainOK(GrownDown(val, ror_base(val, p).val), ror_base(val, p).p)
<1>1. \A q \in ProgramFlags : q \in Flags
  BY DEF ProgramFlags
<1>2. \A q \in ProgramFlags : ChainOK(NoChain, q)
  BY <1>1, NoChainOK
<1>3. /\ adc_base(a, val, p).p \in ProgramFlags /\ sbc_base(a, val, p).p \in ProgramFlags
      /\ rol_base(val, p).p \in ProgramFlags /\ ror_base(val, p).p \in ProgramFlags
  BY SumFlags, ShiftsShift, Zenon DEF LeftShifted, RightShifted
<1>4. ChainOK(Grown("add", a, val, adc_base(a, val, p).val, TRUE), adc_base(a, val, p).p)
  BY <1>2, <1>3, SumOneMore, Zenon DEF Grown, GoesOn
<1>5. ChainOK(Grown("sub", a, val, sbc_base(a, val, p).val, TRUE), sbc_base(a, val, p).p)
  BY <1>2, <1>3, SumOneMore, Zenon DEF Grown, GoesOn
<1>6. chain \in Chains /\ Fits(chain) /\ WideExact(chain, p) /\ Carry(p) \in {0, 1}
  BY <1>1, CarryFacts, Zenon DEF ChainOK
<1>7. ASSUME chain.kind = "shl" PROVE chain.r + Carry(p) * chain.weight = 2 * chain.x
  BY <1>6, <1>7, Zenon DEF WideExact
<1>8. ASSUME chain.kind = "shr" PROVE 2 * chain.r + Carry(p) = chain.x
  BY <1>6, <1>8, Zenon DEF WideExact
<1>9. LeftShifted(rol_base(val, p), val, Carry(p), p) /\ RightShifted(ror_base(val, p), val, Carry(p), p)
  BY ShiftsShift, Zenon
<1>10. ASSUME chain.kind = "shl"
       PROVE  ChainOK(Extend(chain, val, 0, rol_base(val, p).val, FALSE), rol_base(val, p).p)
  BY <1>6, <1>7, <1>9, <1>10, DoubledOneMore, Zenon
<1>11. ASSUME chain.kind = "shr"
       PROVE  ChainOK(ExtendDown(chain, val, ror_base(val, p).val), ror_base(val, p).p)
  BY <1>6, <1>8, <1>9, <1>11, HalvedOneMore, Zenon
<1>12. ChainOK(Grown("shl", val, 0, rol_base(val, p).val, FALSE), rol_base(val, p).p)
  BY <1>2, <1>3, <1>10, Zenon DEF Grown, GoesOn
<1>13. ChainOK(GrownDown(val, ror_base(val, p).val), ror_base(val, p).p)
  BY <1>2, <1>3, <1>11, Zenon DEF GrownDown, GoesOn
<1>. QED BY <1>4, <1>5, <1>12, <1>13, Zenon

\* The first byte of a shift.
LEMMA ShiftBegins ==
  ASSUME NEW p \in ProgramFlags, NEW val \in Byte
  PROVE  /\ ChainOK(Extend(Begin("shl"), val, 0, asl_base(val, p).val, FALSE), asl_base(val, p).p)
         /\ ChainOK(ExtendDown(Begin("shr"), val, lsr_base(val, p).val), lsr_base(val, p).p)
<1>1. LeftShifted(asl_base(val, p), val, 0, p) /\ RightShifted(lsr_base(val, p), val, 0, p)
  BY ShiftsShift, Zenon
<1>2. /\ Begin("shl") \in Chains /\ Fits(Begin("shl")) /\ Begin("shl").kind = "shl"
      /\ Begin("shl").r + 0 * Begin("shl").weight = 2 * Begin("shl").x
      /\ Begin("shr") \in Chains /\ Fits(Begin("shr")) /\ Begin("shr").kind = "shr"
      /\ 2 * Begin("shr").r + 0 = Begin("shr").x
  BY EmptyChains
<1>3. 0 \in {0, 1}
  OBVIOUS
<1>. QED BY <1>1, <1>2, <1>3, DoubledOneMore, HalvedOneMore, Zenon

-----------------------------------------------------------------------------
(* The machine: addresses, registers and cells. *)

LEMMA AddressFacts ==
  ASSUME NEW n \in Int
  PROVE  n % (Size * Size) \in Addr
<1> DEFINE m == Size * Size
<1>1. m \in Nat \ {0}
  BY SizeFacts
<1> HIDE DEF m
<1>2. n % m \in 0..(m - 1)
  BY <1>1
<1>. QED BY <1>2 DEF Addr, m

\* An address is two bytes.
LEMMA WordFacts ==
  ASSUME NEW v \in Addr
  PROVE  /\ v \div Size \in Byte /\ v % Size \in Byte
         /\ Size * (v \div Size) + (v % Size) = v
<1>1. Size \in Nat /\ Size > 0 /\ v \in Nat /\ v < Size * Size
  BY SizeFacts DEF Addr
<1> DEFINE q == v \div Size
<1> DEFINE m == v % Size
<1>2. q \in Int /\ m \in Int /\ 0 <= m /\ m < Size /\ Size * q + m = v
  BY <1>1
<1> HIDE DEF q, m
<1>3. ~(q >= Size)
  <2>. SUFFICES ASSUME q >= Size PROVE FALSE
    OBVIOUS
  <2>1. Size * q >= Size * Size
    BY <1>1, <1>2
  <2> DEFINE sq == Size * q
  <2> DEFINE ss == Size * Size
  <2>2. sq \in Int /\ ss \in Int /\ sq >= ss /\ v < ss /\ sq + m = v
    BY <1>1, <1>2, <2>1
  <2> HIDE DEF sq, ss
  <2>. QED BY <1>1, <1>2, <2>2
<1>4. ~(q < 0)
  <2>. SUFFICES ASSUME q < 0 PROVE FALSE
    OBVIOUS
  <2>1. Size * q <= Size * (-1) /\ Size * (-1) = -Size
    BY <1>1, <1>2
  <2> DEFINE sq == Size * q
  <2>2. sq \in Int /\ sq <= -Size /\ sq + m = v
    BY <1>1, <1>2, <2>1
  <2> HIDE DEF sq
  <2>. QED BY <1>1, <1>2, <2>2
<1>5. q \in Byte /\ m \in Byte
  BY <1>1, <1>2, <1>3, <1>4 DEF Byte
<1>. QED BY <1>2, <1>5 DEF q, m

\* An address stays the same when one is taken off and put back.
LEMMA OneBack ==
  ASSUME NEW v \in Addr
  PROVE  (((v - 1) % (Size * Size)) + 1) % (Size * Size) = v
<1> DEFINE m == Size * Size
<1>1. m \in Nat /\ m > 1
  BY SizeFacts
<1>2. v \in 0..(m - 1)
  BY DEF Addr
<1> HIDE DEF m
<1>3. ASSUME v = 0 PROVE (((v - 1) % m) + 1) % m = v
  <2>1. (v - 1) % m = m - 1
    BY <1>1, <1>3
  <2>2. m % m = 0 /\ (m - 1) + 1 = m
    BY <1>1
  <2>. QED BY <1>3, <2>1, <2>2, Zenon
<1>4. ASSUME v > 0 PROVE (((v - 1) % m) + 1) % m = v
  <2>1. (v - 1) % m = v - 1
    BY <1>1, <1>2, <1>4
  <2>2. v % m = v /\ (v - 1) + 1 = v
    BY <1>1, <1>2
  <2>. QED BY <2>1, <2>2, Zenon
<1>5. (((v - 1) % m) + 1) % m = v
  BY <1>2, <1>3, <1>4
<1>. QED BY <1>5 DEF m

\* Registers with one or two of them changed.
LEMMA RegisterFacts ==
  ASSUME NEW r \in Registers, NEW val \in Byte, NEW p \in Flags, NEW pc \in Addr
  PROVE  /\ [r EXCEPT !.p = p] \in Registers /\ [r EXCEPT !.p = p].p = p
         /\ [r EXCEPT !.a = val] \in Registers /\ [r EXCEPT !.a = val].p = r.p
         /\ [r EXCEPT !.x = val] \in Registers /\ [r EXCEPT !.x = val].p = r.p
         /\ [r EXCEPT !.y = val] \in Registers /\ [r EXCEPT !.y = val].p = r.p
         /\ [r EXCEPT !.s = val] \in Registers /\ [r EXCEPT !.s = val].p = r.p
         /\ [r EXCEPT !.pc = pc] \in Registers /\ [r EXCEPT !.pc = pc].p = r.p
         /\ [r EXCEPT !.a = val, !.p = p] \in Registers /\ [r EXCEPT !.a = val, !.p = p].p = p
         /\ [r EXCEPT !.s = val, !.pc = pc] \in Registers /\ [r EXCEPT !.s = val, !.pc = pc].p = r.p
BY DEF Registers

LEMMA AfterIsAddress ==
  ASSUME RegistersOK, NEW insn \in Insns
  PROVE  After(insn) \in Addr /\ Next_(insn) \in Registers /\ Next_(insn).p = reg.p
<1>1. reg.pc \in Int /\ insn.len \in Int
  BY SizeFacts DEF RegistersOK, Registers, Addr, Insns
<1>2. After(insn) \in Addr
  BY <1>1, AddressFacts DEF After
<1>3. reg \in Registers
  BY DEF RegistersOK
<1>. QED BY <1>2, <1>3 DEF Next_, Registers

LEMMA OperandIsByte ==
  ASSUME RegistersOK, CellsOK, NEW insn, Assembled(insn)
  PROVE  Operand(insn) \in Byte
<1>1. insn.on = "imm" => insn.arg \in Byte
  BY DEF Assembled
<1>2. reg.a \in Byte /\ ram[DataByte].byte \in Byte
  BY DEF RegistersOK, Registers, CellsOK
<1>. QED BY <1>1, <1>2 DEF Operand

\* A cell that has been written, where the frames are not.
CellsKept(cells) ==
  /\ cells \in [Cells -> CellValues] /\ cells[DataByte] \in [byte : Byte]
  /\ \A c \in Cells : c > reg.s => cells[c] = ram[c]

LEMMA StoredKeeps ==
  ASSUME RegistersOK, CellsOK, NEW val \in Byte
  PROVE  CellsKept(Stored(val)) /\ CellsKept(ram)
<1>1. reg.s \in Int /\ reg.s >= 0 /\ DataByte \in Cells /\ DataByte < 0 /\ DataByte \in Int
  BY SizeFacts DEF RegistersOK, Registers, Byte, Cells, DataByte
<1>2. [byte |-> val] \in CellValues /\ [byte |-> val] \in [byte : Byte]
  BY DEF CellValues
<1>3. ram \in [Cells -> CellValues]
  BY DEF CellsOK
<1>4. Stored(val) = [ram EXCEPT ![DataByte] = [byte |-> val]]
  BY DEF Stored
<1> HIDE DEF DataByte
<1>5. Stored(val) \in [Cells -> CellValues] /\ Stored(val)[DataByte] = [byte |-> val]
      /\ \A c \in Cells : c # DataByte => Stored(val)[c] = ram[c]
  BY <1>1, <1>2, <1>3, <1>4, Zenon
<1>6. \A c \in Cells : c > reg.s => c # DataByte
  BY <1>1 DEF Cells
<1>. QED BY <1>2, <1>5, <1>6, Zenon DEF CellsKept, CellsOK

\* Where the cells of a frame are.
LEMMA FrameCells ==
  ASSUME RegistersOK, NEW f \in calls, FrameOK(f)
  PROVE  /\ f.s \in Cells /\ f.s > reg.s /\ f.s - 1 \in Cells /\ f.s - 1 > reg.s
         /\ f.kind = "interrupt" => f.s - 2 \in Cells /\ f.s - 2 > reg.s
<1>1. f.s \in Byte /\ reg.s \in Byte /\ reg.s <= f.s - Held(f)
  BY DEF FrameOK, Frames, RegistersOK, Registers
<1>2. (f.kind = "interrupt" => Held(f) = 3) /\ Held(f) \in {2, 3}
  BY DEF Held
<1>. QED BY <1>1, <1>2, SizeFacts DEF Byte, Cells, DataByte

\* A frame that stays below S keeps what makes it right.
LEMMA FrameKept ==
  ASSUME RegistersOK, NEW f \in calls, FrameOK(f), CellsKept(ram'), reg'.s <= f.s - Held(f)
  PROVE  FrameOK(f)'
<1>1. /\ ram'[f.s] = ram[f.s] /\ ram'[f.s - 1] = ram[f.s - 1]
      /\ f.kind = "interrupt" => ram'[f.s - 2] = ram[f.s - 2]
  BY FrameCells, Zenon DEF CellsKept
<1>. QED BY <1>1, Zenon DEF FrameOK, Held, Pushed

\* What an instruction that leaves the frames alone keeps.
LEMMA LeavesKeeps ==
  ASSUME CoreInv, rom' = rom, NEW r, NEW cells, NEW ch, r \in Registers, r.p \in ProgramFlags,
         CellsKept(cells), ChainOK(ch, r.p), Leaves(r, cells, ch)
  PROVE  CoreInv'
<1>1. reg' = r /\ ram' = cells /\ chain' = ch /\ calls' = Alive(calls, r.s)
  BY Zenon DEF Leaves
<1>2. RegistersOK' /\ CellsOK' /\ rom' \in Roms
  BY <1>1, Zenon DEF RegistersOK, CellsOK, CellsKept, CoreInv
<1>3. ASSUME NEW f \in calls' PROVE FrameOK(f)'
  <2>1. f \in calls /\ r.s <= f.s - Held(f)
    BY <1>1, <1>3, Zenon DEF Alive
  <2>. QED BY <1>1, <2>1, FrameKept, Zenon DEF CoreInv
<1>4. ChainOK(chain, reg.p)'
  BY <1>1, Zenon DEF ChainOK, WideExact, SignedExact, Fits
<1>. QED BY <1>2, <1>3, <1>4, Zenon DEF CoreInv

\* What there is before an instruction.
LEMMA CoreFacts ==
  ASSUME CoreInv, NEW insn, Assembled(insn)
  PROVE  /\ RegistersOK /\ CellsOK /\ reg.p \in ProgramFlags /\ ChainOK(chain, reg.p)
         /\ reg.a \in Byte /\ reg.x \in Byte /\ reg.y \in Byte /\ reg.s \in Byte
         /\ Operand(insn) \in Byte
         /\ Next_(insn) \in Registers /\ Next_(insn).p = reg.p /\ After(insn) \in Addr
         /\ CellsKept(ram) /\ \A val \in Byte : CellsKept(Stored(val))
<1>1. RegistersOK /\ CellsOK /\ ChainOK(chain, reg.p) /\ reg.p \in ProgramFlags
  BY DEF CoreInv, RegistersOK
<1>2. reg.a \in Byte /\ reg.x \in Byte /\ reg.y \in Byte /\ reg.s \in Byte
  BY <1>1 DEF RegistersOK, Registers
<1>3. Operand(insn) \in Byte
  BY <1>1, OperandIsByte
<1>4. Next_(insn) \in Registers /\ Next_(insn).p = reg.p /\ After(insn) \in Addr
  BY <1>1, AfterIsAddress DEF Assembled
<1>5. CellsKept(ram) /\ \A val \in Byte : CellsKept(Stored(val))
  BY <1>1, <1>2, StoredKeeps
<1>. QED BY <1>1, <1>2, <1>3, <1>4, <1>5, Zenon

LEMMA ChainGoesOn ==
  ASSUME CoreInv, NEW q \in ProgramFlags, q.c = reg.p.c, q.v = reg.p.v
  PROVE  ChainOK(chain, q)
<1>1. reg.p \in Flags /\ q \in Flags /\ ChainOK(chain, reg.p)
  BY DEF CoreInv, RegistersOK, ProgramFlags
<1>. QED BY <1>1, SameCarry

\* The registers and flags of an instruction that computes a byte.
LEMMA Answer ==
  ASSUME CoreInv, NEW insn, Assembled(insn), NEW val \in Byte, NEW p \in ProgramFlags
  PROVE  /\ [Next_(insn) EXCEPT !.p = p] \in Registers /\ [Next_(insn) EXCEPT !.p = p].p = p
         /\ [Next_(insn) EXCEPT !.a = val, !.p = p] \in Registers
         /\ [Next_(insn) EXCEPT !.a = val, !.p = p].p = p
<1>1. Next_(insn) \in Registers /\ p \in Flags
  BY CoreFacts DEF ProgramFlags
<1>. QED BY <1>1 DEF Registers

\* And what such an instruction keeps.
LEMMA AnswerKeeps ==
  ASSUME CoreInv, rom' = rom, NEW insn, Assembled(insn), NEW val \in Byte, NEW p \in ProgramFlags,
         NEW cells, CellsKept(cells), NEW ch, ChainOK(ch, p),
         \/ Leaves([Next_(insn) EXCEPT !.p = p], cells, ch)
         \/ Leaves([Next_(insn) EXCEPT !.a = val, !.p = p], cells, ch)
  PROVE  CoreInv'
<1>1. /\ [Next_(insn) EXCEPT !.p = p] \in Registers /\ [Next_(insn) EXCEPT !.p = p].p = p
      /\ [Next_(insn) EXCEPT !.a = val, !.p = p] \in Registers
      /\ [Next_(insn) EXCEPT !.a = val, !.p = p].p = p
  BY Answer
<1>. QED BY <1>1, LeavesKeeps, Zenon

\* N and Z alone do not disturb a chain.
LEMMA FollowKeeps ==
  ASSUME CoreInv, NEW val \in Byte
  PROVE  UpdateNZ(reg.p, val) \in ProgramFlags /\ ChainOK(chain, UpdateNZ(reg.p, val))
<1>1. reg.p \in ProgramFlags /\ val \in Int
  BY SizeFacts DEF CoreInv, RegistersOK, Byte
<1>2. UpdateNZ(reg.p, val) \in ProgramFlags
      /\ UpdateNZ(reg.p, val).c = reg.p.c /\ UpdateNZ(reg.p, val).v = reg.p.v
  BY <1>1, FlagsFollow
<1>. QED BY <1>2, ChainGoesOn

-----------------------------------------------------------------------------
(* Every instruction keeps the invariant. *)

LEMMA LogicKeeps ==
  ASSUME CoreInv, rom' = rom, NEW insn, Assembled(insn), Logic(insn)
  PROVE  CoreInv'
<1>1. Operand(insn) \in Byte /\ reg.a \in Byte /\ CellsKept(ram)
  BY CoreFacts
<1> DEFINE val == CASE insn.op = "ora" -> Or(reg.a, Operand(insn))
                    [] insn.op = "and" -> And(reg.a, Operand(insn))
                    [] OTHER -> Xor(reg.a, Operand(insn))
<1>2. val \in Byte
  BY <1>1, BitwiseIsByte
<1> HIDE DEF val
<1> DEFINE p == UpdateNZ(reg.p, val)
<1>3. p \in ProgramFlags /\ ChainOK(chain, p)
  BY <1>2, FollowKeeps
<1>4. Leaves([Next_(insn) EXCEPT !.a = val, !.p = p], ram, chain)
  BY Zenon DEF Logic, val
<1> HIDE DEF p
<1>5. [Next_(insn) EXCEPT !.a = val, !.p = p] \in Registers
      /\ [Next_(insn) EXCEPT !.a = val, !.p = p].p = p
  BY <1>2, <1>3, Answer
<1>. QED BY <1>1, <1>3, <1>4, <1>5, LeavesKeeps, Zenon

LEMMA BitKeeps ==
  ASSUME CoreInv, rom' = rom, NEW insn, Assembled(insn), bit_base(insn)
  PROVE  CoreInv'
<1> DEFINE v == Operand(insn)
<1> DEFINE b6 == ((v \div (Half \div 2)) % 2 = 1)
<1> DEFINE n == Neg(v)
<1> DEFINE z == (And(reg.a, v) = 0)
<1>1. v \in Byte /\ CellsKept(ram) /\ reg.p \in ProgramFlags /\ reg.a \in Byte
  BY CoreFacts
<1>2. b6 \in BOOLEAN /\ z \in BOOLEAN /\ n \in BOOLEAN
  BY <1>1, SizeFacts DEF Neg, Byte
<1> DEFINE p == [reg.p EXCEPT !.v = b6, !.n = n, !.z = z]
<1>3. Leaves([Next_(insn) EXCEPT !.p = p], ram, NoChain)
  BY Zenon DEF bit_base
<1> HIDE DEF b6, n, z
<1>4. p \in ProgramFlags
  BY <1>1, <1>2 DEF ProgramFlags, Flags
<1> HIDE DEF p
<1>5. [Next_(insn) EXCEPT !.p = p] \in Registers /\ [Next_(insn) EXCEPT !.p = p].p = p
  BY <1>1, <1>4, Answer
<1>6. ChainOK(NoChain, p)
  BY <1>4, NoChainOK DEF ProgramFlags
<1>. QED BY <1>1, <1>3, <1>4, <1>5, <1>6, LeavesKeeps, Zenon

LEMMA AdcSbcKeeps ==
  ASSUME CoreInv, rom' = rom, NEW insn, Assembled(insn), AdcSbc(insn)
  PROVE  CoreInv'
<1> DEFINE v == Operand(insn)
<1>1. v \in Byte /\ CellsKept(ram) /\ reg.p \in ProgramFlags /\ reg.a \in Byte /\ ChainOK(chain, reg.p)
  BY CoreFacts
<1>2. CASE insn.op = "adc"
  <2> DEFINE res == adc_base(reg.a, v, reg.p)
  <2>1. Leaves([Next_(insn) EXCEPT !.a = res.val, !.p = res.p], ram,
               Grown("add", reg.a, v, res.val, TRUE))
    BY <1>2 DEF AdcSbc
  <2>2. res.val \in Byte /\ res.p \in ProgramFlags
    BY <1>1, SumFlags, Zenon
  <2>3. ChainOK(Grown("add", reg.a, v, res.val, TRUE), res.p)
    BY <1>1, GrownOK, Zenon
  <2>. QED BY <1>1, <2>1, <2>2, <2>3, AnswerKeeps, Zenon
<1>3. CASE insn.op = "sbc"
  <2> DEFINE res == sbc_base(reg.a, v, reg.p)
  <2>1. Leaves([Next_(insn) EXCEPT !.a = res.val, !.p = res.p], ram,
               Grown("sub", reg.a, v, res.val, TRUE))
    BY <1>3 DEF AdcSbc
  <2>2. res.val \in Byte /\ res.p \in ProgramFlags
    BY <1>1, SumFlags, Zenon
  <2>3. ChainOK(Grown("sub", reg.a, v, res.val, TRUE), res.p)
    BY <1>1, GrownOK, Zenon
  <2>. QED BY <1>1, <2>1, <2>2, <2>3, AnswerKeeps, Zenon
<1>. QED BY <1>2, <1>3 DEF AdcSbc

LEMMA CompareKeeps ==
  ASSUME CoreInv, rom' = rom, NEW insn, Assembled(insn), Compare(insn)
  PROVE  CoreInv'
<1> DEFINE v == Operand(insn)
<1> DEFINE n == CASE insn.op = "cmp" -> reg.a [] insn.op = "cpx" -> reg.x [] OTHER -> reg.y
<1>1. v \in Byte /\ n \in Byte /\ CellsKept(ram) /\ reg.p \in ProgramFlags /\ reg.a \in Byte
  BY CoreFacts
<1> DEFINE res == cpn_base(v, n, reg.p)
<1>2. Leaves([Next_(insn) EXCEPT !.p = res.p], ram, Extend(Begin("sub"), n, v, res.val, FALSE))
  BY Zenon DEF Compare
<1>3. res.p \in ProgramFlags /\ ChainOK(Extend(Begin("sub"), n, v, res.val, FALSE), res.p)
  BY <1>1, CompareBegins, Zenon
<1> HIDE DEF n, res
<1>. QED BY <1>1, <1>2, <1>3, AnswerKeeps, Zenon

\* The shifts, on the accumulator and on memory.
LEMMA ShiftFacts ==
  ASSUME CoreInv, NEW v \in Byte, NEW op \in {"asl", "lsr", "rol", "ror"}
  PROVE  LET res == ShiftResult(op, v)
         IN  /\ res.val \in Byte /\ res.p \in ProgramFlags
             /\ ChainOK(ShiftChain(op, v, res.val), res.p)
<1>1. reg.p \in ProgramFlags /\ ChainOK(chain, reg.p)
  BY DEF CoreInv, RegistersOK
<1>2. /\ LeftShifted(asl_base(v, reg.p), v, 0, reg.p)
      /\ LeftShifted(rol_base(v, reg.p), v, Carry(reg.p), reg.p)
      /\ RightShifted(lsr_base(v, reg.p), v, 0, reg.p)
      /\ RightShifted(ror_base(v, reg.p), v, Carry(reg.p), reg.p)
  BY <1>1, ShiftsShift, Zenon
<1>3. CASE op = "asl"
  <2>1. ShiftResult(op, v) = asl_base(v, reg.p)
    BY <1>3 DEF ShiftResult
  <2>2. \A val : ShiftChain(op, v, val) = Extend(Begin("shl"), v, 0, val, FALSE)
    BY <1>3 DEF ShiftChain
  <2>. QED BY <1>1, <1>2, <2>1, <2>2, ShiftBegins, Zenon DEF LeftShifted
<1>4. CASE op = "rol"
  <2>1. ShiftResult(op, v) = rol_base(v, reg.p)
    BY <1>4 DEF ShiftResult
  <2>2. \A val : ShiftChain(op, v, val) = Grown("shl", v, 0, val, FALSE)
    BY <1>4 DEF ShiftChain
  <2>. QED BY <1>1, <1>2, <2>1, <2>2, GrownOK, Zenon DEF LeftShifted
<1>5. CASE op = "lsr"
  <2>1. ShiftResult(op, v) = lsr_base(v, reg.p)
    BY <1>5 DEF ShiftResult
  <2>2. \A val : ShiftChain(op, v, val) = ExtendDown(Begin("shr"), v, val)
    BY <1>5 DEF ShiftChain
  <2>. QED BY <1>1, <1>2, <2>1, <2>2, ShiftBegins, Zenon DEF RightShifted
<1>6. CASE op = "ror"
  <2>1. ShiftResult(op, v) = ror_base(v, reg.p)
    BY <1>6 DEF ShiftResult
  <2>2. \A val : ShiftChain(op, v, val) = GrownDown(v, val)
    BY <1>6 DEF ShiftChain
  <2>. QED BY <1>1, <1>2, <2>1, <2>2, GrownOK, Zenon DEF RightShifted
<1>. QED BY <1>3, <1>4, <1>5, <1>6

LEMMA ShiftKeeps ==
  ASSUME CoreInv, rom' = rom, NEW insn, Assembled(insn), Shift(insn)
  PROVE  CoreInv'
<1> DEFINE v == Operand(insn)
<1> DEFINE res == ShiftResult(insn.op, v)
<1> DEFINE ch == ShiftChain(insn.op, v, res.val)
<1>1. v \in Byte /\ CellsKept(ram) /\ \A val \in Byte : CellsKept(Stored(val))
  BY CoreFacts
<1>2. /\ insn.op \in {"asl", "lsr", "rol", "ror"}
      /\ \/ Leaves([Next_(insn) EXCEPT !.a = res.val, !.p = res.p], ram, ch)
         \/ Leaves([Next_(insn) EXCEPT !.p = res.p], Stored(res.val), ch)
  BY Zenon DEF Shift
<1>3. res.val \in Byte /\ res.p \in ProgramFlags /\ ChainOK(ch, res.p)
  BY <1>1, <1>2, ShiftFacts, Zenon
<1> HIDE DEF v, res, ch
<1>. QED BY <1>1, <1>2, <1>3, AnswerKeeps, Zenon

LEMMA ShiftAndLogicKeeps ==
  ASSUME CoreInv, rom' = rom, NEW insn, Assembled(insn), ShiftAndLogic(insn)
  PROVE  CoreInv'
<1> DEFINE op == CASE insn.op = "slo" -> "asl" [] insn.op = "rla" -> "rol" [] OTHER -> "lsr"
<1> DEFINE v == Operand(insn)
<1> DEFINE res == ShiftResult(op, v)
<1> DEFINE val == CASE insn.op = "slo" -> Or(reg.a, res.val)
                    [] insn.op = "rla" -> And(reg.a, res.val)
                    [] OTHER -> Xor(reg.a, res.val)
<1> DEFINE ch == ShiftChain(op, v, res.val)
<1>1. v \in Byte /\ reg.a \in Byte /\ \A b \in Byte : CellsKept(Stored(b))
  BY CoreFacts
<1>2. Leaves([Next_(insn) EXCEPT !.a = val, !.p = UpdateNZ(res.p, val)], Stored(res.val), ch)
  BY Zenon DEF ShiftAndLogic
<1>3. op \in {"asl", "lsr", "rol", "ror"}
  OBVIOUS
<1> HIDE DEF op, v
<1>4. res.val \in Byte /\ res.p \in ProgramFlags /\ ChainOK(ch, res.p)
  BY <1>1, <1>3, ShiftFacts, Zenon
<1> HIDE DEF res, ch
<1>5. val \in Byte
  BY <1>1, <1>4, BitwiseIsByte
<1> HIDE DEF val
<1> DEFINE q == UpdateNZ(res.p, val)
<1>6. q \in ProgramFlags /\ q.c = res.p.c /\ q.v = res.p.v
  <2>1. val \in Int
    BY <1>5, SizeFacts DEF Byte
  <2>. QED BY <1>4, <2>1, FlagsFollow, Zenon
<1> HIDE DEF q
<1>7. ChainOK(ch, q)
  BY <1>4, <1>6, SameCarry DEF ProgramFlags
<1>. QED BY <1>1, <1>2, <1>4, <1>5, <1>6, <1>7, AnswerKeeps, Zenon DEF q

LEMMA RraKeeps ==
  ASSUME CoreInv, rom' = rom, NEW insn, Assembled(insn), rra_base(insn)
  PROVE  CoreInv'
<1> DEFINE shifted == ror_base(Operand(insn), reg.p)
<1> DEFINE res == adc_base(reg.a, shifted.val, shifted.p)
<1>1. /\ Operand(insn) \in Byte /\ reg.a \in Byte /\ reg.p \in ProgramFlags
      /\ \A b \in Byte : CellsKept(Stored(b))
  BY CoreFacts
<1>2. Leaves([Next_(insn) EXCEPT !.a = res.val, !.p = res.p], Stored(shifted.val), NoChain)
  BY Zenon DEF rra_base
<1>3. shifted.val \in Byte /\ shifted.p \in ProgramFlags
  BY <1>1, ShiftsShift, Zenon DEF RightShifted
<1> HIDE DEF shifted
<1>4. res.val \in Byte /\ res.p \in ProgramFlags
  BY <1>1, <1>3, SumFlags, Zenon
<1> HIDE DEF res
<1>5. ChainOK(NoChain, res.p)
  BY <1>4, NoChainOK DEF ProgramFlags
<1>. QED BY <1>1, <1>2, <1>3, <1>4, <1>5, AnswerKeeps, Zenon

\* A byte computed without the carry.
LEMMA PlainResult ==
  ASSUME CoreInv, NEW val \in Byte
  PROVE  LET res == Result(val, reg.p)
         IN  res.val \in Byte /\ res.p \in ProgramFlags /\ ChainOK(chain, res.p)
<1>1. Result(val, reg.p).val = val /\ Result(val, reg.p).p = UpdateNZ(reg.p, val)
  BY DEF Result
<1>. QED BY <1>1, FollowKeeps, Zenon

LEMMA WrapsToByte == ASSUME NEW n \in Int PROVE n % Size \in Byte
BY SizeFacts DEF Byte

LEMMA IncDecKeeps ==
  ASSUME CoreInv, rom' = rom, NEW insn, Assembled(insn), IncDec(insn)
  PROVE  CoreInv'
<1> DEFINE v == Operand(insn)
<1> DEFINE res == IF insn.op = "inc" THEN inc_base(v, reg.p) ELSE dec_base(v, reg.p)
<1>1. v \in Byte /\ \A val \in Byte : CellsKept(Stored(val))
  BY CoreFacts
<1>2. Leaves([Next_(insn) EXCEPT !.p = res.p], Stored(res.val), chain)
  BY Zenon DEF IncDec
<1>3. (v + 1) % Size \in Byte /\ (v - 1) % Size \in Byte
  BY <1>1, WrapsToByte, SizeFacts DEF Byte
<1> HIDE DEF v
<1>4. res.val \in Byte /\ res.p \in ProgramFlags /\ ChainOK(chain, res.p)
  BY <1>3, PlainResult, Zenon DEF inc_base, dec_base
<1> HIDE DEF res
<1>. QED BY <1>1, <1>2, <1>4, AnswerKeeps, Zenon

LEMMA DcpKeeps ==
  ASSUME CoreInv, rom' = rom, NEW insn, Assembled(insn), dcp_base(insn)
  PROVE  CoreInv'
<1> DEFINE val == (Operand(insn) - 1) % Size
<1> DEFINE res == cpn_base(val, reg.a, reg.p)
<1>1. /\ Operand(insn) \in Byte /\ reg.a \in Byte /\ reg.p \in ProgramFlags
      /\ \A b \in Byte : CellsKept(Stored(b))
  BY CoreFacts
<1>2. Leaves([Next_(insn) EXCEPT !.p = res.p], Stored(val),
             Extend(Begin("sub"), reg.a, val, res.val, FALSE))
  BY Zenon DEF dcp_base
<1>3. val \in Byte
  BY <1>1, WrapsToByte, SizeFacts DEF Byte
<1> HIDE DEF val
<1>4. res.p \in ProgramFlags /\ ChainOK(Extend(Begin("sub"), reg.a, val, res.val, FALSE), res.p)
  BY <1>1, <1>3, CompareBegins, Zenon
<1> HIDE DEF res
<1>. QED BY <1>1, <1>2, <1>3, <1>4, AnswerKeeps, Zenon

LEMMA IsbKeeps ==
  ASSUME CoreInv, rom' = rom, NEW insn, Assembled(insn), isb(insn)
  PROVE  CoreInv'
<1> DEFINE val == (Operand(insn) + 1) % Size
<1> DEFINE res == sbc_base(reg.a, val, reg.p)
<1>1. /\ Operand(insn) \in Byte /\ reg.a \in Byte /\ reg.p \in ProgramFlags
      /\ ChainOK(chain, reg.p) /\ \A b \in Byte : CellsKept(Stored(b))
  BY CoreFacts
<1>2. Leaves([Next_(insn) EXCEPT !.a = res.val, !.p = res.p], Stored(val),
             Grown("sub", reg.a, val, res.val, TRUE))
  BY Zenon DEF isb
<1>3. val \in Byte
  BY <1>1, WrapsToByte, SizeFacts DEF Byte
<1> HIDE DEF val
<1>4. /\ res.val \in Byte /\ res.p \in ProgramFlags
      /\ ChainOK(Grown("sub", reg.a, val, res.val, TRUE), res.p)
  BY <1>1, <1>3, SumFlags, GrownOK, Zenon
<1> HIDE DEF res
<1>. QED BY <1>1, <1>2, <1>3, <1>4, AnswerKeeps, Zenon

\* Instructions that leave memory and the chain alone.
LEMMA PlainKeeps ==
  ASSUME CoreInv, rom' = rom, NEW r \in Registers, r.p \in ProgramFlags,
         r.p.c = reg.p.c, r.p.v = reg.p.v, NEW cells, CellsKept(cells), Leaves(r, cells, chain)
  PROVE  CoreInv'
<1>1. ChainOK(chain, r.p)
  BY ChainGoesOn, Zenon
<1>. QED BY <1>1, LeavesKeeps, Zenon

LEMMA LoadKeeps ==
  ASSUME CoreInv, rom' = rom, NEW insn, Assembled(insn), Load(insn)
  PROVE  CoreInv'
<1> DEFINE res == ld_base(Operand(insn), reg.p)
<1> DEFINE r == [Next_(insn) EXCEPT !.p = res.p]
<1>1. Operand(insn) \in Byte /\ CellsKept(ram)
  BY CoreFacts
<1>2. res.val \in Byte /\ res.p \in ProgramFlags /\ ChainOK(chain, res.p)
  BY <1>1, PlainResult, Zenon DEF ld_base
<1>3. \E regs \in {[r EXCEPT !.a = res.val], [r EXCEPT !.x = res.val], [r EXCEPT !.y = res.val],
                   [r EXCEPT !.a = res.val, !.x = res.val]} : Leaves(regs, ram, chain)
  BY Zenon DEF Load
<1> HIDE DEF res
<1>4. r \in Registers /\ r.p = res.p
  BY <1>2, Answer
<1> HIDE DEF r
<1>5. \A regs \in {[r EXCEPT !.a = res.val], [r EXCEPT !.x = res.val], [r EXCEPT !.y = res.val],
                   [r EXCEPT !.a = res.val, !.x = res.val]} :
        regs \in Registers /\ regs.p = res.p
  BY <1>2, <1>4 DEF Registers
<1>. QED BY <1>1, <1>2, <1>3, <1>5, LeavesKeeps, Zenon

LEMMA StoreKeeps ==
  ASSUME CoreInv, rom' = rom, NEW insn, Assembled(insn), Store(insn)
  PROVE  CoreInv'
<1> DEFINE val == CASE insn.op = "sta" -> reg.a [] insn.op = "stx" -> reg.x
                    [] insn.op = "sty" -> reg.y [] OTHER -> And(reg.a, reg.x)
<1>1. /\ reg.a \in Byte /\ reg.x \in Byte /\ reg.y \in Byte /\ \A b \in Byte : CellsKept(Stored(b))
      /\ Next_(insn) \in Registers /\ Next_(insn).p = reg.p /\ reg.p \in ProgramFlags
  BY CoreFacts
<1>2. val \in Byte
  BY <1>1, BitwiseIsByte
<1>3. Leaves(Next_(insn), Stored(val), chain)
  BY Zenon DEF Store
<1> HIDE DEF val
<1>. QED BY <1>1, <1>2, <1>3, PlainKeeps, Zenon

LEMMA TransferKeeps ==
  ASSUME CoreInv, rom' = rom, NEW insn, Assembled(insn), Transfer(insn)
  PROVE  CoreInv'
<1> DEFINE val == CASE insn.op \in {"tax", "tay"} -> reg.a
                    [] insn.op = "txa" -> reg.x
                    [] insn.op = "tya" -> reg.y
                    [] insn.op = "tsx" -> reg.s
                    [] insn.op = "inx" -> (reg.x + 1) % Size
                    [] insn.op = "iny" -> (reg.y + 1) % Size
                    [] insn.op = "dex" -> (reg.x - 1) % Size
                    [] OTHER -> (reg.y - 1) % Size
<1> DEFINE q == ld_base(val, reg.p).p
<1> DEFINE r == [Next_(insn) EXCEPT !.p = q]
<1>1. reg.a \in Byte /\ reg.x \in Byte /\ reg.y \in Byte /\ reg.s \in Byte /\ CellsKept(ram)
  BY CoreFacts
<1>2. \A b \in Byte : (b + 1) % Size \in Byte /\ (b - 1) % Size \in Byte
  BY WrapsToByte, SizeFacts DEF Byte
<1>3. val \in Byte
  BY <1>1, <1>2
<1>4. \E regs \in {[r EXCEPT !.a = val], [r EXCEPT !.x = val], [r EXCEPT !.y = val]} :
        Leaves(regs, ram, chain)
  BY Zenon DEF Transfer
<1> HIDE DEF val
<1>5. q \in ProgramFlags /\ ChainOK(chain, q)
  BY <1>3, PlainResult, Zenon DEF ld_base
<1> HIDE DEF q
<1>6. r \in Registers /\ r.p = q
  BY <1>3, <1>5, Answer
<1> HIDE DEF r
<1>7. \A regs \in {[r EXCEPT !.a = val], [r EXCEPT !.x = val], [r EXCEPT !.y = val]} :
        regs \in Registers /\ regs.p = q
  BY <1>3, <1>6 DEF Registers
<1>. QED BY <1>1, <1>4, <1>5, <1>7, LeavesKeeps, Zenon

LEMMA TxsAndNopKeep ==
  ASSUME CoreInv, rom' = rom, NEW insn, Assembled(insn), txs(insn) \/ nop(insn)
  PROVE  CoreInv'
<1> DEFINE n == Next_(insn)
<1>1. n \in Registers /\ n.p = reg.p /\ reg.p \in ProgramFlags /\ CellsKept(ram) /\ reg.x \in Byte
  BY CoreFacts
<1>2. Leaves([n EXCEPT !.s = reg.x], ram, chain) \/ Leaves(n, ram, chain)
  BY Zenon DEF txs, nop
<1> HIDE DEF n
<1>3. [n EXCEPT !.s = reg.x] \in Registers /\ [n EXCEPT !.s = reg.x].p = n.p
  BY <1>1 DEF Registers
<1>. QED BY <1>1, <1>2, <1>3, PlainKeeps, Zenon

LEMMA SetFlagKeeps ==
  ASSUME CoreInv, rom' = rom, NEW insn, Assembled(insn), SetFlag(insn)
  PROVE  CoreInv'
<1> DEFINE clc == [reg.p EXCEPT !.c = FALSE]
<1> DEFINE sec == [reg.p EXCEPT !.c = TRUE]
<1> DEFINE clv == [reg.p EXCEPT !.v = FALSE]
<1> DEFINE others == {[reg.p EXCEPT !.i = FALSE], [reg.p EXCEPT !.i = TRUE],
                      [reg.p EXCEPT !.d = FALSE], [reg.p EXCEPT !.d = TRUE]}
<1>1. reg.p \in ProgramFlags /\ CellsKept(ram)
  BY CoreFacts
<1>2. \/ Leaves([Next_(insn) EXCEPT !.p = clc], ram, Begin("add"))
      \/ Leaves([Next_(insn) EXCEPT !.p = sec], ram, Begin("sub"))
      \/ Leaves([Next_(insn) EXCEPT !.p = clv], ram, NoChain)
      \/ \E q \in others : Leaves([Next_(insn) EXCEPT !.p = q], ram, chain)
  BY DEF SetFlag
<1>3. clc \in ProgramFlags /\ ~clc.c /\ sec \in ProgramFlags /\ sec.c /\ clv \in ProgramFlags
  BY <1>1, FlagSet
<1>4. \A q \in others : q \in ProgramFlags /\ q.c = reg.p.c /\ q.v = reg.p.v
  BY <1>1 DEF ProgramFlags, Flags
<1> HIDE DEF clc, sec, clv, others
<1>5. ChainOK(Begin("add"), clc) /\ ChainOK(Begin("sub"), sec) /\ ChainOK(NoChain, clv)
  BY <1>3, BeginOK, NoChainOK DEF ProgramFlags
<1>6. \A q \in others : ChainOK(chain, q)
  BY <1>4, ChainGoesOn, Zenon
<1>7. 0 \in Byte
  BY SizeFacts DEF Byte
<1>. QED BY <1>1, <1>2, <1>3, <1>4, <1>5, <1>6, <1>7, AnswerKeeps, Zenon

LEMMA JumpsKeep ==
  ASSUME CoreInv, rom' = rom, NEW insn, Assembled(insn), branch_base(insn) \/ jmp(insn)
  PROVE  CoreInv'
<1> DEFINE away == (After(insn) + (IF Taken(insn.op) THEN insn.arg ELSE 0)) % (Size * Size)
<1>1. After(insn) \in Addr /\ CellsKept(ram) /\ reg.p \in ProgramFlags /\ RegistersOK
  BY CoreFacts
<1>2. away \in Addr
  <2>1. insn.arg \in Int /\ After(insn) \in Int
    BY <1>1, SizeFacts DEF Assembled, Insns, Addr
  <2>2. After(insn) + (IF Taken(insn.op) THEN insn.arg ELSE 0) \in Int
    BY <2>1
  <2>. QED BY <2>2, AddressFacts, Zenon
<1>3. Leaves([reg EXCEPT !.pc = away], ram, chain)
      \/ (insn.arg \in Addr /\ Leaves([reg EXCEPT !.pc = insn.arg], ram, chain))
  BY Zenon DEF branch_base, jmp, Assembled
<1> HIDE DEF away
<1>4. \A pc \in Addr : [reg EXCEPT !.pc = pc] \in Registers /\ [reg EXCEPT !.pc = pc].p = reg.p
  BY <1>1 DEF RegistersOK, Registers
<1>. QED BY <1>1, <1>2, <1>3, <1>4, PlainKeeps, Zenon

-----------------------------------------------------------------------------
(* The stack: what is pushed and what is pulled. *)

LEMMA UpFacts ==
  ASSUME RegistersOK, NEW n \in 0..3
  PROVE  /\ Up(n) \in Byte /\ Up(n) \in Cells /\ Up(n) - 1 \in Cells
         /\ reg.s + n < Size => Up(n) = reg.s + n
<1>1. reg.s \in Byte
  BY DEF RegistersOK, Registers
<1>2. reg.s + n \in Int
  BY <1>1, SizeFacts DEF Byte
<1>3. Up(n) \in Byte
  BY <1>2, WrapsToByte DEF Up
<1>4. reg.s + n < Size => Up(n) = reg.s + n
  BY <1>1, SizeFacts DEF Up, Byte
<1>. QED BY <1>3, <1>4, SizeFacts DEF Byte, Cells, DataByte

LEMMA CellFacts ==
  ASSUME CellsOK, NEW c \in Cells
  PROVE  /\ IsByte(c) => ram[c].byte \in Byte
         /\ IsFlags(c) => ram[c].flags \in Flags
<1>1. ram[c] \in CellValues
  BY DEF CellsOK
<1>. QED BY <1>1 DEF IsByte, IsFlags, CellValues

\* Two bytes make an address.
LEMMA WordIsAddress ==
  ASSUME RegistersOK, CellsOK, NEW n \in 0..3, IsWord(Up(n))
  PROVE  Word(Up(n)) \in Addr
<1> DEFINE c == Up(n)
<1>1. c \in Cells /\ c - 1 \in Cells
  BY UpFacts
<1> HIDE DEF c
<1>2. ram[c].byte \in Byte /\ ram[c - 1].byte \in Byte
  BY <1>1, CellFacts DEF IsWord, c
<1> DEFINE hi == ram[c].byte
<1> DEFINE lo == ram[c - 1].byte
<1> HIDE DEF hi, lo
<1>3. Size * hi + lo \in Addr
  <2>1. Size \in Nat \ {0} /\ hi \in Nat /\ hi < Size /\ lo \in Byte
    BY <1>2, SizeFacts DEF hi, lo, Byte
  <2>2. hi * Size + lo \in Nat /\ hi * Size + lo < Size * Size
    BY <2>1, OnBottom
  <2>3. hi * Size = Size * hi
    BY <2>1
  <2>. QED BY <2>2, <2>3, SizeFacts DEF Addr
<1>. QED BY <1>3 DEF Word, c, hi, lo

LEMMA PulledFacts ==
  ASSUME NEW p \in Flags
  PROVE  Pulled(p) \in ProgramFlags /\ (p \in ProgramFlags => Pulled(p) = p)
BY DEF Pulled, ProgramFlags, Flags

\* One byte pushed is below every frame.
LEMMA PushKeeps ==
  ASSUME RegistersOK, CellsOK, NEW cell \in CellValues
  PROVE  push8(Stack, cell).s \in Byte /\ CellsKept(push8(Stack, cell).ram)
<1>1. reg.s \in Byte /\ reg.s \in Cells /\ reg.s # DataByte /\ DataByte \in Cells /\ reg.s - 1 \in Int
  BY SizeFacts DEF RegistersOK, Registers, Byte, Cells, DataByte
<1>2. /\ push8(Stack, cell).s = (reg.s - 1) % Size
      /\ push8(Stack, cell).ram = [ram EXCEPT ![reg.s] = cell]
  BY DEF push8, Stack
<1>3. (reg.s - 1) % Size \in Byte
  BY <1>1, WrapsToByte
<1> DEFINE s == reg.s
<1> DEFINE cells == [ram EXCEPT ![s] = cell]
<1>4. ram \in [Cells -> CellValues] /\ ram[DataByte] \in [byte : Byte]
  BY DEF CellsOK
<1> HIDE DEF s
<1>5. /\ cells \in [Cells -> CellValues] /\ cells[DataByte] = ram[DataByte]
      /\ \A c \in Cells : c # s => cells[c] = ram[c]
  BY <1>1, <1>4 DEF s
<1>6. \A c \in Cells : c > s => c # s
  BY <1>1, SizeFacts DEF s, Byte, Cells, DataByte
<1>7. CellsKept(cells)
  BY <1>4, <1>5, <1>6, Zenon DEF CellsKept, s
<1>. QED BY <1>2, <1>3, <1>7, Zenon DEF s

LEMMA PushesKeep ==
  ASSUME CoreInv, rom' = rom, NEW insn, Assembled(insn), pha(insn) \/ php(insn)
  PROVE  CoreInv'
<1>1. /\ RegistersOK /\ CellsOK /\ reg.p \in ProgramFlags /\ reg.a \in Byte
      /\ Next_(insn) \in Registers /\ Next_(insn).p = reg.p
  BY CoreFacts
<1> DEFINE b == [byte |-> reg.a]
<1> DEFINE p == [flags |-> [reg.p EXCEPT !.b = TRUE]]
<1>2. b \in CellValues /\ p \in CellValues
  <2>1. [reg.p EXCEPT !.b = TRUE] \in Flags
    BY <1>1 DEF ProgramFlags, Flags
  <2>. QED BY <1>1, <2>1 DEF CellValues
<1>3. \E cell \in {b, p} :
        Leaves([Next_(insn) EXCEPT !.s = push8(Stack, cell).s], push8(Stack, cell).ram, chain)
  BY Zenon DEF pha, php
<1> HIDE DEF b, p
<1>4. PICK cell \in CellValues :
        Leaves([Next_(insn) EXCEPT !.s = push8(Stack, cell).s], push8(Stack, cell).ram, chain)
  BY <1>2, <1>3, Zenon
<1> DEFINE s == push8(Stack, cell).s
<1> DEFINE cells == push8(Stack, cell).ram
<1>5. s \in Byte /\ CellsKept(cells)
  BY <1>1, PushKeeps
<1> HIDE DEF s, cells
<1>6. [Next_(insn) EXCEPT !.s = s] \in Registers /\ [Next_(insn) EXCEPT !.s = s].p = reg.p
  BY <1>1, <1>5 DEF Registers
<1>7. Leaves([Next_(insn) EXCEPT !.s = s], cells, chain)
  BY <1>4 DEF s, cells
<1>. QED BY <1>1, <1>5, <1>6, <1>7, PlainKeeps, Zenon

LEMMA PlaKeeps ==
  ASSUME CoreInv, rom' = rom, NEW insn, Assembled(insn), pla(insn)
  PROVE  CoreInv'
<1> DEFINE s == Up(1)
<1> DEFINE val == pop8.byte
<1> DEFINE p == UpdateNZ(reg.p, val)
<1>1. RegistersOK /\ CellsOK /\ CellsKept(ram) /\ Next_(insn) \in Registers /\ IsByte(s)
  BY CoreFacts DEF pla
<1>2. s \in Byte /\ s \in Cells
  BY <1>1, UpFacts
<1>3. Leaves([Next_(insn) EXCEPT !.s = s, !.a = val, !.p = p], ram, chain)
  BY Zenon DEF pla
<1> HIDE DEF s
<1>4. val \in Byte
  BY <1>1, <1>2, CellFacts DEF pop8, s
<1> HIDE DEF val
<1>5. p \in ProgramFlags /\ ChainOK(chain, p)
  BY <1>4, FollowKeeps
<1> HIDE DEF p
<1>6. [Next_(insn) EXCEPT !.s = s, !.a = val, !.p = p] \in Registers
      /\ [Next_(insn) EXCEPT !.s = s, !.a = val, !.p = p].p = p
  BY <1>1, <1>2, <1>4, <1>5 DEF Registers, ProgramFlags
<1>. QED BY <1>1, <1>3, <1>5, <1>6, LeavesKeeps, Zenon

LEMMA PlpKeeps ==
  ASSUME CoreInv, rom' = rom, NEW insn, Assembled(insn), plp(insn)
  PROVE  CoreInv'
<1> DEFINE s == Up(1)
<1> DEFINE p == Pulled(pop8.flags)
<1>1. RegistersOK /\ CellsOK /\ CellsKept(ram) /\ Next_(insn) \in Registers /\ IsFlags(s)
  BY CoreFacts DEF plp
<1>2. s \in Byte /\ s \in Cells
  BY <1>1, UpFacts
<1>3. Leaves([Next_(insn) EXCEPT !.s = s, !.p = p], ram, NoChain)
  BY Zenon DEF plp
<1> HIDE DEF s
<1>4. pop8.flags \in Flags
  BY <1>1, <1>2, CellFacts DEF pop8, s
<1>5. p \in ProgramFlags /\ p \in Flags
  BY <1>4, PulledFacts DEF ProgramFlags
<1> HIDE DEF p
<1>6. ChainOK(NoChain, p)
  BY <1>5, NoChainOK
<1>7. [Next_(insn) EXCEPT !.s = s, !.p = p] \in Registers
      /\ [Next_(insn) EXCEPT !.s = s, !.p = p].p = p
  BY <1>1, <1>2, <1>5 DEF Registers
<1>. QED BY <1>1, <1>3, <1>5, <1>6, <1>7, LeavesKeeps, Zenon

LEMMA RtsKeeps ==
  ASSUME CoreInv, rom' = rom, NEW insn, Assembled(insn), rts(insn)
  PROVE  CoreInv'
<1> DEFINE s == Up(2)
<1> DEFINE pc == (Word(Up(2)) + 1) % (Size * Size)
<1>1. RegistersOK /\ CellsOK /\ CellsKept(ram) /\ reg.p \in ProgramFlags /\ IsWord(Up(2))
  BY CoreFacts DEF rts
<1>2. s \in Byte
  BY <1>1, UpFacts
<1>3. Leaves([reg EXCEPT !.s = s, !.pc = pc], ram, chain)
  BY Zenon DEF rts
<1>4. pc \in Addr
  <2>1. Word(Up(2)) \in Addr
    BY <1>1, WordIsAddress
  <2>2. Word(Up(2)) + 1 \in Int
    BY <2>1, SizeFacts DEF Addr
  <2>. QED BY <2>2, AddressFacts
<1> HIDE DEF s, pc
<1>5. [reg EXCEPT !.s = s, !.pc = pc] \in Registers /\ [reg EXCEPT !.s = s, !.pc = pc].p = reg.p
  BY <1>1, <1>2, <1>4 DEF RegistersOK, Registers
<1>. QED BY <1>1, <1>3, <1>5, PlainKeeps, Zenon

\* The word that a call or an interrupt pushes is below every frame, unless S
\* wraps; then no frame is below S any more.
LEMMA WordPushed ==
  ASSUME RegistersOK, CellsOK, NEW val \in Addr
  PROVE  LET st == push16(Stack, val)
         IN  /\ st.s \in Byte /\ CellsKept(st.ram)
             /\ st.ram[reg.s] = [byte |-> val \div Size]
             /\ st.ram[reg.s - 1] = [byte |-> val % Size]
             /\ reg.s >= 2 => st.s = reg.s - 2
             /\ reg.s < 2 => st.s >= Size - 2
<1> DEFINE st == push16(Stack, val)
<1> DEFINE s == reg.s
<1> DEFINE below == s - 1
<1> DEFINE lo == [byte |-> val % Size]
<1> DEFINE hi == [byte |-> val \div Size]
<1> DEFINE cells == [ram EXCEPT ![below] = lo, ![s] = hi]
<1>1. st.s = (reg.s - 2) % Size /\ st.ram = cells
  BY DEF push16, Stack
<1>2. s \in Byte
  BY DEF RegistersOK, Registers
<1>3. (s - 2) % Size \in Byte /\ (s >= 2 => (s - 2) % Size = s - 2) /\ (s < 2 => (s - 2) % Size >= Size - 2)
  <2> HIDE DEF s
  <2>1. (s - 2) % Size \in Byte
    BY <1>2, WrapsToByte, SizeFacts DEF Byte
  <2>2. ASSUME s >= 2 PROVE (s - 2) % Size = s - 2
    BY <1>2, <2>2, SizeFacts DEF Byte
  <2>3. ASSUME s < 2 PROVE (s - 2) % Size >= Size - 2
    BY <1>2, <2>3, SizeFacts DEF Byte
  <2>. QED BY <2>1, <2>2, <2>3
<1>4. s \in Cells /\ below \in Cells /\ s # below /\ s # DataByte /\ DataByte \in Cells
  BY <1>2, SizeFacts DEF Byte, Cells, DataByte
<1>5. lo \in [byte : Byte] /\ hi \in [byte : Byte] /\ lo \in CellValues /\ hi \in CellValues
  BY WordFacts DEF CellValues
<1>6. ram \in [Cells -> CellValues] /\ ram[DataByte] \in [byte : Byte]
  BY DEF CellsOK
<1>7. \A c \in Cells : c > s => c # s /\ c # below
  BY <1>2, SizeFacts DEF Byte, Cells, DataByte
<1> HIDE DEF s, below, lo, hi
<1>8. /\ cells \in [Cells -> CellValues] /\ cells[s] = hi /\ cells[below] = lo
      /\ \A c \in Cells : c # s /\ c # below => cells[c] = ram[c]
  BY <1>4, <1>5, <1>6
<1> HIDE DEF cells
<1>9. cells[DataByte] \in [byte : Byte]
  BY <1>4, <1>5, <1>6, <1>8, Zenon
<1>10. CellsKept(cells)
  BY <1>7, <1>8, <1>9, Zenon DEF CellsKept, s
<1>11. st.s \in Byte /\ (s >= 2 => st.s = s - 2) /\ (s < 2 => st.s >= Size - 2)
  BY <1>1, <1>3, Zenon DEF s
<1> HIDE DEF st
<1>12. /\ st.ram[s] = hi /\ st.ram[below] = lo /\ CellsKept(st.ram)
  BY <1>1, <1>8, <1>10, Zenon
<1>13. /\ st.ram[reg.s] = [byte |-> val \div Size]
       /\ st.ram[reg.s - 1] = [byte |-> val % Size]
       /\ reg.s >= 2 => st.s = reg.s - 2
       /\ reg.s < 2 => st.s >= Size - 2
  BY <1>11, <1>12 DEF s, below, lo, hi
<1>. QED BY <1>11, <1>12, <1>13, Zenon DEF st

LEMMA NewFrameFacts ==
  ASSUME CoreInv, NEW kind \in {"jsr", "interrupt"}, NEW resume \in Addr
  PROVE  LET f == NewFrame(kind, resume)
         IN  /\ f \in Frames /\ f.p = reg.p /\ f.p \in ProgramFlags /\ f.s = reg.s
             /\ f.kind = kind /\ f.resume = resume /\ f.chain = chain /\ ChainOK(f.chain, f.p)
<1> DEFINE f == NewFrame(kind, resume)
<1>1. /\ reg.s \in Byte /\ reg.p \in ProgramFlags /\ reg.p \in Flags /\ chain \in Chains
      /\ ChainOK(chain, reg.p)
  BY DEF CoreInv, RegistersOK, Registers, ChainOK
<1>2. /\ f \in Frames /\ f.p = reg.p /\ f.s = reg.s /\ f.kind = kind
      /\ f.resume = resume /\ f.chain = chain
  BY <1>1 DEF NewFrame, Frames
<1>. QED BY <1>1, <1>2, Zenon

LEMMA JsrKeeps ==
  ASSUME CoreInv, rom' = rom, NEW insn, Assembled(insn), jsr(insn)
  PROVE  CoreInv'
<1> DEFINE val == (After(insn) - 1) % (Size * Size)
<1> DEFINE st == push16(Stack, val)
<1> DEFINE new == NewFrame("jsr", After(insn))
<1>1. /\ RegistersOK /\ CellsOK /\ reg.p \in ProgramFlags /\ After(insn) \in Addr /\ reg.s \in Byte
      /\ ChainOK(chain, reg.p)
  BY CoreFacts
<1>2. /\ insn.arg \in Addr /\ ram' = st.ram /\ reg' = [reg EXCEPT !.s = st.s, !.pc = insn.arg]
      /\ chain' = chain
      /\ calls' = Alive(calls \cup {new}, st.s)
  BY Zenon DEF jsr, Assembled
<1>3. val \in Addr
  <2>1. After(insn) - 1 \in Int
    BY <1>1, SizeFacts DEF Addr
  <2>. QED BY <2>1, AddressFacts
<1>4. /\ new \in Frames /\ new.p = reg.p /\ new.s = reg.s /\ new.kind = "jsr"
      /\ new.p \in ProgramFlags /\ new.resume = After(insn) /\ ChainOK(new.chain, new.p)
  BY <1>1, NewFrameFacts, Zenon
<1>5. Pushed(new) = val /\ Held(new) = 2
  BY <1>4 DEF Pushed, Held
<1> HIDE DEF val
<1>6. /\ st.s \in Byte /\ CellsKept(st.ram)
      /\ st.ram[reg.s] = [byte |-> val \div Size]
      /\ st.ram[reg.s - 1] = [byte |-> val % Size]
      /\ reg.s >= 2 => st.s = reg.s - 2
      /\ reg.s < 2 => st.s >= Size - 2
  BY <1>1, <1>3, WordPushed, Zenon
<1> HIDE DEF st, new
<1>7. reg' \in Registers /\ reg'.p = reg.p /\ reg'.s = st.s
  BY <1>1, <1>2, <1>6 DEF RegistersOK, Registers
<1>8. RegistersOK' /\ CellsOK' /\ rom' \in Roms
  BY <1>1, <1>2, <1>6, <1>7, Zenon DEF RegistersOK, CellsOK, CellsKept, CoreInv
<1>9. ASSUME NEW f \in calls' PROVE FrameOK(f)'
  <2>1. f \in calls \cup {new} /\ st.s <= f.s - Held(f)
    BY <1>2, <1>9, Zenon DEF Alive
  <2>2. CASE f \in calls
    BY <1>1, <1>2, <1>6, <1>7, <2>1, <2>2, FrameKept, Zenon DEF CoreInv
  <2>3. CASE f = new
    <3>1. /\ f \in Frames /\ f.s = reg.s /\ f.kind = "jsr" /\ f.kind # "interrupt"
          /\ f.p \in ProgramFlags /\ ChainOK(f.chain, f.p) /\ Pushed(f) = val
      BY <1>4, <1>5, <2>3
    <3>2. /\ reg'.s <= f.s - Held(f)
          /\ ram'[f.s] = [byte |-> Pushed(f) \div Size]
          /\ ram'[f.s - 1] = [byte |-> Pushed(f) % Size]
      BY <1>2, <1>6, <1>7, <2>1, <3>1, Zenon
    <3>. QED BY <3>1, <3>2, Zenon DEF FrameOK, Pushed, Held
  <2>. QED BY <2>1, <2>2, <2>3, Zenon
<1>10. ChainOK(chain, reg.p)'
  BY <1>1, <1>2, <1>7, Zenon DEF ChainOK, WideExact, SignedExact, Fits
<1>. QED BY <1>8, <1>9, <1>10, Zenon DEF CoreInv

\* NMI and IRQ push three cells; when S wraps, every frame is given up.
LEMMA InterruptKeeps ==
  ASSUME CoreInv, NEW vector \in Addr, Interrupt(vector)
  PROVE  CoreInv'
<1> DEFINE word == push16(Stack, reg.pc)
<1> DEFINE st == push8(word, [flags |-> reg.p])
<1> DEFINE new == NewFrame("interrupt", reg.pc)
<1> DEFINE q == [reg.p EXCEPT !.i = TRUE]
<1> DEFINE cell == [flags |-> reg.p]
<1>1. /\ RegistersOK /\ CellsOK /\ reg.p \in ProgramFlags /\ reg.p \in Flags
      /\ reg.pc \in Addr /\ reg.s \in Byte /\ reg \in Registers
      /\ ChainOK(chain, reg.p) /\ \A f \in calls : FrameOK(f)
  BY DEF CoreInv, RegistersOK, Registers
<1>2. /\ ram' = st.ram /\ reg' = [reg EXCEPT !.s = st.s, !.pc = vector, !.p.i = TRUE]
      /\ calls' = Alive(Alive(calls, word.s) \cup {new}, st.s) /\ chain' = chain /\ rom' = rom
  BY Zenon DEF Interrupt
<1>3. /\ new \in Frames /\ new.p = reg.p /\ new.s = reg.s /\ new.kind = "interrupt"
      /\ new.p \in ProgramFlags /\ new.resume = reg.pc /\ ChainOK(new.chain, new.p)
  BY <1>1, NewFrameFacts, Zenon
<1>4. Pushed(new) = reg.pc /\ Held(new) = 3
  BY <1>3 DEF Pushed, Held
<1>5. /\ word.s \in Byte /\ CellsKept(word.ram)
      /\ word.ram[reg.s] = [byte |-> reg.pc \div Size]
      /\ word.ram[reg.s - 1] = [byte |-> reg.pc % Size]
      /\ reg.s >= 2 => word.s = reg.s - 2
      /\ reg.s < 2 => word.s >= Size - 2
  BY <1>1, WordPushed, Zenon
<1>6. st.s = (word.s - 1) % Size /\ st.ram = [word.ram EXCEPT ![word.s] = cell]
  BY DEF push8
<1>7. cell \in CellValues
  BY <1>1 DEF CellValues
<1> HIDE DEF word, st, new, cell
<1>8. /\ st.s \in Byte /\ word.s \in Cells /\ word.s # DataByte
      /\ word.s >= 1 => st.s = word.s - 1
      /\ word.s = 0 => st.s = Size - 1
  <2>1. (word.s - 1) % Size \in Byte
    BY <1>5, WrapsToByte, SizeFacts DEF Byte
  <2>2. ASSUME word.s >= 1 PROVE (word.s - 1) % Size = word.s - 1
    BY <1>5, <2>2, SizeFacts DEF Byte
  <2>3. ASSUME word.s = 0 PROVE (word.s - 1) % Size = Size - 1
    BY <2>3, SizeFacts
  <2>. QED BY <1>5, <1>6, <2>1, <2>2, <2>3, SizeFacts DEF Byte, Cells, DataByte
<1>9. q \in ProgramFlags /\ q.c = reg.p.c /\ q.v = reg.p.v
  BY <1>1 DEF ProgramFlags, Flags
<1>10. reg' \in Registers /\ reg'.p = q /\ reg'.s = st.s
  BY <1>1, <1>2, <1>8 DEF Registers, Flags
<1> HIDE DEF q
<1>11. ChainOK(chain, q)
  BY <1>9, ChainGoesOn, Zenon
<1>12. ChainOK(chain, reg.p)'
  BY <1>2, <1>10, <1>11, Zenon DEF ChainOK, WideExact, SignedExact, Fits
<1> DEFINE cells == word.ram
<1>13. cells \in [Cells -> CellValues] /\ cells[DataByte] \in [byte : Byte]
       /\ \A c \in Cells : c > reg.s => cells[c] = ram[c]
  BY <1>5 DEF CellsKept
<1>14. DataByte \in Cells
  BY SizeFacts DEF Cells, DataByte
<1>15. /\ ram' \in [Cells -> CellValues] /\ ram'[word.s] = cell
       /\ \A c \in Cells : c # word.s => ram'[c] = cells[c]
  <2> HIDE DEF cells
  <2>1. ram' = [cells EXCEPT ![word.s] = cell]
    BY <1>2, <1>6 DEF cells
  <2>. QED BY <1>7, <1>8, <1>13, <2>1
<1>16. CellsOK' /\ RegistersOK' /\ rom' \in Roms
  <2>1. ram'[DataByte] \in [byte : Byte]
    BY <1>8, <1>13, <1>14, <1>15, Zenon
  <2>. QED BY <1>2, <1>9, <1>10, <1>15, <2>1, Zenon DEF CellsOK, RegistersOK, CoreInv
<1>17. ASSUME NEW f \in calls' PROVE FrameOK(f)'
  <2>1. /\ st.s <= f.s - Held(f)
        /\ (f \in calls /\ word.s <= f.s - Held(f)) \/ f = new
    BY <1>2, <1>17, Zenon DEF Alive
  <2>2. f.s \in Byte /\ Held(f) \in {2, 3}
    BY <1>1, <1>3, <1>4, <2>1 DEF FrameOK, Frames, Held
  <2>3. reg.s >= 2 /\ word.s = reg.s - 2
    <3>1. ASSUME reg.s < 2, f \in calls, word.s <= f.s - Held(f) PROVE FALSE
      BY <1>5, <2>2, <3>1, SizeFacts DEF Byte
    <3>2. ASSUME reg.s < 2, f = new PROVE FALSE
      <4>1. f.s < 2 /\ Held(f) = 3 /\ st.s >= 0
        BY <1>3, <1>4, <1>8, <3>2, SizeFacts DEF Byte
      <4>2. st.s \in Int /\ f.s \in Int
        BY <1>8, <2>2, SizeFacts DEF Byte
      <4>. QED BY <2>1, <4>1, <4>2
    <3>. QED BY <1>1, <1>5, <2>1, <3>1, <3>2, SizeFacts DEF Byte
  <2>4. reg.s >= 3 /\ st.s = reg.s - 3
    <3>1. word.s # 0
      BY <1>8, <2>1, <2>2, SizeFacts DEF Byte
    <3>. QED BY <1>1, <1>5, <1>8, <2>3, <3>1, SizeFacts DEF Byte
  <2>5. \A c \in Cells : c > reg.s => ram'[c] = ram[c]
    <3>1. \A c \in Cells : c > reg.s => c # word.s
      BY <1>1, <2>3, SizeFacts DEF Byte, Cells, DataByte
    <3>. QED BY <1>13, <1>15, <3>1, Zenon
  <2>6. CASE f \in calls
    <3>1. CellsKept(ram')
      BY <1>16, <2>5, Zenon DEF CellsKept, CellsOK
    <3>. QED BY <1>1, <1>10, <2>1, <2>6, <3>1, FrameKept, Zenon
  <2>7. CASE f = new
    <3>1. reg.s \in Cells /\ reg.s # word.s /\ reg.s - 1 \in Cells /\ reg.s - 1 # word.s
      BY <1>1, <2>3, SizeFacts DEF Byte, Cells, DataByte
    <3>2. /\ ram'[reg.s] = [byte |-> reg.pc \div Size] /\ ram'[reg.s - 1] = [byte |-> reg.pc % Size]
          /\ ram'[reg.s - 2] = [flags |-> reg.p]
      BY <1>5, <1>15, <2>3, <3>1 DEF cell
    <3>3. /\ f \in Frames /\ f.s = reg.s /\ f.p = reg.p /\ f.p \in ProgramFlags
          /\ ChainOK(f.chain, f.p) /\ Pushed(f) = reg.pc
      BY <1>3, <1>4, <2>7
    <3>4. /\ reg'.s <= f.s - Held(f)
          /\ ram'[f.s] = [byte |-> Pushed(f) \div Size]
          /\ ram'[f.s - 1] = [byte |-> Pushed(f) % Size]
          /\ ram'[f.s - 2] = [flags |-> f.p]
      BY <1>10, <2>1, <3>2, <3>3, Zenon
    <3>. QED BY <3>3, <3>4, Zenon DEF FrameOK, Pushed, Held
  <2>. QED BY <2>1, <2>6, <2>7, Zenon
<1>. QED BY <1>12, <1>16, <1>17, Zenon DEF CoreInv

\* What RTS and RTI find above S when it is right below a frame.
LEMMA FrameAbove ==
  ASSUME CoreInv, NEW f \in calls, reg.s = f.s - Held(f)
  PROVE  /\ f.kind = "jsr" => Up(2) = f.s /\ Word(f.s) = Pushed(f)
         /\ f.kind = "interrupt" =>
              Up(3) = f.s /\ Word(f.s) = Pushed(f) /\ ram[Up(1)] = [flags |-> f.p]
<1>1. /\ RegistersOK /\ f.s \in Byte /\ reg.s \in Byte /\ f.resume \in Addr
      /\ f.kind \in {"jsr", "interrupt"}
      /\ ram[f.s] = [byte |-> Pushed(f) \div Size] /\ ram[f.s - 1] = [byte |-> Pushed(f) % Size]
      /\ f.kind = "interrupt" => ram[f.s - 2] = [flags |-> f.p]
  BY DEF CoreInv, FrameOK, Frames, RegistersOK, Registers
<1>2. Pushed(f) \in Addr
  <2>1. f.resume - 1 \in Int
    BY <1>1, SizeFacts DEF Addr
  <2>2. (f.resume - 1) % (Size * Size) \in Addr
    BY <2>1, AddressFacts
  <2>. QED BY <1>1, <2>2 DEF Pushed
<1> DEFINE v == Pushed(f)
<1> HIDE DEF v
<1>3. Word(f.s) = Size * (v \div Size) + (v % Size)
  BY <1>1 DEF Word, v
<1>4. Word(f.s) = Pushed(f)
  BY <1>2, <1>3, WordFacts DEF v
<1>5. ASSUME f.kind = "jsr" PROVE Up(2) = f.s
  <2>1. Held(f) = 2
    BY <1>5 DEF Held
  <2>2. reg.s + 2 = f.s /\ reg.s + 2 < Size
    BY <1>1, <2>1, SizeFacts DEF Byte
  <2>. QED BY <1>1, <2>2, UpFacts
<1>6. ASSUME f.kind = "interrupt" PROVE Up(3) = f.s /\ Up(1) = f.s - 2
  <2>1. Held(f) = 3
    BY <1>6 DEF Held
  <2>2. reg.s + 3 = f.s /\ reg.s + 3 < Size /\ reg.s + 1 < Size /\ reg.s + 1 = f.s - 2
    BY <1>1, <2>1, SizeFacts DEF Byte
  <2>. QED BY <1>1, <2>2, UpFacts
<1>. QED BY <1>1, <1>4, <1>5, <1>6

\* RTI brings back the flags of the frame that ends, and with them its chain.
LEMMA EndingInterrupt ==
  ASSUME CoreInv, NEW f \in Ending("interrupt")
  PROVE  /\ f \in calls /\ f.kind = "interrupt" /\ Up(3) = f.s /\ Word(f.s) = f.resume
         /\ Pulled(pop8.flags) = f.p /\ f.p \in ProgramFlags /\ ChainOK(f.chain, f.p)
<1>1. f \in calls /\ f.kind = "interrupt" /\ reg.s = f.s - Held(f)
  BY DEF Ending
<1>2. f.p \in ProgramFlags /\ f.p \in Flags /\ ChainOK(f.chain, f.p)
  BY <1>1 DEF CoreInv, FrameOK, ProgramFlags
<1>3. Up(3) = f.s /\ Word(f.s) = Pushed(f) /\ ram[Up(1)] = [flags |-> f.p]
  BY <1>1, FrameAbove
<1>4. Pushed(f) = f.resume
  BY <1>1 DEF Pushed
<1>5. pop8.flags = f.p
  BY <1>3 DEF pop8
<1>. QED BY <1>1, <1>2, <1>3, <1>4, <1>5, PulledFacts

LEMMA RtiKeeps ==
  ASSUME CoreInv, rom' = rom, NEW insn, Assembled(insn), rti(insn)
  PROVE  CoreInv'
<1> DEFINE s == Up(3)
<1> DEFINE pc == Word(Up(3))
<1> DEFINE p == Pulled(pop8.flags)
<1>1. RegistersOK /\ CellsOK /\ CellsKept(ram) /\ IsFlags(Up(1)) /\ IsWord(Up(3))
  BY CoreFacts DEF rti
<1>2. s \in Byte /\ Up(1) \in Cells /\ pc \in Addr
  BY <1>1, UpFacts, WordIsAddress
<1>3. /\ reg' = [reg EXCEPT !.s = s, !.pc = pc, !.p = p] /\ ram' = ram /\ calls' = Alive(calls, s)
      /\ \/ \E f \in Ending("interrupt") : chain' = f.chain
         \/ chain' = NoChain
  BY Zenon DEF rti
<1>4. pop8.flags \in Flags
  BY <1>1, <1>2, CellFacts DEF pop8
<1>5. p \in ProgramFlags /\ p \in Flags
  BY <1>4, PulledFacts DEF ProgramFlags
<1>6. ChainOK(chain', p)
  <2>1. \A f \in Ending("interrupt") : ChainOK(f.chain, p)
    BY EndingInterrupt, Zenon
  <2>2. ChainOK(NoChain, p)
    BY <1>5, NoChainOK
  <2>. QED BY <1>3, <2>1, <2>2, Zenon
<1> HIDE DEF s, pc, p
<1>7. reg' \in Registers /\ reg'.p = p /\ reg'.s = s
  BY <1>1, <1>2, <1>3, <1>5 DEF RegistersOK, Registers
<1>8. RegistersOK' /\ CellsOK' /\ rom' \in Roms
  BY <1>1, <1>3, <1>5, <1>7, Zenon DEF RegistersOK, CellsOK, CoreInv
<1>9. ASSUME NEW f \in calls' PROVE FrameOK(f)'
  <2>1. f \in calls /\ s <= f.s - Held(f)
    BY <1>3, <1>9, Zenon DEF Alive
  <2>. QED BY <1>1, <1>3, <1>7, <2>1, FrameKept, Zenon DEF CoreInv
<1>10. ChainOK(chain, reg.p)'
  BY <1>6, <1>7, Zenon DEF ChainOK, WideExact, SignedExact, Fits
<1>. QED BY <1>8, <1>9, <1>10, Zenon DEF CoreInv

LEMMA InvalidKeeps ==
  ASSUME CoreInv, rom' = rom, NEW insn, Assembled(insn), invalidOpcode(insn)
  PROVE  CoreInv'
<1>1. reg' = Next_(insn) /\ ram' = ram /\ calls' = calls /\ chain' = chain
  BY Zenon DEF invalidOpcode, history
<1>2. /\ Next_(insn) \in Registers /\ Next_(insn).p = reg.p /\ Next_(insn).s = reg.s
      /\ RegistersOK /\ CellsOK /\ CellsKept(ram) /\ ChainOK(chain, reg.p)
  <2>1. RegistersOK
    BY DEF CoreInv
  <2>2. Next_(insn).s = reg.s
    BY <2>1 DEF Next_, RegistersOK, Registers
  <2>. QED BY <2>1, <2>2, CoreFacts
<1>3. RegistersOK' /\ CellsOK' /\ rom' \in Roms
  BY <1>1, <1>2, Zenon DEF RegistersOK, CellsOK, CoreInv
<1>4. ASSUME NEW f \in calls' PROVE FrameOK(f)'
  <2>1. f \in calls /\ FrameOK(f) /\ reg'.s <= f.s - Held(f)
    BY <1>1, <1>2, <1>4, Zenon DEF CoreInv, FrameOK
  <2>. QED BY <1>1, <1>2, <2>1, FrameKept, Zenon
<1>5. ChainOK(chain, reg.p)'
  BY <1>1, <1>2, Zenon DEF ChainOK, WideExact, SignedExact, Fits
<1>. QED BY <1>3, <1>4, <1>5, Zenon DEF CoreInv

LEMMA ExecuteKeeps ==
  ASSUME CoreInv, Execute
  PROVE  CoreInv'
<1>1. PICK insn \in rom.code[reg.pc] : CpuOpcodeExecute(insn)
  BY DEF Execute
<1>2. rom' = rom
  BY DEF Execute
<1>3. Assembled(insn)
  <2>1. rom \in Roms /\ reg.pc \in Addr
    BY DEF CoreInv, RegistersOK, Registers
  <2>. QED BY <2>1, CoreConstants
<1>4. CASE LogicInsns(insn)
  BY <1>2, <1>3, <1>4, LogicKeeps, BitKeeps, ShiftKeeps, ShiftAndLogicKeeps, Zenon DEF LogicInsns
<1>5. CASE CountInsns(insn)
  BY <1>2, <1>3, <1>5, AdcSbcKeeps, RraKeeps, CompareKeeps, IncDecKeeps, DcpKeeps, IsbKeeps, Zenon
     DEF CountInsns
<1>6. CASE MoveInsns(insn)
  BY <1>2, <1>3, <1>6, LoadKeeps, StoreKeeps, TransferKeeps, TxsAndNopKeep, Zenon DEF MoveInsns
<1>7. CASE ControlInsns(insn)
  BY <1>2, <1>3, <1>7, JumpsKeep, JsrKeeps, RtsKeeps, RtiKeeps, Zenon DEF ControlInsns
<1>8. CASE StackInsns(insn)
  BY <1>2, <1>3, <1>8, PushesKeep, PlaKeeps, PlpKeeps, Zenon DEF StackInsns
<1>9. CASE SetFlag(insn) \/ nop(insn) \/ invalidOpcode(insn)
  BY <1>2, <1>3, <1>9, SetFlagKeeps, TxsAndNopKeep, InvalidKeeps, Zenon
<1>. QED BY <1>1, <1>4, <1>5, <1>6, <1>7, <1>8, <1>9, Zenon DEF CpuOpcodeExecute

LEMMA CoreInit ==
  ASSUME CpuInit
  PROVE  CoreInv
<1>1. rom \in Roms /\ reg = CpuRegistersReset /\ calls = {} /\ chain = NoChain
      /\ ram = [c \in Cells |-> [byte |-> 0]]
  BY DEF CpuInit
<1>2. rom.reset \in Addr
  BY <1>1, CoreConstants
<1>3. Size - 3 \in Byte /\ 0 \in Byte /\ DataByte \in Cells
  <2>1. Size \in Int /\ Size >= 4
    BY CoreConstants DEF Size
  <2>. QED BY <2>1 DEF Byte, Cells, DataByte
<1> DEFINE p == [c |-> FALSE, z |-> FALSE, i |-> TRUE, d |-> FALSE,
                 b |-> FALSE, u |-> TRUE, v |-> FALSE, n |-> FALSE]
<1>4. p \in ProgramFlags /\ p \in Flags
  BY DEF ProgramFlags, Flags
<1>5. reg = [pc |-> rom.reset, a |-> 0, x |-> 0, y |-> 0, s |-> Size - 3, p |-> p]
  BY <1>1 DEF CpuRegistersReset
<1> HIDE DEF p
<1>6. reg \in Registers /\ reg.p = p
  BY <1>2, <1>3, <1>4, <1>5 DEF Registers
<1>7. CellsOK
  <2>1. [byte |-> 0] \in [byte : Byte] /\ [byte |-> 0] \in CellValues
    BY <1>3 DEF CellValues
  <2>. QED BY <1>1, <1>3, <2>1 DEF CellsOK
<1>8. ChainOK(chain, reg.p)
  BY <1>1, <1>4, <1>6, NoChainOK
<1>. QED BY <1>1, <1>4, <1>6, <1>7, <1>8 DEF CoreInv, RegistersOK

\* Registers, cells, frames and chain agree in every reachable state of every ROM.
THEOREM CoreInvariant == CoreSpec => []CoreInv
<1>1. CpuInit => CoreInv
  BY CoreInit
<1>2. CoreInv /\ [CoreNext]_vars => CoreInv'
  <2>. SUFFICES ASSUME CoreInv, [CoreNext]_vars PROVE CoreInv'
    OBVIOUS
  <2>1. CASE CpuExecuteNMI \/ CpuExecuteIRQ
    <3>1. PICK vector \in rom.nmi \cup rom.irq : Interrupt(vector)
      BY <2>1, Zenon DEF CpuExecuteNMI, CpuExecuteIRQ
    <3>2. vector \in Addr
      BY <3>1, CoreConstants DEF CoreInv
    <3>. QED BY <3>1, <3>2, InterruptKeeps, Zenon
  <2>2. CASE Execute
    BY <2>2, ExecuteKeeps
  <2>3. CASE UNCHANGED vars
    <3>1. rom' = rom /\ reg' = reg /\ ram' = ram /\ calls' = calls /\ chain' = chain
      BY <2>3 DEF vars, machine, history
    <3>. QED BY <3>1, Zenon DEF CoreInv, RegistersOK, CellsOK, FrameOK, Held, Pushed,
                  ChainOK, WideExact, SignedExact, Fits
  <2>. QED BY <2>1, <2>2, <2>3, Zenon DEF CoreNext
<1>. QED BY <1>1, <1>2, PTL DEF CoreSpec

\* Numbers of any length are added, subtracted, compared and shifted exactly, at
\* every byte and through every interrupt, of every program.
THEOREM WideTheorem == CoreSpec => []WideIsExact
<1>1. CoreInv => WideIsExact
  BY Zenon DEF CoreInv, ChainOK, WideIsExact
<1>. QED BY <1>1, CoreInvariant, PTL

\* An RTS or an RTI that finds S right below a frame resumes what the frame says.
LEMMA ReturnStep ==
  ASSUME CoreInv
  PROVE  \A insn \in rom.code[reg.pc] :
           /\ rts(insn) => \A f \in Ending("jsr") : Resumes(f)
           /\ rti(insn) => \A f \in Ending("interrupt") : Resumes(f)
<1>. TAKE insn \in rom.code[reg.pc]
<1>0. reg \in Registers
  BY DEF CoreInv, RegistersOK
<1>1. ASSUME rts(insn), NEW f \in Ending("jsr") PROVE Resumes(f)
  <2>1. f \in calls /\ f.kind = "jsr" /\ reg.s = f.s - Held(f)
    BY <1>1 DEF Ending
  <2>2. Up(2) = f.s /\ Word(f.s) = Pushed(f) /\ Pushed(f) = (f.resume - 1) % (Size * Size)
    BY <2>1, FrameAbove DEF Pushed
  <2>3. f.resume \in Addr
    BY <2>1 DEF CoreInv, FrameOK, Frames
  <2>4. (Word(f.s) + 1) % (Size * Size) = f.resume
    BY <2>2, <2>3, OneBack
  <2>5. reg' = [reg EXCEPT !.s = f.s, !.pc = f.resume]
    BY <1>1, <2>2, <2>4, Zenon DEF rts, Leaves
  <2>6. reg'.s = f.s /\ reg'.pc = f.resume
    BY <1>0, <2>5 DEF Registers
  <2>. QED BY <2>1, <2>6 DEF Resumes
<1>2. ASSUME rti(insn), NEW f \in Ending("interrupt") PROVE Resumes(f)
  <2>1. /\ f.kind = "interrupt" /\ Up(3) = f.s /\ Word(f.s) = f.resume
        /\ Pulled(pop8.flags) = f.p
    BY <1>2, EndingInterrupt
  <2>2. reg' = [reg EXCEPT !.s = f.s, !.pc = f.resume, !.p = f.p]
    BY <1>2, <2>1, Zenon DEF rti
  <2>3. reg'.s = f.s /\ reg'.pc = f.resume /\ reg'.p = f.p
    BY <1>0, <2>2 DEF Registers
  <2>. QED BY <2>3 DEF Resumes
<1>. QED BY <1>1, <1>2

\* RTS goes on right behind its JSR, and RTI at the instruction the interrupt
\* came before, with the flags it had there, in every program.
THEOREM ReturnsTheorem == CoreSpec => ReturnsExactly
<1>1. CoreInv /\ [CoreNext]_vars =>
        [\A insn \in rom.code[reg.pc] :
           /\ rts(insn) => \A f \in Ending("jsr") : Resumes(f)
           /\ rti(insn) => \A f \in Ending("interrupt") : Resumes(f)]_vars
  BY ReturnStep
<1>. QED BY <1>1, CoreInvariant, PTL DEF CoreSpec, ReturnsExactly

-----------------------------------------------------------------------------
(* The bus cycles of CpuAccess, for every deadline, every number of stolen    *)
(* cycles and every table of the instructions that reach no device.          *)

(***************************************************************************)
(* What a handler still has to do is an ending of what it does, so that    *)
(* the number of its bus cycles tells which one is next, and what those to *)
(* come will count: each one cycle, but the one that forms the address two *)
(* or, where the operand straddles a bank, four.                           *)
(***************************************************************************)
Ops == {"fetch8", "fetch16", "pointer", "dummy", "read", "write"}
EndOf(s, h) ==
  /\ Len(s) <= Len(h)
  /\ \A k \in 1..Len(s) : s[k] = h[Len(h) - Len(s) + k]

\* The bus cycles of an instruction once it has its address.
Access(i) == Len(Indexing(i)) + Len(Data(i))
Left == Len(todo) + (IF Len(todo) > Access(current) THEN 1 + Slip ELSE 0)

AccessTypeOK ==
  /\ current \in IorwInsns \cup FixedInsns \cup {Entry} /\ todo \in Seq(Ops)
  /\ {cycles, pending, io, owed, given} \subseteq Nat

Account == given + pending = owed + Table(current) + Slip
PollInv == stage = "poll" => io = 0 /\ Account
IorwInv ==
  stage = "run" /\ current \in IorwInsns =>
    EndOf(todo, Handler(current)) /\ given + pending + io + Left = owed + Table(current) + Slip
FixedInv ==
  stage = "run" /\ current \notin IorwInsns =>
    /\ \A k \in 1..Len(todo) : todo[k] \in {"fetch8", "fetch16"}
    /\ given = 0 /\ pending = owed

AccessInv == AccessTypeOK /\ stage \in {"poll", "run"} /\ PollInv /\ IorwInv /\ FixedInv

-----------------------------------------------------------------------------
\* The next bus cycle, and the ending it leaves.
LEMMA EndingTail ==
  ASSUME NEW h \in Seq(Ops), NEW s \in Seq(Ops), EndOf(s, h), s # <<>>
  PROVE  /\ Len(s) \in 1..Len(h) /\ Head(s) = h[Len(h) + 1 - Len(s)]
         /\ Tail(s) \in Seq(Ops) /\ Len(Tail(s)) = Len(s) - 1 /\ EndOf(Tail(s), h)
<1>1. Len(s) \in Nat \ {0} /\ Len(h) \in Nat /\ Len(s) <= Len(h)
  BY EmptySeq, LenProperties DEF EndOf
<1>2. Head(s) = s[1]
  BY <1>1
<1>3. s[1] = h[Len(h) - Len(s) + 1]
  BY <1>1 DEF EndOf
<1>4. /\ Tail(s) \in Seq(Ops) /\ Len(Tail(s)) = Len(s) - 1
      /\ \A k \in 1..Len(Tail(s)) : Tail(s)[k] = s[k + 1]
  BY <1>1, HeadTailProperties
<1>5. \A k \in 1..Len(Tail(s)) : Tail(s)[k] = h[Len(h) - Len(Tail(s)) + k]
  <2>1. TAKE k \in 1..Len(Tail(s))
  <2>2. k + 1 \in 1..Len(s) /\ Len(h) - Len(s) + (k + 1) = Len(h) - Len(Tail(s)) + k
    BY <1>1, <1>4
  <2>3. s[k + 1] = h[Len(h) - Len(s) + (k + 1)]
    BY <2>2 DEF EndOf
  <2> QED
    BY <1>4, <2>2, <2>3
<1> QED
  BY <1>1, <1>2, <1>3, <1>4, <1>5 DEF EndOf

\* The parts of a handler, from its end.
LEMMA Parts ==
  ASSUME NEW i \in IorwInsns
  PROVE  /\ Data(i) \in Seq(Ops) /\ Indexing(i) \in Seq(Ops) /\ Address(i) \in Seq(Ops)
         /\ i.kind = "read" => Data(i) = <<"read">>
         /\ i.kind = "store" => Data(i) = <<"write">>
         /\ i.kind = "rmw" => Data(i) = <<"read", "dummy", "write">>
         /\ i.kind \in {"read", "store", "rmw"} /\ i.mode \in {"a", "ai", "ix", "iy"}
         /\ Indexing(i) = <<>> \/ Indexing(i) = <<"dummy">>
         /\ i.mode \in {"a", "ai"} => Address(i) = <<"fetch16">>
         /\ i.mode = "ix" => Address(i) = <<"fetch8", "dummy", "pointer">>
         /\ i.mode = "iy" => Address(i) = <<"fetch8", "pointer">>
<1>1. i.kind \in {"read", "store", "rmw"} /\ i.mode \in {"a", "ai", "ix", "iy"}
  BY DEF IorwInsns
<1>2. /\ i.kind = "read" => Data(i) = <<"read">>
      /\ i.kind = "store" => Data(i) = <<"write">>
      /\ i.kind = "rmw" => Data(i) = <<"read", "dummy", "write">>
  BY DEF Data
<1>3. Indexing(i) = <<>> \/ Indexing(i) = <<"dummy">>
  BY DEF Indexing
<1>4. /\ i.mode \in {"a", "ai"} => Address(i) = <<"fetch16">>
      /\ i.mode = "ix" => Address(i) = <<"fetch8", "dummy", "pointer">>
      /\ i.mode = "iy" => Address(i) = <<"fetch8", "pointer">>
  BY DEF Address
<1>5. Data(i) \in Seq(Ops)
  <2>1. /\ <<"read">> \in Seq(Ops) /\ <<"write">> \in Seq(Ops)
        /\ <<"read", "dummy", "write">> \in Seq(Ops)
    BY DEF Ops
  <2> QED
    BY <1>1, <1>2, <2>1
<1>6. Indexing(i) \in Seq(Ops)
  <2>1. <<>> \in Seq(Ops) /\ <<"dummy">> \in Seq(Ops)
    BY DEF Ops
  <2> QED
    BY <1>3, <2>1
<1>7. Address(i) \in Seq(Ops)
  <2>1. /\ <<"fetch16">> \in Seq(Ops) /\ <<"fetch8", "pointer">> \in Seq(Ops)
        /\ <<"fetch8", "dummy", "pointer">> \in Seq(Ops)
    BY DEF Ops
  <2> QED
    BY <1>1, <1>4, <2>1
<1> QED
  BY <1>1, <1>2, <1>3, <1>4, <1>5, <1>6, <1>7

\* Two sequences, one behind the other.
Joins(u, s, t, l, m) ==
  /\ u \in Seq(Ops) /\ Len(u) = l + m
  /\ \A k \in 1..(l + m) : u[k] = IF k <= l THEN s[k] ELSE t[k - l]

LEMMA Joined ==
  ASSUME NEW s \in Seq(Ops), NEW t \in Seq(Ops)
  PROVE  Joins(s \o t, s, t, Len(s), Len(t))
<1>1. s \o t \in Seq(Ops) /\ Len(s \o t) = Len(s) + Len(t)
  BY ConcatProperties
<1>2. \A k \in 1..(Len(s) + Len(t)) : (s \o t)[k] = IF k <= Len(s) THEN s[k] ELSE t[k - Len(s)]
  BY ConcatProperties
<1> QED
  BY <1>1, <1>2 DEF Joins

\* A handler, element by element, counted from its end.
LEMMA FromEnd ==
  ASSUME NEW i \in IorwInsns
  PROVE  LET h == Handler(i)
             a == Address(i)
             n == Len(Address(i))
             x == Len(Indexing(i))
             d == Len(Data(i))
         IN /\ h \in Seq(Ops) /\ Len(h) = 1 + n + x + d /\ n \in 1..3 /\ x \in {0, 1} /\ d \in {1, 3}
            /\ \A r \in 1..Len(h) :
                 h[Len(h) + 1 - r] = IF r <= d THEN Data(i)[d + 1 - r]
                                     ELSE IF r <= d + x THEN "dummy"
                                     ELSE IF r <= d + x + n THEN a[d + x + n + 1 - r]
                                     ELSE "fetch8"
<1> DEFINE h == Handler(i)
           a == Address(i)
           n == Len(Address(i))
           x == Len(Indexing(i))
           d == Len(Data(i))
           f == <<"fetch8">>
           s1 == f \o a
           s2 == s1 \o Indexing(i)
<1>1. f \in Seq(Ops) /\ Len(f) = 1 /\ f[1] = "fetch8"
  BY DEF Ops
<1>2. /\ a \in Seq(Ops) /\ Indexing(i) \in Seq(Ops) /\ Data(i) \in Seq(Ops)
  BY Parts
<1>3. n \in 1..3
  BY Parts
<1>4. x \in {0, 1} /\ (x = 1 => Indexing(i)[1] = "dummy")
  BY Parts
<1>5. d \in {1, 3}
  BY Parts
<1>6. h = s2 \o Data(i)
  BY DEF Handler, IorwInsns
<1> HIDE DEF h, f
<1>7. /\ s1 \in Seq(Ops) /\ Len(s1) = 1 + n
      /\ \A k \in 1..(1 + n) : s1[k] = IF k <= 1 THEN f[k] ELSE a[k - 1]
  <2>1. Joins(s1, f, a, 1, n)
    BY <1>1, <1>2, Joined
  <2> QED
    BY <2>1 DEF Joins
<1> HIDE DEF s1
<1>8. /\ s2 \in Seq(Ops) /\ Len(s2) = 1 + n + x
      /\ \A k \in 1..(1 + n + x) : s2[k] = IF k <= 1 + n THEN s1[k] ELSE Indexing(i)[k - (1 + n)]
  <2>1. Joins(s2, s1, Indexing(i), 1 + n, x)
    BY <1>2, <1>7, Joined
  <2> QED
    BY <2>1 DEF Joins
<1> HIDE DEF s2
<1>9. /\ h \in Seq(Ops) /\ Len(h) = 1 + n + x + d
      /\ \A k \in 1..(1 + n + x + d) :
           h[k] = IF k <= 1 + n + x THEN s2[k] ELSE Data(i)[k - (1 + n + x)]
  <2>1. Joins(h, s2, Data(i), 1 + n + x, d)
    BY <1>2, <1>6, <1>8, Joined
  <2> QED
    BY <2>1 DEF Joins
<1> HIDE DEF a, n, x, d
<1>10. ASSUME NEW r \in 1..(1 + n + x + d)
       PROVE  h[Len(h) + 1 - r] = IF r <= d THEN Data(i)[d + 1 - r]
                                  ELSE IF r <= d + x THEN "dummy"
                                  ELSE IF r <= d + x + n THEN a[d + x + n + 1 - r]
                                  ELSE "fetch8"
  <2> DEFINE k == 2 + n + x + d - r
  <2>1. k \in 1..(1 + n + x + d) /\ Len(h) + 1 - r = k
    BY <1>3, <1>4, <1>5, <1>9
  <2>2. CASE r <= d
    <3>1. ~(k <= 1 + n + x) /\ k - (1 + n + x) = d + 1 - r
      BY <1>3, <1>4, <1>5, <2>2
    <3> QED
      BY <1>9, <2>1, <2>2, <3>1
  <2>3. CASE r > d /\ r <= d + x
    <3>1. x = 1 /\ k <= 1 + n + x /\ ~(k <= 1 + n) /\ k - (1 + n) = 1 /\ k \in 1..(1 + n + x)
      BY <1>3, <1>4, <1>5, <2>1, <2>3
    <3>2. h[k] = s2[k] /\ s2[k] = Indexing(i)[1]
      BY <1>8, <1>9, <2>1, <3>1
    <3> QED
      BY <1>4, <1>5, <2>1, <2>3, <3>1, <3>2
  <2>4. CASE r > d + x /\ r <= d + x + n
    <3>1. /\ k <= 1 + n + x /\ k <= 1 + n /\ ~(k <= 1) /\ k - 1 = d + x + n + 1 - r
          /\ k \in 1..(1 + n + x) /\ k \in 1..(1 + n) /\ ~(r <= d)
      BY <1>3, <1>4, <1>5, <2>1, <2>4
    <3>2. h[k] = s2[k] /\ s2[k] = s1[k] /\ s1[k] = a[k - 1]
      BY <1>7, <1>8, <1>9, <2>1, <3>1
    <3> QED
      BY <1>4, <1>5, <2>1, <2>4, <3>1, <3>2
  <2>5. CASE r > d + x + n
    <3>1. k = 1 /\ ~(r <= d) /\ ~(r <= d + x) /\ 1 \in 1..(1 + n + x) /\ 1 \in 1..(1 + n)
      BY <1>3, <1>4, <1>5, <2>1, <2>5
    <3>2. h[k] = s2[k] /\ s2[k] = s1[k] /\ s1[k] = f[k]
      BY <1>3, <1>4, <1>7, <1>8, <1>9, <2>1, <3>1
    <3> QED
      BY <1>1, <1>3, <1>4, <1>5, <2>1, <2>5, <3>1, <3>2
  <2> QED
    BY <1>3, <1>4, <1>5, <2>2, <2>3, <2>4, <2>5
<1> QED
  BY <1>3, <1>4, <1>5, <1>9, <1>10 DEF h, a, n, x, d

\* Which bus cycle can come when so many are left.
LEMMA OpFromEnd ==
  ASSUME NEW i \in IorwInsns, NEW r \in 1..Len(Handler(i)),
         NEW op, op = Handler(i)[Len(Handler(i)) + 1 - r]
  PROVE  /\ op \in {"fetch16", "pointer"} <=> r = Access(i) + 1
         /\ op = "fetch16" => i.mode \in {"a", "ai"}
         /\ op = "pointer" => i.mode \in {"ix", "iy"}
         /\ op = "read" => r <= Access(i) /\ r = IF i.kind = "rmw" THEN 3 ELSE 1
         /\ op = "write" => r = 1 /\ i.kind # "read"
<1> DEFINE a == Address(i)
           n == Len(Address(i))
           x == Len(Indexing(i))
           d == Len(Data(i))
<1>1. /\ n \in 1..3 /\ x \in {0, 1} /\ d \in {1, 3} /\ r \in 1..(1 + n + x + d)
      /\ op = IF r <= d THEN Data(i)[d + 1 - r]
              ELSE IF r <= d + x THEN "dummy"
              ELSE IF r <= d + x + n THEN a[d + x + n + 1 - r]
              ELSE "fetch8"
  BY FromEnd
<1>2. Access(i) = x + d
  BY DEF Access
<1>3. CASE r <= d
  <2>1. i.kind = "read" => d = 1 /\ Data(i)[1] = "read"
    BY Parts
  <2>2. i.kind = "store" => d = 1 /\ Data(i)[1] = "write"
    BY Parts
  <2>3. i.kind = "rmw" => /\ d = 3 /\ Data(i)[1] = "read" /\ Data(i)[2] = "dummy"
                          /\ Data(i)[3] = "write"
    BY Parts
  <2>4. i.kind \in {"read", "store", "rmw"}
    BY Parts
  <2> HIDE DEF a, n, x, d
  <2> QED
    BY <1>1, <1>2, <1>3, <2>1, <2>2, <2>3, <2>4
<1>4. CASE r > d /\ r <= d + x
  <2>1. op = "dummy"
    BY <1>1, <1>4
  <2> HIDE DEF a, n, x, d
  <2> QED
    BY <1>1, <1>2, <1>4, <2>1
<1>5. CASE r > d + x /\ r <= d + x + n
  <2>1. op = a[d + x + n + 1 - r]
    BY <1>1, <1>5
  <2>2. i.mode \in {"a", "ai"} => n = 1 /\ a[1] = "fetch16"
    BY Parts
  <2>3. i.mode = "ix" => n = 3 /\ a[1] = "fetch8" /\ a[2] = "dummy" /\ a[3] = "pointer"
    BY Parts
  <2>4. i.mode = "iy" => n = 2 /\ a[1] = "fetch8" /\ a[2] = "pointer"
    BY Parts
  <2>5. i.mode \in {"a", "ai", "ix", "iy"}
    BY Parts
  <2> HIDE DEF a, n, x, d
  <2> QED
    BY <1>1, <1>2, <1>5, <2>1, <2>2, <2>3, <2>4, <2>5
<1>6. CASE r > d + x + n
  <2>1. op = "fetch8"
    BY <1>1, <1>6
  <2> HIDE DEF a, n, x, d
  <2> QED
    BY <1>1, <1>2, <1>6, <2>1
<1> HIDE DEF a, n, x, d
<1> QED
  BY <1>1, <1>3, <1>4, <1>5, <1>6

\* What a handler counts, its opcode and a straddling operand included, is what the
\* table of the opcodes says: the one fact about the instructions themselves.
LEMMA TableCounts ==
  ASSUME NEW i \in IorwInsns
  PROVE  Len(Handler(i)) + 1 = Table(i) /\ Access(i) < Len(Handler(i)) /\ Access(i) \in 1..4
<1> DEFINE n == Len(Address(i))
           x == Len(Indexing(i))
           d == Len(Data(i))
<1>1. Len(Handler(i)) = 1 + n + x + d /\ n \in 1..3 /\ x \in {0, 1} /\ d \in {1, 3}
  BY FromEnd
<1>2. Access(i) = x + d
  BY DEF Access
<1>3. d = IF i.kind = "rmw" THEN 3 ELSE 1
  BY Parts
<1>4. n = IF i.mode \in {"a", "ai"} THEN 1 ELSE IF i.mode = "ix" THEN 3 ELSE 2
  BY Parts
<1>5. x = IF i.mode \in Indexed /\ (i.kind = "read" => i.crosses) THEN 1 ELSE 0
  BY DEF Indexing
<1>6. i.mode \in {"a", "ai", "ix", "iy"} /\ i.kind \in {"read", "store", "rmw"}
  BY Parts
<1> HIDE DEF n, x, d
<1>7. Len(Handler(i)) + 1 = Table(i)
  BY <1>1, <1>3, <1>4, <1>5, <1>6 DEF Table, Indexed
<1> QED
  BY <1>1, <1>2, <1>7

\* The instructions are told apart by their mode.
LEMMA Modes ==
  ASSUME NEW i \in IorwInsns \cup FixedInsns \cup {Entry}
  PROVE  /\ i \in IorwInsns <=> i.mode \notin {"fixed", "entry"}
         /\ Table(i) \in Nat \ {0}
         /\ i \notin IorwInsns => /\ Handler(i) \in Seq(Ops)
                                  /\ \A k \in 1..Len(Handler(i)) : Handler(i)[k] \in {"fetch8", "fetch16"}
<1>1. CASE i \in IorwInsns
  <2>1. i.mode \in {"a", "ai", "ix", "iy"}
    BY <1>1, Parts
  <2>2. Table(i) \in Nat \ {0}
    BY <1>1, TableCounts, FromEnd
  <2> QED
    BY <1>1, <2>1, <2>2
<1>2. CASE i \in FixedInsns
  <2>1. i.mode = "fixed" /\ i.cost \in Fixed
    BY <1>2 DEF FixedInsns
  <2>2. i.cost.cycles \in Nat \ {0} /\ i.cost.io \in Nat
    BY <2>1, AccessConstants
  <2>3. i \notin IorwInsns
    BY <2>1, Parts
  <2>4. Table(i) = i.cost.cycles
    BY <2>1 DEF Table
  <2>5. Handler(i) = [n \in 1..i.cost.io |-> "fetch8"]
    BY <2>1 DEF Handler
  <2>6. Handler(i) \in Seq(Ops) /\ \A k \in 1..Len(Handler(i)) : Handler(i)[k] = "fetch8"
    BY <2>2, <2>5 DEF Ops
  <2> QED
    BY <2>1, <2>2, <2>3, <2>4, <2>6
<1>3. CASE i = Entry
  <2>1. i.mode = "entry"
    BY <1>3 DEF Entry
  <2>2. i \notin IorwInsns
    BY <2>1, Parts
  <2>3. Table(i) = EntryCycles
    BY <2>1 DEF Table
  <2>4. Handler(i) = <<"fetch8", "fetch16">>
    BY <2>1 DEF Handler
  <2>5. Handler(i) \in Seq(Ops) /\ \A k \in 1..Len(Handler(i)) : Handler(i)[k] \in {"fetch8", "fetch16"}
    <3>1. <<"fetch8", "fetch16">> \in Seq(Ops) /\ Len(<<"fetch8", "fetch16">>) = 2
      BY DEF Ops
    <3> QED
      BY <2>4, <3>1
  <2> QED
    BY <2>1, <2>2, <2>3, <2>5, AccessConstants
<1> QED
  BY <1>1, <1>2, <1>3

-----------------------------------------------------------------------------
\* At first an interrupt entry has just been made.
LEMMA AccessInit == Init => AccessInv
<1> SUFFICES ASSUME Init PROVE AccessInv
  OBVIOUS
<1>1. current \in {Entry} /\ todo \in Seq(Ops)
  BY EmptySeq DEF Init
<1>2. Table(Entry) \in Nat
  BY Modes
<1>3. Slip = 0
  BY DEF Slip, Init, Entry
<1>4. AccessTypeOK
  BY <1>1, <1>2 DEF Init, AccessTypeOK
<1>5. Account
  BY <1>2, <1>3 DEF Init, Account
<1> QED
  BY <1>4, <1>5 DEF Init, AccessInv, PollInv, IorwInv, FixedInv

\* An instruction begins with everything still to do, or an entry with nothing counted.
LEMMA BeginInv == ASSUME AccessInv, BeginInsn PROVE AccessInv'
<1>1. /\ stage' = "run" /\ current' \in IorwInsns \cup FixedInsns \cup {Entry} /\ todo' = Handler(current')
      /\ owed' = pending /\ given' = 0 /\ UNCHANGED <<cycles, pending, deadline, io>>
      /\ io = 0
  BY DEF BeginInsn, sync, AccessInv, PollInv
<1>2. AccessTypeOK'
  <2>1. todo' \in Seq(Ops)
    BY <1>1, Modes, FromEnd
  <2> QED
    BY <1>1, <2>1 DEF AccessInv, AccessTypeOK
<1>3. ASSUME current' \in IorwInsns
      PROVE  /\ EndOf(todo', Handler(current'))
             /\ given' + pending' + io' + Left' = owed' + Table(current') + Slip'
  <2>1. Len(Handler(current')) \in Nat
    BY <1>3, FromEnd
  <2>2. EndOf(todo', Handler(current'))
    BY <1>1, <2>1 DEF EndOf
  <2>3. Left' = Table(current') + Slip'
    <3>1. Slip' \in Nat
      BY DEF Slip
    <3>2. /\ Len(todo') + 1 = Table(current') /\ Access(current') < Len(todo') /\ Len(todo') \in Nat
      BY <1>1, <1>3, <2>1, TableCounts
    <3> QED
      BY <3>1, <3>2 DEF Left
  <2>4. Table(current') \in Nat /\ Slip' \in Nat /\ pending \in Nat
    BY <1>1, Modes DEF Slip, AccessInv, AccessTypeOK
  <2> QED
    BY <1>1, <2>2, <2>3, <2>4
<1>4. current' \notin IorwInsns => \A k \in 1..Len(todo') : todo'[k] \in {"fetch8", "fetch16"}
  BY <1>1, Modes
<1> QED
  BY <1>1, <1>2, <1>3, <1>4 DEF AccessInv, PollInv, IorwInv, FixedInv

\* A bus cycle leaves a shorter ending, and one cycle less to come, or what forming the
\* address takes.
LEMMA CycleLeaves ==
  ASSUME AccessInv, NEW op, Cycle(op)
  PROVE  /\ stage' = "run" /\ current' = current /\ todo' \in Seq(Ops)
         /\ current \in IorwInsns =>
              /\ EndOf(todo', Handler(current))
              /\ Len(todo) \in 1..Len(Handler(current))
              /\ op = Handler(current)[Len(Handler(current)) + 1 - Len(todo)]
              /\ Left \in Nat /\ Left' \in Nat
              /\ op \in {"fetch16", "pointer"} => Left = Left' + 2 + Slip
              /\ op \notin {"fetch16", "pointer"} => Left = Left' + 1
         /\ current \notin IorwInsns =>
              /\ op \in {"fetch8", "fetch16"}
              /\ \A k \in 1..Len(todo') : todo'[k] \in {"fetch8", "fetch16"}
<1>1. /\ stage = "run" /\ todo # <<>> /\ Head(todo) = op /\ todo' = Tail(todo)
      /\ stage' = "run" /\ current' = current /\ todo \in Seq(Ops)
      /\ current \in IorwInsns \cup FixedInsns \cup {Entry}
  BY DEF Cycle, AccessInv, AccessTypeOK
<1>2. /\ Tail(todo) \in Seq(Ops) /\ Len(Tail(todo)) = Len(todo) - 1 /\ Len(todo) \in Nat \ {0}
      /\ \A k \in 1..Len(Tail(todo)) : Tail(todo)[k] = todo[k + 1]
      /\ Head(todo) = todo[1]
  BY <1>1, HeadTailProperties, EmptySeq
<1>3. ASSUME current \in IorwInsns
      PROVE  /\ EndOf(todo', Handler(current))
             /\ Len(todo) \in 1..Len(Handler(current))
             /\ op = Handler(current)[Len(Handler(current)) + 1 - Len(todo)]
             /\ Left \in Nat /\ Left' \in Nat
             /\ op \in {"fetch16", "pointer"} => Left = Left' + 2 + Slip
             /\ op \notin {"fetch16", "pointer"} => Left = Left' + 1
  <2> DEFINE h == Handler(current)
             r == Len(todo)
  <2>1. EndOf(todo, h)
    BY <1>1, <1>3 DEF AccessInv, IorwInv
  <2>2. h \in Seq(Ops)
    BY <1>3, FromEnd
  <2>3. /\ r \in 1..Len(h) /\ op = h[Len(h) + 1 - r] /\ EndOf(todo', h) /\ Len(todo') = r - 1
    BY <1>1, <2>1, <2>2, EndingTail
  <2>4. op \in {"fetch16", "pointer"} <=> r = Access(current) + 1
    BY <1>3, <2>3, OpFromEnd
  <2>5. Access(current) \in Nat /\ Slip \in Nat /\ Slip' = Slip
    BY <1>1, <1>3, TableCounts DEF Slip
  <2>6. Left = r + (IF r > Access(current) THEN 1 + Slip ELSE 0)
    BY DEF Left
  <2>7. Left' = r - 1 + (IF r - 1 > Access(current) THEN 1 + Slip ELSE 0)
    BY <1>1, <2>3, <2>5 DEF Left
  <2>8. r \in Nat \ {0}
    BY <1>2
  <2> HIDE DEF h, r
  <2>9. ASSUME r = Access(current) + 1 PROVE Left = Left' + 2 + Slip
    BY <2>5, <2>6, <2>7, <2>8, <2>9
  <2>10. ASSUME r # Access(current) + 1 PROVE Left = Left' + 1
    BY <2>5, <2>6, <2>7, <2>8, <2>10
  <2>11. /\ Left \in Nat /\ Left' \in Nat
         /\ op \in {"fetch16", "pointer"} => Left = Left' + 2 + Slip
         /\ op \notin {"fetch16", "pointer"} => Left = Left' + 1
    <3>1. Left \in Nat /\ Left' \in Nat
      BY <2>5, <2>6, <2>7, <2>8
    <3> QED
      BY <2>4, <2>9, <2>10, <3>1
  <2> QED
    BY <2>3, <2>11 DEF h, r
<1>4. ASSUME current \notin IorwInsns
      PROVE  /\ op \in {"fetch8", "fetch16"}
             /\ \A k \in 1..Len(todo') : todo'[k] \in {"fetch8", "fetch16"}
  <2>1. \A k \in 1..Len(todo) : todo[k] \in {"fetch8", "fetch16"}
    BY <1>1, <1>4 DEF AccessInv, FixedInv
  <2>2. 1 \in 1..Len(todo) /\ \A k \in 1..Len(todo') : k + 1 \in 1..Len(todo)
    BY <1>1, <1>2
  <2> QED
    BY <1>1, <1>2, <2>1, <2>2
<1> QED
  BY <1>1, <1>2, <1>3, <1>4

\* n cycles are counted, or handed over, and stolen cycles more.
Moves(n, stolen) ==
  /\ {cycles', pending', io', owed', given'} \subseteq Nat
  /\ given' + pending' + io' = given + pending + io + n + stolen
  /\ owed' = owed + stolen

\* The account of the instruction that runs, where the devices' share and what waits
\* change by as much as the rest of it.
LEMMA Balanced ==
  ASSUME AccessInv, NEW op, Cycle(op), NEW n \in Nat, NEW stolen \in Nat, Moves(n, stolen),
         current \in IorwInsns /\ op \in {"fetch16", "pointer"} => n = 2 + Slip,
         current \in IorwInsns /\ op \notin {"fetch16", "pointer"} => n = 1,
         current \notin IorwInsns => given' = given /\ pending' = pending /\ owed' = owed
  PROVE  AccessInv'
<1>1. /\ stage' = "run" /\ current' = current /\ todo' \in Seq(Ops) /\ stage = "run"
      /\ current \in IorwInsns =>
           /\ EndOf(todo', Handler(current)) /\ Left \in Nat /\ Left' \in Nat
           /\ op \in {"fetch16", "pointer"} => Left = Left' + 2 + Slip
           /\ op \notin {"fetch16", "pointer"} => Left = Left' + 1
      /\ current \notin IorwInsns => \A k \in 1..Len(todo') : todo'[k] \in {"fetch8", "fetch16"}
  BY CycleLeaves DEF Cycle
<1>2. /\ current \in IorwInsns \cup FixedInsns \cup {Entry}
      /\ pending \in Nat /\ io \in Nat /\ owed \in Nat /\ given \in Nat
      /\ Slip' = Slip /\ Slip \in Nat /\ Table(current') = Table(current)
  BY <1>1 DEF AccessInv, AccessTypeOK, Slip
<1>3. AccessTypeOK'
  BY <1>1, <1>2 DEF AccessTypeOK, Moves
<1>4. Table(current) \in Nat
  BY <1>2, Modes
<1>5. ASSUME current \in IorwInsns
      PROVE  given' + pending' + io' + Left' = owed' + Table(current') + Slip'
  <2>1. given + pending + io + Left = owed + Table(current) + Slip
    BY <1>1, <1>5 DEF AccessInv, IorwInv
  <2>2. Left = Left' + n
    <3>1. CASE op \in {"fetch16", "pointer"}
      <4>1. n = 2 + Slip /\ Left = Left' + 2 + Slip
        BY <1>1, <1>5, <3>1
      <4> QED
        BY <1>1, <1>2, <1>5, <4>1
    <3>2. CASE op \notin {"fetch16", "pointer"}
      BY <1>1, <1>5, <3>2
    <3> QED
      BY <3>1, <3>2
  <2>3. given' + pending' + io' = given + pending + io + n + stolen /\ owed' = owed + stolen
    BY DEF Moves
  <2>4. Left \in Nat /\ Left' \in Nat
    BY <1>1, <1>5
  <2>5. \A a, b, l, m \in Nat : a = b + n + stolen /\ l = m + n => a + m = b + l + stolen
    OBVIOUS
  <2>6. given' + pending' + io' \in Nat /\ given + pending + io \in Nat
    <3>1. given' \in Nat /\ pending' \in Nat /\ io' \in Nat
      BY DEF Moves
    <3>2. \A a, b, c \in Nat : a + b + c \in Nat
      OBVIOUS
    <3> QED
      BY <1>2, <3>1, <3>2, Zenon
  <2>7. given' + pending' + io' + Left' = given + pending + io + Left + stolen
    BY <2>2, <2>3, <2>4, <2>5, <2>6
  <2>8. owed' + Table(current) + Slip = owed + Table(current) + Slip + stolen
    BY <1>2, <1>4, <2>3
  <2> QED
    BY <1>2, <2>1, <2>7, <2>8
<1>6. current \notin IorwInsns => given' = 0 /\ pending' = owed'
  BY <1>1 DEF AccessInv, FixedInv
<1> QED
  BY <1>1, <1>2, <1>3, <1>5, <1>6 DEF AccessInv, PollInv, IorwInv, FixedInv

LEMMA CountInv == ASSUME AccessInv, Count PROVE AccessInv'
<1>1. PICK op \in {"fetch8", "fetch16", "pointer", "dummy"} :
        /\ Cycle(op) /\ io' = io + ReadCost(op)
        /\ UNCHANGED <<cycles, pending, deadline, owed, given>>
  BY DEF Count
<1>2. /\ {cycles, pending, io, owed, given} \subseteq Nat
      /\ current \in IorwInsns \cup FixedInsns \cup {Entry}
  BY DEF AccessInv, AccessTypeOK
<1>3. ReadCost(op) \in Nat
  BY <1>1 DEF ReadCost
<1>4. current \in IorwInsns => ReadCost(op) = IF op \in {"fetch16", "pointer"} THEN 2 + Slip ELSE 1
  <2>1. SUFFICES ASSUME current \in IorwInsns
                 PROVE  ReadCost(op) = IF op \in {"fetch16", "pointer"} THEN 2 + Slip ELSE 1
    OBVIOUS
  <2>2. /\ op = "fetch16" => current.mode \in {"a", "ai"}
        /\ op = "pointer" => current.mode \in {"ix", "iy"}
    BY <1>1, <2>1, CycleLeaves, OpFromEnd
  <2> QED
    BY <1>1, <2>2 DEF ReadCost, Slip
<1>5. Moves(ReadCost(op), 0)
  BY <1>1, <1>2, <1>3 DEF Moves
<1> QED
  BY <1>1, <1>3, <1>4, <1>5, Balanced

\* The devices get all that waits, all that is counted, and n cycles more.
LEMMA SyncGives ==
  ASSUME AccessInv, NEW n \in Nat, NEW stolen \in Nat, SyncDevices(Batch + n, stolen)
  PROVE  /\ given' + pending' + io' = given + pending + io + n + stolen
         /\ given' = given + pending + io + n + stolen
         /\ {cycles', pending', io', given'} \subseteq Nat
<1>1. {cycles, pending, io, given} \subseteq Nat
  BY DEF AccessInv, AccessTypeOK
<1>2. /\ cycles' = (cycles + (pending + io + n) + stolen) % 2
      /\ given' = given + (pending + io + n) + stolen /\ pending' = 0 /\ io' = 0
  BY DEF SyncDevices, Batch
<1> QED
  BY <1>1, <1>2

\* Only an instruction that can reach a device reads or writes.
LEMMA AccessIsIorw ==
  ASSUME AccessInv, NEW op \in {"read", "write"}, Cycle(op)
  PROVE  current \in IorwInsns
BY CycleLeaves

LEMMA ReadInv == ASSUME AccessInv, CpuMemRead8 PROVE AccessInv'
<1>1. Cycle("read") /\ owed' = owed
  BY DEF CpuMemRead8
<1>2. current \in IorwInsns
  BY <1>1, AccessIsIorw
<1>3. {cycles, pending, io, owed, given} \subseteq Nat
  BY DEF AccessInv, AccessTypeOK
<1>4. CASE SyncDevices(Batch + 1, 0)
  <2>1. /\ given' + pending' + io' = given + pending + io + 1 + 0
        /\ {cycles', pending', io', given'} \subseteq Nat
    BY <1>4, SyncGives
  <2>2. Moves(1, 0)
    BY <1>1, <1>3, <2>1 DEF Moves
  <2> QED
    BY <1>1, <1>2, <2>2, Balanced
<1>5. CASE io' = io + 1 /\ UNCHANGED <<cycles, pending, deadline, given>>
  <2>1. Moves(1, 0)
    BY <1>1, <1>3, <1>5 DEF Moves
  <2> QED
    BY <1>1, <1>2, <2>1, Balanced
<1> QED
  BY <1>4, <1>5 DEF CpuMemRead8

LEMMA WriteInv == ASSUME AccessInv, CpuMemWrite8 PROVE AccessInv'
<1>1. Cycle("write") /\ owed' = owed
  BY DEF CpuMemWrite8
<1>2. current \in IorwInsns
  BY <1>1, AccessIsIorw
<1>3. {cycles, pending, io, owed, given} \subseteq Nat
  BY DEF AccessInv, AccessTypeOK
<1>4. CASE SyncDevices(Batch + 1, 0)
  <2>1. /\ given' + pending' + io' = given + pending + io + 1 + 0
        /\ {cycles', pending', io', given'} \subseteq Nat
    BY <1>4, SyncGives
  <2>2. Moves(1, 0)
    BY <1>1, <1>3, <2>1 DEF Moves
  <2> QED
    BY <1>1, <1>2, <2>2, Balanced
<1>5. CASE io' = io + 1 /\ UNCHANGED <<cycles, pending, given>>
  <2>1. Moves(1, 0)
    BY <1>1, <1>3, <1>5 DEF Moves
  <2> QED
    BY <1>1, <1>2, <2>1, Balanced
<1> QED
  BY <1>4, <1>5 DEF CpuMemWrite8

LEMMA DmaInv == ASSUME AccessInv, DmaWrite PROVE AccessInv'
<1>1. PICK stolen \in Nat :
        Cycle("write") /\ SyncDevices(Batch + 1, stolen) /\ owed' = owed + stolen
  <2>1. {cycles, pending, io} \subseteq Nat
    BY DEF AccessInv, AccessTypeOK
  <2>2. (cycles + Batch + 1) % 2 \in Nat
    BY <2>1 DEF Batch
  <2>3. DmaCycles + 1 + ((cycles + Batch + 1) % 2) \in Nat
    BY <2>2, AccessConstants
  <2> QED
    BY <2>3 DEF DmaWrite
<1>2. current \in IorwInsns
  BY <1>1, AccessIsIorw
<1>3. {cycles, pending, io, owed, given} \subseteq Nat
  BY DEF AccessInv, AccessTypeOK
<1>4. /\ given' + pending' + io' = given + pending + io + 1 + stolen
      /\ {cycles', pending', io', given'} \subseteq Nat
  BY <1>1, SyncGives
<1>5. Moves(1, stolen)
  BY <1>1, <1>3, <1>4 DEF Moves
<1> QED
  BY <1>1, <1>2, <1>5, Balanced

\* CpuTick takes the count of an instruction that may have reached a device, and the
\* table's cycles of any other.
LEMMA EndInv == ASSUME AccessInv, End PROVE AccessInv'
<1> DEFINE n == IF current.mode \in {"fixed", "entry"} THEN Table(current) ELSE io
<1>1. /\ stage = "run" /\ todo = <<>> /\ stage' = "poll" /\ UNCHANGED <<current, todo, owed>>
      /\ CpuTick(n)
  BY DEF End
<1>2. /\ current \in IorwInsns \cup FixedInsns \cup {Entry} /\ todo \in Seq(Ops)
      /\ cycles \in Nat /\ pending \in Nat /\ io \in Nat /\ owed \in Nat /\ given \in Nat
  BY DEF AccessInv, AccessTypeOK
<1>3. /\ Table(current) \in Nat \ {0}
      /\ current \in IorwInsns <=> current.mode \notin {"fixed", "entry"}
  BY <1>2, Modes
<1>4. Slip \in Nat /\ Slip' = Slip
  BY <1>1 DEF Slip
<1>5. n \in Nat /\ (n = 0 => io = 0)
  BY <1>2, <1>3
<1>6. given + pending + n = owed + Table(current) + Slip
  <2>1. CASE current \in IorwInsns
    <3>1. Left = 0
      <4>1. Len(todo) = 0
        BY <1>1
      <4>2. Access(current) \in Nat
        BY <2>1, TableCounts
      <4> QED
        BY <4>1, <4>2 DEF Left
    <3>2. given + pending + io + Left = owed + Table(current) + Slip
      BY <1>1, <2>1 DEF AccessInv, IorwInv
    <3>3. n = io
      BY <1>3, <2>1
    <3> HIDE DEF n
    <3> QED
      BY <1>2, <3>1, <3>2, <3>3
  <2>2. CASE current \notin IorwInsns
    <3>1. given = 0 /\ pending = owed
      BY <1>1, <2>2 DEF AccessInv, FixedInv
    <3>2. n = Table(current) /\ current.mode \in {"fixed", "entry"}
      BY <1>3, <2>2
    <3>3. Slip = 0
      BY <3>2 DEF Slip
    <3> HIDE DEF n
    <3> QED
      BY <1>2, <1>3, <3>1, <3>2, <3>3
  <2> QED
    BY <2>1, <2>2
<1> HIDE DEF n
<1>7. /\ io' = 0 /\ given' + pending' = given + pending + n
      /\ {cycles', pending', given'} \subseteq Nat
  <2>1. CASE n = 0 /\ UNCHANGED <<sync, given>>
    BY <1>2, <1>5, <2>1 DEF sync
  <2>2. CASE pending' = pending + n /\ io' = 0 /\ UNCHANGED <<cycles, deadline, given>>
    BY <1>2, <1>5, <2>2
  <2>3. CASE SyncDevices(pending + n, 0)
    BY <1>2, <1>5, <2>3 DEF SyncDevices
  <2> QED
    BY <1>1, <2>1, <2>2, <2>3 DEF CpuTick
<1>8. AccessTypeOK'
  BY <1>1, <1>2, <1>7 DEF AccessTypeOK
<1>9. Account'
  BY <1>1, <1>4, <1>6, <1>7 DEF Account
<1> QED
  BY <1>1, <1>7, <1>8, <1>9 DEF AccessInv, PollInv, IorwInv, FixedInv

LEMMA AccessStep == AccessInv /\ [Next]_accessVars => AccessInv'
<1> SUFFICES ASSUME AccessInv, [Next]_accessVars PROVE AccessInv'
  OBVIOUS
<1>1. CASE UNCHANGED accessVars
  BY <1>1 DEF accessVars, sync, AccessInv, AccessTypeOK, PollInv, IorwInv, FixedInv, Account, Left, Slip
<1> QED
  BY <1>1, BeginInv, CountInv, ReadInv, WriteInv, DmaInv, EndInv DEF Next

\* What an instruction has done and has still to do adds up to the table's cycles.
THEOREM AccessInvariant == Spec => []AccessInv
<1> QED
  BY AccessInit, AccessStep, PTL DEF Spec

\* For every deadline, and whatever the instructions that reach no device cost and
\* count: an instruction costs the devices the cycles of CPU_OPCODE_LIST, however they
\* are handed over (cpu.c 122-147 and 417).
THEOREM CyclesTheorem == Spec => []CyclesAreDocumented
<1>1. AccessInv => CyclesAreDocumented
  BY DEF AccessInv, PollInv, Account, CyclesAreDocumented
<1> QED
  BY <1>1, AccessInvariant, PTL

\* And a device sees each read and write in the cycle the processor makes it
\* (cpu.c 149-303).
THEOREM DeviceTheorem == Spec => DeviceSeesItsCycle
<1> DEFINE Seen(op) ==
             Cycle(op) /\ Synced(current.region, op = "write") =>
               given' = owed' + Table(current) + Slip
                          - (IF op = "read" /\ current.kind = "rmw" THEN 2 ELSE 0)
<1>1. ASSUME AccessInv, Next, NEW op \in {"read", "write"}, Cycle(op),
             Synced(current.region, op = "write")
      PROVE  given' = owed' + Table(current) + Slip
                        - (IF op = "read" /\ current.kind = "rmw" THEN 2 ELSE 0)
  <2>1. current \in IorwInsns
    BY <1>1, AccessIsIorw
  <2>2. /\ Len(todo) \in 1..Len(Handler(current))
        /\ op = Handler(current)[Len(Handler(current)) + 1 - Len(todo)]
    BY <1>1, <2>1, CycleLeaves
  <2>3. /\ op = "read" => Len(todo) <= Access(current) /\ Len(todo) = IF current.kind = "rmw" THEN 3 ELSE 1
        /\ op = "write" => Len(todo) = 1
    BY <2>1, <2>2, OpFromEnd
  <2>4. Access(current) \in 1..4
    BY <2>1, TableCounts
  <2>5. Left = IF op = "read" /\ current.kind = "rmw" THEN 3 ELSE 1
    <3>1. Len(todo) <= Access(current) /\ Len(todo) \in Nat
      <4>1. Len(todo) \in Nat
        BY <1>1, LenProperties DEF AccessInv, AccessTypeOK
      <4>2. CASE op = "read"
        BY <2>3, <4>1, <4>2
      <4>3. CASE op = "write"
        BY <2>3, <2>4, <4>1, <4>3
      <4> QED
        BY <1>1, <4>2, <4>3
    <3>2. Left = Len(todo)
      BY <2>4, <3>1 DEF Left
    <3> QED
      BY <1>1, <2>3, <3>2
  <2>6. given + pending + io + Left = owed + Table(current) + Slip
    BY <1>1, <2>1 DEF AccessInv, IorwInv, Cycle
  <2>7. /\ {cycles, pending, io, owed, given} \subseteq Nat /\ Table(current) \in Nat /\ Slip \in Nat
    BY <1>1, Modes DEF AccessInv, AccessTypeOK, Slip
  <2>8. PICK stolen \in Nat :
          given' = given + pending + io + 1 + stolen /\ owed' = owed + stolen
    <3>1. CASE CpuMemRead8
      <4>1. op = "read"
        BY <1>1, <3>1 DEF CpuMemRead8, Cycle
      <4>2. SyncDevices(Batch + 1, 0) /\ owed' = owed
        BY <1>1, <3>1, <4>1 DEF CpuMemRead8, Synced
      <4> QED
        BY <1>1, <2>7, <4>2, SyncGives
    <3>2. CASE CpuMemWrite8
      <4>1. op = "write"
        BY <1>1, <3>2 DEF CpuMemWrite8, Cycle
      <4>2. SyncDevices(Batch + 1, 0) /\ owed' = owed
        BY <1>1, <3>2, <4>1 DEF CpuMemWrite8, Synced
      <4> QED
        BY <1>1, <2>7, <4>2, SyncGives
    <3>3. CASE DmaWrite
      <4>1. PICK stolen \in Nat : SyncDevices(Batch + 1, stolen) /\ owed' = owed + stolen
        <5>1. (cycles + Batch + 1) % 2 \in Nat
          BY <2>7 DEF Batch
        <5>2. DmaCycles + 1 + ((cycles + Batch + 1) % 2) \in Nat
          BY <5>1, AccessConstants
        <5> QED
          BY <3>3, <5>2 DEF DmaWrite
      <4> QED
        BY <1>1, <4>1, SyncGives
    <3>4. CASE BeginInsn \/ Count \/ End
      BY <1>1, <3>4 DEF BeginInsn, Count, End, Cycle
    <3> QED
      BY <1>1, <3>1, <3>2, <3>3, <3>4 DEF Next
  <2> QED
    BY <2>5, <2>6, <2>7, <2>8
<1>2. ASSUME AccessInv, [Next]_accessVars
      PROVE  [\A op \in {"read", "write"} : Seen(op)]_accessVars
  BY <1>1, <1>2
<1> QED
  BY <1>2, AccessInvariant, PTL DEF Spec, DeviceSeesItsCycle
=============================================================================
