------------------------------- MODULE CpuAlu --------------------------------
(***************************************************************************)
(* The arithmetic of cpu/emulate.c: how the base functions of the          *)
(* instructions compute a byte and the flags, and what a chain of them     *)
(* promises a program that works on numbers of several bytes.  A byte has  *)
(* 2 * Half values (Half is 128 in the code), so a width is a parameter.   *)
(***************************************************************************)
EXTENDS Integers

CONSTANT Half   \* the smallest byte that is negative as an int8_t

ASSUME HalfAssumption == Half \in Nat \ {0}

Size == 2 * Half
Byte == 0..(Size - 1)
Flags == [c : BOOLEAN, z : BOOLEAN, i : BOOLEAN, d : BOOLEAN,
          b : BOOLEAN, u : BOOLEAN, v : BOOLEAN, n : BOOLEAN]

\* NFLAG_CHECK, IS_NEG_INT8
Neg(val) == val >= Half
Carry(p) == IF p.c THEN 1 ELSE 0
Flip(val) == Size - 1 - val
UpdateNZ(p, val) == [p EXCEPT !.n = Neg(val), !.z = (val = 0)]

\* A base function answers with the byte it computes and the flags it leaves.
Result(val, p) == [val |-> val, p |-> UpdateNZ(p, val)]

\* VFLAG_CPU_CHECK of CPU_LARGE_CACHE: operands of different signs never
\* overflow, others do when the sign of the result is not theirs.
OverflowBySum(a, b, r) == Neg(r)
Overflow(a, b, r) == (Neg(a) <=> Neg(b)) /\ (Neg(a) <=> ~Neg(r))

adc_base(a, val, p) ==
  LET sum == a + val + Carry(p)
      add == sum % Size
  IN Result(add, [p EXCEPT !.v = Overflow(a, val, add), !.c = sum >= Size])

sbc_base(a, val, p) == adc_base(a, Flip(val), p)

\* cpn_base leaves the register alone; the byte is the difference it tests.
cpn_base(val, n, p) == Result((n - val) % Size, [p EXCEPT !.c = n >= val])

ld_base(val, p) == Result(val, p)

asl_base(val, p) == Result((2 * val) % Size, [p EXCEPT !.c = Neg(val)])
lsr_base(val, p) == Result(val \div 2, [p EXCEPT !.c = (val % 2 = 1)])
rol_base(val, p) ==
  Result(((2 * val) % Size) + Carry(p), [p EXCEPT !.c = Neg(val)])
ror_base(val, p) ==
  Result((val \div 2) + (Carry(p) * Half), [p EXCEPT !.c = (val % 2 = 1)])

inc_base(val, p) == Result((val + 1) % Size, p)
dec_base(val, p) == Result((val - 1) % Size, p)

-----------------------------------------------------------------------------
(* Chains: CLC and a row of ADCs, SEC (or a CMP) and a row of SBCs, ASL and  *)
(* a row of ROLs, LSR and a row of RORs.  x and y are the numbers the chain  *)
(* was given, r the one it computed, weight the value of the next byte;      *)
(* signed says that its last byte set the overflow flag.                     *)

Signed(val, weight) == IF 2 * val >= weight THEN val - weight ELSE val

\* The numbers of a chain are as long as its weight says.
Chains == [kind : {"none", "add", "sub", "shl", "shr"}, x : Nat, y : Nat, r : Nat,
           weight : Nat \ {0}, signed : BOOLEAN]
Fits(ch) == ch.x < ch.weight /\ ch.y < ch.weight /\ ch.r < ch.weight

NoChain == [kind |-> "none", x |-> 0, y |-> 0, r |-> 0, weight |-> 1,
            signed |-> FALSE]
Begin(kind) == [NoChain EXCEPT !.kind = kind]

\* From the low byte up.
Extend(ch, a, val, res, signed) ==
  [ch EXCEPT !.x = @ + a * ch.weight, !.y = @ + val * ch.weight,
             !.r = @ + res * ch.weight, !.weight = @ * Size, !.signed = signed]

\* From the high byte down: the right shifts.
ExtendDown(ch, a, res) ==
  [ch EXCEPT !.x = @ * Size + a, !.r = @ * Size + res, !.weight = @ * Size]

\* What the carry says of the whole numbers when a chain stops anywhere.
WideExact(ch, p) ==
  /\ ch.kind = "add" => ch.r + Carry(p) * ch.weight = ch.x + ch.y
  /\ ch.kind = "sub" => ch.r + Carry(p) * ch.weight = ch.x - ch.y + ch.weight
  /\ ch.kind = "shl" => ch.r + Carry(p) * ch.weight = 2 * ch.x
  /\ ch.kind = "shr" => 2 * ch.r + Carry(p) = ch.x

\* And the overflow flag of the last ADC or SBC.
Fitting(n, weight) == (-weight <= 2 * n) /\ (2 * n < weight)
SignedExact(ch, p) ==
  LET x == Signed(ch.x, ch.weight)
      y == Signed(ch.y, ch.weight)
  IN /\ ch.signed /\ ch.kind = "add" => (p.v <=> ~Fitting(x + y, ch.weight))
     /\ ch.signed /\ ch.kind = "sub" => (p.v <=> ~Fitting(x - y, ch.weight))
==============================================================================
