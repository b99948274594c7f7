-------------------------- MODULE Cartridge_proofs ---------------------------
(***************************************************************************)
(* Proofs about the cartridge: what the windows of the CPU and of the PPU  *)
(* show, what the two ports of a program do, the map of the PPU's memory,  *)
(* and what the loader finds in a file.  They hold for every image that    *)
(* its format can describe, for the memories of every size that is whole   *)
(* in the banks the board switches, and for every width of an address.     *)
(***************************************************************************)
EXTENDS Cartridge, TLAPS

-----------------------------------------------------------------------------
(* Division. *)

LEMMA ModRange ==
  ASSUME NEW n \in Nat, NEW m \in Nat \ {0}
  PROVE  n % m \in 0..(m - 1)
OBVIOUS

LEMMA DivRange ==
  ASSUME NEW n \in Nat, NEW m \in Nat \ {0}
  PROVE  n \div m \in Nat
OBVIOUS

LEMMA DivMod ==
  ASSUME NEW n \in Nat, NEW m \in Nat \ {0}
  PROVE  n % m = n - m * (n \div m)
OBVIOUS

LEMMA ModIs ==
  ASSUME NEW a \in Nat, NEW m \in Nat \ {0}, NEW q \in Nat, q * m <= a, a < q * m + m
  PROVE  a % m = a - q * m /\ a \div m = q
OBVIOUS

-----------------------------------------------------------------------------
(* Masks. *)

LEMMA PowersOfTwo ==
  /\ 2^0 = 1 /\ 2^1 = 2 /\ 2^2 = 4 /\ 2^3 = 8 /\ 2^4 = 16
  /\ 2^5 = 32 /\ 2^6 = 64 /\ 2^7 = 128 /\ 2^8 = 256 /\ 2^9 = 512
OBVIOUS

\* The bits of a mask weigh no more than the mask.
LEMMA BitsOf ==
  ASSUME NEW m \in Nat
  PROVE  (m % 2) + 2 * ((m \div 2) % 2) + 4 * ((m \div 4) % 2) + 8 * ((m \div 8) % 2)
         + 16 * ((m \div 16) % 2) + 32 * ((m \div 32) % 2) + 64 * ((m \div 64) % 2)
         + 128 * ((m \div 128) % 2) + 256 * ((m \div 256) % 2) + 512 * ((m \div 512) % 2) <= m
OBVIOUS

\* A number cut down to a memory is in it; with a number and a memory in fours, or in
\* twos, so are the ones that follow it.
LEMMA MaskedFacts ==
  ASSUME NEW n \in Nat, NEW size \in Nat \ {0}
  PROVE  /\ Masked(n, size) \in 0..(size - 1)
         /\ n % 4 = 0 => Masked(n, size) % 4 = 0 /\ (size % 4 = 0 => Masked(n, size) + 3 < size)
         /\ n % 2 = 0 /\ size % 2 = 0 => Masked(n, size) + 1 < size
         /\ n = 0 => Masked(n, size) = 0
<1> DEFINE m == size - 1
           at(i) == IF Bit(n, i) = 1 /\ Bit(m, i) = 1 THEN 2^i ELSE 0
<1>1. m \in Nat /\ m = size - 1
  OBVIOUS
<1>2. Masked(n, size) = at(0) + at(1) + at(2) + at(3) + at(4) + at(5) + at(6) + at(7) + at(8) + at(9)
  BY DEF Masked
<1>3. ASSUME NEW i \in 0..9
      PROVE  /\ at(i) = 0 \/ at(i) = 2^i
             /\ at(i) = 0 \/ ((m \div 2^i) % 2 = 1 /\ (n \div 2^i) % 2 = 1)
  BY DEF Bit
<1>4. /\ at(0) \in {0, 1} /\ at(0) <= (m % 2)
      /\ at(1) \in {0, 2} /\ at(1) <= 2 * ((m \div 2) % 2)
      /\ at(2) \in {0, 4} /\ at(2) <= 4 * ((m \div 4) % 2)
      /\ at(3) \in {0, 8} /\ at(3) <= 8 * ((m \div 8) % 2)
      /\ at(4) \in {0, 16} /\ at(4) <= 16 * ((m \div 16) % 2)
      /\ at(5) \in {0, 32} /\ at(5) <= 32 * ((m \div 32) % 2)
      /\ at(6) \in {0, 64} /\ at(6) <= 64 * ((m \div 64) % 2)
      /\ at(7) \in {0, 128} /\ at(7) <= 128 * ((m \div 128) % 2)
      /\ at(8) \in {0, 256} /\ at(8) <= 256 * ((m \div 256) % 2)
      /\ at(9) \in {0, 512} /\ at(9) <= 512 * ((m \div 512) % 2)
  BY <1>1, <1>3, PowersOfTwo
<1>5. /\ at(0) = 0 \/ (n \div 1) % 2 = 1
      /\ at(1) = 0 \/ (n \div 2) % 2 = 1
      /\ at(2) = 0 \/ (n \div 4) % 2 = 1
      /\ at(3) = 0 \/ (n \div 8) % 2 = 1
      /\ at(4) = 0 \/ (n \div 16) % 2 = 1
      /\ at(5) = 0 \/ (n \div 32) % 2 = 1
      /\ at(6) = 0 \/ (n \div 64) % 2 = 1
      /\ at(7) = 0 \/ (n \div 128) % 2 = 1
      /\ at(8) = 0 \/ (n \div 256) % 2 = 1
      /\ at(9) = 0 \/ (n \div 512) % 2 = 1
  BY <1>3, PowersOfTwo
<1>6. /\ n % 4 = 0 => at(0) = 0 /\ at(1) = 0
      /\ n % 2 = 0 => at(0) = 0
  BY <1>5
<1>7. n = 0 => /\ at(0) = 0 /\ at(1) = 0 /\ at(2) = 0 /\ at(3) = 0 /\ at(4) = 0
               /\ at(5) = 0 /\ at(6) = 0 /\ at(7) = 0 /\ at(8) = 0 /\ at(9) = 0
  BY <1>5
<1> HIDE DEF at, m
<1>8. Masked(n, size) \in Nat /\ Masked(n, size) <= m
  <2> DEFINE b0 == m % 2
             b1 == (m \div 2) % 2
             b2 == (m \div 4) % 2
             b3 == (m \div 8) % 2
             b4 == (m \div 16) % 2
             b5 == (m \div 32) % 2
             b6 == (m \div 64) % 2
             b7 == (m \div 128) % 2
             b8 == (m \div 256) % 2
             b9 == (m \div 512) % 2
  <2>1. b0 + 2 * b1 + 4 * b2 + 8 * b3 + 16 * b4 + 32 * b5
        + 64 * b6 + 128 * b7 + 256 * b8 + 512 * b9 <= m
    BY <1>1, BitsOf
  <2>2. /\ b0 \in Nat /\ b1 \in Nat /\ b2 \in Nat /\ b3 \in Nat /\ b4 \in Nat
        /\ b5 \in Nat /\ b6 \in Nat /\ b7 \in Nat /\ b8 \in Nat /\ b9 \in Nat
    BY <1>1
  <2>3. /\ at(0) \in Nat /\ at(0) <= b0
        /\ at(1) \in Nat /\ at(1) <= 2 * b1
        /\ at(2) \in Nat /\ at(2) <= 4 * b2
        /\ at(3) \in Nat /\ at(3) <= 8 * b3
        /\ at(4) \in Nat /\ at(4) <= 16 * b4
        /\ at(5) \in Nat /\ at(5) <= 32 * b5
        /\ at(6) \in Nat /\ at(6) <= 64 * b6
        /\ at(7) \in Nat /\ at(7) <= 128 * b7
        /\ at(8) \in Nat /\ at(8) <= 256 * b8
        /\ at(9) \in Nat /\ at(9) <= 512 * b9
    BY <1>4
  <2> HIDE DEF b0, b1, b2, b3, b4, b5, b6, b7, b8, b9
  <2>. QED BY <1>1, <1>2, <2>1, <2>2, <2>3
<1>9. n % 4 = 0 => Masked(n, size) % 4 = 0
  BY <1>2, <1>4, <1>6
<1>10. n % 4 = 0 /\ size % 4 = 0 => Masked(n, size) + 3 < size
  <2>1. size % 4 = 0 => m % 4 = 3
    BY <1>1
  <2>2. \A a \in Nat : a % 4 = 0 /\ a <= m /\ m % 4 = 3 => a + 3 <= m
    BY <1>1
  <2>. QED BY <1>1, <1>8, <1>9, <2>1, <2>2
<1>11. n % 2 = 0 /\ size % 2 = 0 => Masked(n, size) + 1 < size
  <2>1. n % 2 = 0 => Masked(n, size) % 2 = 0
    BY <1>2, <1>4, <1>6
  <2>2. \A a \in Nat : a % 2 = 0 /\ a <= m /\ m % 2 = 1 => a + 1 <= m
    BY <1>1
  <2>. QED BY <1>1, <1>8, <2>1, <2>2
<1>. QED BY <1>1, <1>2, <1>7, <1>8, <1>9, <1>10, <1>11

-----------------------------------------------------------------------------
(***************************************************************************)
(* The mapper.  Its windows are at every moment those of its registers.    *)
(***************************************************************************)
Mmc1Registers ==
  [shift : 1..31, control : 0..31, chr0 : 0..31, chr1 : 0..31, prg : 0..31]

MapperTypeOK ==
  /\ mmc1 \in Mmc1Registers
  /\ bank \in 0..255 /\ last \in 0..255
  /\ kind \in {"NROM", "UxROM", "CNROM", "AxROM"} => bank = last

\* The memories come in whole numbers of the banks that the board switches: 32 KB and
\* 16 KB of PRG, 8 KB of CHR; and CNROM's CHR is a ROM.
Whole(n, unit) == n \in Nat \ {0} /\ n % unit = 0
WholeBanks ==
  /\ \/ kind \in {"NROM", None}
     \/ kind = "MMC1" /\ Whole(cart.prg, 4) /\ Whole(cart.chr, 2)
     \/ kind = "UxROM" /\ Whole(cart.prg, 2)
     \/ kind = "CNROM" /\ Whole(cart.prg, 1) /\ Whole(cart.chr, 2) /\ cart.chrRom = cart.chr
     \/ kind = "AxROM" /\ Whole(cart.prg, 4)
  /\ cart.chrMem \in Nat /\ cart.chrMem >= 2

WindowsOK ==
  /\ kind = "MMC1" =>
       prgWin = Mmc1Prg(mmc1) /\ chrWin = Mmc1Chr(mmc1) /\ screens = Mmc1Screens(mmc1)
  /\ kind = "UxROM" => prgWin = Prg16K(Masked(2 * last, cart.prg), cart.prg - 2)
  /\ kind = "CNROM" => prgWin = Prg32KMasked(0) /\ chrWin = Chr8K(Masked(2 * last, cart.chrRom))
  /\ kind = "AxROM" => prgWin = Prg32K(Masked(4 * last, cart.prg)) /\ screens = SingleScreen(Bit(last, 4))
  /\ kind \in {"NROM", "UxROM", "AxROM"} => chrWin = Chr8K(0)

MapperInv == MapperTypeOK /\ (WholeBanks => WindowsOK)

\* The bit that tells the CHR modes apart, and the mirroring, outlive a reset
\* (Mmc1PrgWrite, MMC1_SR_RESET).
LEMMA FixLastFacts ==
  ASSUME NEW c \in 0..31
  PROVE  /\ WithFixLast(c) \in 0..31
         /\ Bit(WithFixLast(c), 4) = Bit(c, 4) /\ WithFixLast(c) % 4 = c % 4
         /\ PrgMode(WithFixLast(c)) = 3
<1>1. Bit(c, 4) = (c \div 16) % 2 /\ c \div 16 \in {0, 1}
  BY DEF Bit
<1>2. WithFixLast(c) = 16 * (c \div 16) + 12 + (c % 4)
  BY <1>1 DEF WithFixLast
<1>3. c % 4 \in 0..3
  OBVIOUS
<1>4. \A n : Bit(n, 4) = (n \div 16) % 2
  BY DEF Bit
<1>. QED BY <1>1, <1>2, <1>3, <1>4 DEF PrgMode

\* Which register each map depends on.
LEMMA MapDepends ==
  ASSUME NEW r, NEW s
  PROVE  /\ r.control = s.control /\ r.prg = s.prg => Mmc1Prg(r) = Mmc1Prg(s)
         /\ Bit(r.control, 4) = Bit(s.control, 4) /\ r.chr0 = s.chr0 /\ r.chr1 = s.chr1 =>
              Mmc1Chr(r) = Mmc1Chr(s)
         /\ r.control % 4 = s.control % 4 => Mmc1Screens(r) = Mmc1Screens(s)
BY DEF Mmc1Prg, Mmc1Chr, Mmc1Screens

\* The windows that MapperPrgInit and PpuMMapInit set up (MapperInit, MapperPrgInit).
LEMMA MapperInitInv == MapperInit => MapperInv
<1> SUFFICES ASSUME MapperInit PROVE MapperInv
  OBVIOUS
<1>1. /\ mmc1 = [shift |-> 16, control |-> WithFixLast(IF cart.vertical THEN 2 ELSE 3),
                 chr0 |-> 0, chr1 |-> 0, prg |-> 0]
      /\ bank = 0 /\ last = 0
  BY DEF MapperInit, Mmc1Reset
<1>2. mmc1.control \in 0..31 /\ Bit(mmc1.control, 4) = 0 /\ mmc1.control % 4 = IF cart.vertical THEN 2 ELSE 3
  <2>1. 2 \in 0..31 /\ 3 \in 0..31 /\ Bit(2, 4) = 0 /\ Bit(3, 4) = 0 /\ 2 % 4 = 2 /\ 3 % 4 = 3
    BY PowersOfTwo DEF Bit
  <2>. QED BY <1>1, <2>1, FixLastFacts
<1>3. MapperTypeOK
  BY <1>1, <1>2 DEF MapperTypeOK, Mmc1Registers
<1>4. ASSUME WholeBanks, kind # None PROVE WindowsOK
  <2>1. /\ kind \in {"MMC1", "UxROM", "CNROM", "AxROM"} => cart.prg \in Nat \ {0}
        /\ kind \in {"MMC1", "CNROM"} => cart.chr \in Nat \ {0}
        /\ kind = "CNROM" => cart.chrRom \in Nat \ {0}
        /\ kind = "AxROM" => cart.prg >= 4
    BY <1>4 DEF WholeBanks, Whole, None
  <2>2. \A size \in Nat \ {0} : Masked(0, size) = 0
    BY MaskedFacts
  <2>3. CASE kind = "MMC1"
    <3>1. prgWin = Mmc1Prg(mmc1) /\ chrWin = Chr8K(0) /\ screens = Mirrored(cart.vertical)
      BY <1>4, <2>3 DEF MapperInit, None
    <3>2. Mmc1Chr(mmc1) = Chr8K(0)
      BY <1>1, <1>2, <2>1, <2>2, <2>3 DEF Mmc1Chr
    <3>3. Mmc1Screens(mmc1) = Mirrored(cart.vertical)
      BY <1>2 DEF Mmc1Screens, Mirrored
    <3>. QED BY <2>3, <3>1, <3>2, <3>3 DEF WindowsOK
  <2>4. CASE kind = "UxROM"
    BY <1>1, <1>4, <2>1, <2>2, <2>4 DEF MapperInit, None, WindowsOK
  <2>5. CASE kind = "CNROM"
    BY <1>1, <1>4, <2>1, <2>2, <2>5 DEF MapperInit, None, WindowsOK
  <2>6. CASE kind = "AxROM"
    <3>1. prgWin = Prg32KMasked(0) /\ chrWin = Chr8K(0) /\ screens = SingleScreen(0)
      BY <1>4, <2>6 DEF MapperInit, None
    <3>2. \A v \in 0..3 : Masked(v, 4) = v
      BY PowersOfTwo DEF Masked, Bit
    <3>3. Prg32KMasked(0) = Prg32K(0)
      BY <2>1, <2>6, <3>2 DEF Prg32KMasked, Prg32K
    <3>4. Bit(0, 4) = 0
      BY PowersOfTwo DEF Bit
    <3>. QED BY <1>1, <2>1, <2>2, <2>6, <3>1, <3>3, <3>4 DEF WindowsOK
  <2>7. CASE kind = "NROM"
    BY <1>4, <2>7 DEF MapperInit, None, WindowsOK
  <2>. QED BY <1>4, <2>3, <2>4, <2>5, <2>6, <2>7 DEF WholeBanks
<1>5. kind = None => WindowsOK
  BY DEF WindowsOK, None
<1>. QED BY <1>3, <1>4, <1>5 DEF MapperInv

\* The registers of the MMC1 keep their five bits (Mmc1BankSwitch).
LEMMA Mmc1Types ==
  ASSUME mmc1 \in Mmc1Registers, NEW d \in {0, 1}
  PROVE  /\ mmc1.shift \in 1..31 /\ mmc1.control \in 0..31
         /\ mmc1.chr0 \in 0..31 /\ mmc1.chr1 \in 0..31 /\ mmc1.prg \in 0..31
         /\ Shifted(d) \in 0..31
         /\ ~ShiftFull(mmc1.shift) => Shifted(d) \in 1..31
BY DEF Mmc1Registers, Shifted, ShiftFull

\* A write to the serial port leaves the windows those of the registers.
LEMMA Mmc1StepInv ==
  ASSUME MapperInv,
         \/ Mmc1ResetWrite
         \/ \E d \in {0, 1} :
              Mmc1Shift(d) \/ \E reg \in {"control", "chr0", "chr1", "prg"} : Mmc1Load(d, reg)
  PROVE  MapperInv'
<1>1. MapperTypeOK /\ (WholeBanks => WindowsOK) /\ mmc1 \in Mmc1Registers /\ kind = "MMC1"
  BY DEF MapperInv, MapperTypeOK, Mmc1ResetWrite, Mmc1Shift, Mmc1Load
<1>2. UNCHANGED <<cart, kind, bank, last>> /\ WholeBanks' = WholeBanks
  BY DEF Mmc1ResetWrite, Mmc1Shift, Mmc1Load, WholeBanks
<1>3. ASSUME mmc1' \in Mmc1Registers,
             WindowsOK => /\ prgWin' = Mmc1Prg(mmc1') /\ chrWin' = Mmc1Chr(mmc1')
                          /\ screens' = Mmc1Screens(mmc1')
      PROVE  MapperInv'
  <2>1. /\ Mmc1Prg(mmc1)' = Mmc1Prg(mmc1') /\ Mmc1Chr(mmc1)' = Mmc1Chr(mmc1')
        /\ Mmc1Screens(mmc1)' = Mmc1Screens(mmc1')
    BY <1>2 DEF Mmc1Prg, Mmc1Chr, Mmc1Screens, Prg16K, Prg32K
  <2>2. WindowsOK => WindowsOK'
    BY <1>1, <1>2, <1>3, <2>1 DEF WindowsOK
  <2>. QED BY <1>1, <1>2, <1>3, <2>2 DEF MapperInv, MapperTypeOK
<1>4. WindowsOK => prgWin = Mmc1Prg(mmc1) /\ chrWin = Mmc1Chr(mmc1) /\ screens = Mmc1Screens(mmc1)
  BY <1>1 DEF WindowsOK
<1>5. CASE Mmc1ResetWrite
  <2> DEFINE c == WithFixLast(mmc1.control)
  <2>1. c \in 0..31 /\ Bit(c, 4) = Bit(mmc1.control, 4) /\ c % 4 = mmc1.control % 4
    BY <1>1, FixLastFacts DEF Mmc1Registers
  <2>2. mmc1' = [mmc1 EXCEPT !.shift = 16, !.control = c]
    BY <1>5 DEF Mmc1ResetWrite, Mmc1Reset
  <2> HIDE DEF c
  <2>3. /\ mmc1' \in Mmc1Registers
        /\ mmc1'.control = c /\ mmc1'.chr0 = mmc1.chr0 /\ mmc1'.chr1 = mmc1.chr1
    <3>1. 16 \in 1..31
      OBVIOUS
    <3>. QED BY <1>1, <2>1, <2>2, <3>1, Zenon DEF Mmc1Registers
  <2>4. Mmc1Chr(mmc1') = Mmc1Chr(mmc1) /\ Mmc1Screens(mmc1') = Mmc1Screens(mmc1)
    BY <2>1, <2>3, MapDepends
  <2>. QED BY <1>3, <1>4, <1>5, <2>3, <2>4 DEF Mmc1ResetWrite
<1>6. ASSUME NEW d \in {0, 1}, Mmc1Shift(d) PROVE MapperInv'
  <2>1. /\ mmc1' \in Mmc1Registers
        /\ mmc1'.control = mmc1.control /\ mmc1'.chr0 = mmc1.chr0
        /\ mmc1'.chr1 = mmc1.chr1 /\ mmc1'.prg = mmc1.prg
    BY <1>1, <1>6, Mmc1Types DEF Mmc1Shift, Mmc1Registers
  <2>2. /\ Mmc1Prg(mmc1') = Mmc1Prg(mmc1) /\ Mmc1Chr(mmc1') = Mmc1Chr(mmc1)
        /\ Mmc1Screens(mmc1') = Mmc1Screens(mmc1)
    BY <2>1, MapDepends
  <2>. QED BY <1>3, <1>4, <1>6, <2>1, <2>2 DEF Mmc1Shift, mapVars
<1>7. ASSUME NEW d \in {0, 1}, NEW reg \in {"control", "chr0", "chr1", "prg"}, Mmc1Load(d, reg)
      PROVE  MapperInv'
  <2>1. /\ mmc1' = [mmc1 EXCEPT !.shift = 16, ![reg] = Shifted(d)]
        /\ prgWin' = IF reg \in {"control", "prg"} THEN Mmc1Prg(mmc1') ELSE prgWin
        /\ chrWin' = IF reg \in {"control", "chr0", "chr1"} THEN Mmc1Chr(mmc1') ELSE chrWin
        /\ screens' = IF reg = "control" THEN Mmc1Screens(mmc1') ELSE screens
    BY <1>7 DEF Mmc1Load, Mmc1Reset
  <2>2. /\ mmc1' \in Mmc1Registers
        /\ reg # "control" => mmc1'.control = mmc1.control
        /\ reg # "chr0" => mmc1'.chr0 = mmc1.chr0
        /\ reg # "chr1" => mmc1'.chr1 = mmc1.chr1
        /\ reg # "prg" => mmc1'.prg = mmc1.prg
    <3>1. 16 \in 1..31 /\ Shifted(d) \in 0..31
      BY <1>1, Mmc1Types
    <3>2. CASE reg = "control"
      BY <1>1, <2>1, <3>1, <3>2, Zenon DEF Mmc1Registers
    <3>3. CASE reg = "chr0"
      BY <1>1, <2>1, <3>1, <3>3, Zenon DEF Mmc1Registers
    <3>4. CASE reg = "chr1"
      BY <1>1, <2>1, <3>1, <3>4, Zenon DEF Mmc1Registers
    <3>5. CASE reg = "prg"
      BY <1>1, <2>1, <3>1, <3>5, Zenon DEF Mmc1Registers
    <3>. QED BY <3>2, <3>3, <3>4, <3>5
  <2>3. /\ reg \notin {"control", "prg"} => Mmc1Prg(mmc1') = Mmc1Prg(mmc1)
        /\ reg \notin {"control", "chr0", "chr1"} => Mmc1Chr(mmc1') = Mmc1Chr(mmc1)
        /\ reg # "control" => Mmc1Screens(mmc1') = Mmc1Screens(mmc1)
    BY <2>2, MapDepends
  <2>. QED BY <1>3, <1>4, <2>1, <2>2, <2>3
<1>. QED BY <1>5, <1>6, <1>7

\* What arrives at the port of a simple mapper is a byte (the bus conflicts).
LEMMA ArrivingIsByte ==
  ASSUME NEW v \in Bytes, NEW b \in Arriving(v)
  PROVE  b \in 0..255
<1>1. v \in 0..255
  BY MapperConstants
<1>. QED BY <1>1 DEF Arriving

\* A write to the port of a simple mapper switches the bank that arrives, or finds it there.
LEMMA SimpleStepInv ==
  ASSUME MapperInv, NEW b \in 0..255, last' = b,
         NromSwitch(b) \/ UxRomSwitch(b) \/ CnRomSwitch(b) \/ AxRomSwitch(b) \/ Ignored(b)
  PROVE  MapperInv'
<1>1. MapperTypeOK /\ (WholeBanks => WindowsOK)
  BY DEF MapperInv
<1>2. UNCHANGED <<cart, kind, mmc1>> /\ WholeBanks' = WholeBanks /\ bank' = b
  BY DEF NromSwitch, UxRomSwitch, CnRomSwitch, AxRomSwitch, Ignored, Cached, WholeBanks
<1>3. MapperTypeOK'
  BY <1>1, <1>2 DEF MapperTypeOK
<1>4. ASSUME WindowsOK PROVE WindowsOK'
  <2>1. CASE NromSwitch(b)
    BY <1>2, <1>4, <2>1 DEF NromSwitch, WindowsOK, Chr8K
  <2>2. CASE UxRomSwitch(b)
    <3>1. prgWin = Prg16K(Masked(2 * last, cart.prg), cart.prg - 2) /\ kind = "UxROM"
      BY <1>4, <2>2 DEF UxRomSwitch, WindowsOK
    <3>2. prgWin' = Prg16K(Masked(2 * b, cart.prg), cart.prg - 2)
      <4> DEFINE was == Masked(2 * last, cart.prg)  first == Masked(2 * b, cart.prg)
                 second == cart.prg - 2
      <4>1. prgWin = [i \in 0..3 |-> IF i < 2 THEN was + i ELSE second + i - 2]
        BY <3>1 DEF Prg16K
      <4>2. prgWin' = [prgWin EXCEPT ![0] = first, ![1] = first + 1]
        BY <2>2 DEF UxRomSwitch
      <4>3. first + 0 = first
        BY DEF Masked, Bit
      <4> HIDE DEF was, first, second
      <4>4. prgWin' = [i \in 0..3 |-> IF i < 2 THEN first + i ELSE second + i - 2]
        <5>1. \A i \in 0..3 : prgWin'[i] = IF i < 2 THEN first + i ELSE second + i - 2
          <6>1. prgWin'[0] = first /\ prgWin'[1] = first + 1
            BY <4>1, <4>2
          <6>2. prgWin'[2] = prgWin[2] /\ prgWin'[3] = prgWin[3]
            BY <4>1, <4>2
          <6>. QED BY <4>1, <4>3, <6>1, <6>2
        <5>2. prgWin' = [i \in 0..3 |-> prgWin'[i]]
          BY <4>1, <4>2
        <5>. QED BY <5>1, <5>2
      <4>. QED BY <4>4 DEF Prg16K, first, second
    <3>3. UNCHANGED <<cart, kind, chrWin>>
      BY <2>2 DEF UxRomSwitch
    <3>4. Prg16K(Masked(2 * last, cart.prg), cart.prg - 2)' = Prg16K(Masked(2 * b, cart.prg), cart.prg - 2)
      BY <3>3 DEF Prg16K, Masked
    <3>. QED BY <1>4, <3>1, <3>2, <3>3, <3>4 DEF WindowsOK, Chr8K
  <2>3. CASE CnRomSwitch(b)
    <3>1. /\ Chr8K(Masked(2 * last, cart.chrRom))' = Chr8K(Masked(2 * b, cart.chrRom))
          /\ Prg32KMasked(0)' = Prg32KMasked(0)
      BY <1>2 DEF Chr8K, Masked, Prg32KMasked
    <3>. QED BY <1>4, <2>3, <3>1 DEF CnRomSwitch, WindowsOK
  <2>4. CASE AxRomSwitch(b)
    <3>1. /\ Prg32K(Masked(4 * last, cart.prg))' = Prg32K(Masked(4 * b, cart.prg))
          /\ SingleScreen(Bit(last, 4))' = SingleScreen(Bit(b, 4))
      BY <1>2 DEF Prg32K, Masked, SingleScreen, Bit
    <3>. QED BY <1>4, <2>4, <3>1 DEF AxRomSwitch, WindowsOK, Chr8K
  <2>5. CASE Ignored(b)
    <3>1. last' = last /\ kind # "MMC1"
      BY <1>1, <2>5 DEF Ignored, Cached, MapperTypeOK
    <3>2. UNCHANGED <<cart, kind, prgWin, chrWin, screens>>
      BY <2>5 DEF Ignored, mapVars
    <3>3. /\ Prg16K(Masked(2 * last, cart.prg), cart.prg - 2)' = Prg16K(Masked(2 * last, cart.prg), cart.prg - 2)
          /\ Prg32K(Masked(4 * last, cart.prg))' = Prg32K(Masked(4 * last, cart.prg))
          /\ Chr8K(Masked(2 * last, cart.chrRom))' = Chr8K(Masked(2 * last, cart.chrRom))
          /\ SingleScreen(Bit(last, 4))' = SingleScreen(Bit(last, 4))
          /\ Prg32KMasked(0)' = Prg32KMasked(0)
      BY <3>1, <3>2 DEF Prg16K, Prg32K, Chr8K, SingleScreen, Prg32KMasked, Masked
    <3>. QED BY <1>4, <3>1, <3>2, <3>3 DEF WindowsOK, Chr8K
  <2>. QED BY <2>1, <2>2, <2>3, <2>4, <2>5
<1>. QED BY <1>1, <1>2, <1>3, <1>4 DEF MapperInv

\* Every step of a mapper.
LEMMA MapperStepInv ==
  ASSUME MapperInv, MapperNext \/ UNCHANGED mapperVars
  PROVE  MapperInv'
<1>1. CASE UNCHANGED mapperVars
  BY <1>1 DEF mapperVars, mapVars, MapperInv, MapperTypeOK, WholeBanks, WindowsOK, Mmc1Prg, Mmc1Chr,
     Mmc1Screens, Prg16K, Prg32K, Chr8K, SingleScreen, Prg32KMasked
<1>2. ASSUME NEW v \in Bytes, NEW b \in Arriving(v), last' = b,
             NromSwitch(b) \/ UxRomSwitch(b) \/ CnRomSwitch(b) \/ AxRomSwitch(b) \/ Ignored(b)
      PROVE  MapperInv'
  BY <1>2, ArrivingIsByte, SimpleStepInv
<1>. QED BY <1>1, <1>2, Mmc1StepInv DEF MapperNext

-----------------------------------------------------------------------------
\* The windows are at every moment those of the registers.
THEOREM MapperInvariant == Spec => []MapperInv
<1>1. Init => MapperInv
  BY MapperInitInv DEF Init
<1>2. MapperInv /\ [Next]_cartridgeVars => MapperInv'
  BY MapperStepInv DEF Next, cartridgeVars
<1>. QED BY <1>1, <1>2, PTL DEF Spec

\* MapsFollowRegisters of every reachable state, for every image whose memories are whole
\* in the banks that its board switches, whatever the program writes to the ports.
THEOREM MapsTheorem == Spec => [](WholeBanks => MapsFollowRegisters)
<1>1. MapperInv => (WholeBanks => MapsFollowRegisters)
  <2> SUFFICES ASSUME MapperTypeOK, WholeBanks, WindowsOK PROVE MapsFollowRegisters
    BY DEF MapperInv
  <2>1. ASSUME kind = "MMC1" PROVE MapsFollowRegisters
    <3>1. /\ cart.prg \in Nat \ {0} /\ cart.prg % 4 = 0 /\ mmc1.prg \in 0..31
          /\ prgWin = Mmc1Prg(mmc1) /\ chrWin = Mmc1Chr(mmc1) /\ screens = Mmc1Screens(mmc1)
      BY <2>1 DEF WholeBanks, Whole, WindowsOK, MapperTypeOK, Mmc1Registers, None
    <3> DEFINE bank16 == Masked(2 * (mmc1.prg % 16), cart.prg)
               bank32 == Masked(4 * ((mmc1.prg \div 2) % 8), cart.prg)
               mode == PrgMode(mmc1.control)
    <3>2. /\ bank16 \in Nat /\ bank32 \in Nat /\ bank32 % 4 = 0
      <4>1. /\ 2 * (mmc1.prg % 16) \in Nat
            /\ 4 * ((mmc1.prg \div 2) % 8) \in Nat /\ (4 * ((mmc1.prg \div 2) % 8)) % 4 = 0
        BY <3>1
      <4>2. \A n \in Nat : Masked(n, cart.prg) \in 0..(cart.prg - 1)
                            /\ (n % 4 = 0 => Masked(n, cart.prg) % 4 = 0)
        BY <3>1, MaskedFacts, Zenon
      <4>3. \A n \in 0..(cart.prg - 1) : n \in Nat
        BY <3>1
      <4>. QED BY <4>1, <4>2, <4>3, Zenon
    <3>3. prgWin = CASE mode = 2 -> Prg16K(0, bank16)
                     [] mode = 3 -> Prg16K(bank16, cart.prg - 2)
                     [] OTHER -> Prg32K(bank32)
      BY <3>1 DEF Mmc1Prg
    <3>4. mode \in 0..3
      BY <2>1 DEF MapperTypeOK, Mmc1Registers, PrgMode
    <3> HIDE DEF bank16, bank32, mode
    <3>5. /\ mode = 3 => prgWin[3] = cart.prg - 1 /\ prgWin[0] = bank16
          /\ mode = 2 => prgWin[0] = 0 /\ prgWin[2] = bank16
          /\ mode < 2 => prgWin[0] % 4 = 0 /\ prgWin[3] = prgWin[0] + 3
      BY <3>1, <3>2, <3>3, <3>4 DEF Prg16K, Prg32K
    <3>6. /\ Bit(mmc1.control, 4) = 0 => chrWin[1] = chrWin[0] + 1
          /\ Bit(mmc1.control, 4) = 1 => chrWin[1] = Masked(mmc1.chr1, cart.chr)
      <4>1. Masked(2 * ((mmc1.chr0 \div 2) % 16), cart.chr) + 0 = Masked(2 * ((mmc1.chr0 \div 2) % 16), cart.chr)
        BY DEF Masked, Bit
      <4>. QED BY <3>1, <4>1 DEF Mmc1Chr, Chr8K
    <3>. QED BY <2>1, <3>1, <3>5, <3>6 DEF MapsFollowRegisters, mode, bank16
  <2>2. kind \in {"UxROM", "CNROM", "AxROM"} => MapsFollowRegisters
    BY DEF WindowsOK, MapsFollowRegisters
  <2>. QED BY <2>1, <2>2 DEF WholeBanks, MapsFollowRegisters, None
<1>. QED BY <1>1, MapperInvariant, PTL

\* The maps show what there is if what they start from is there.
LEMMA PrgMaps ==
  ASSUME NEW size \in Nat \ {0}, NEW a \in Nat, NEW b \in Nat
  PROVE  /\ a + 1 < size /\ b + 1 < size => Prg16K(a, b) \in [0..3 -> 0..(size - 1)]
         /\ a + 3 < size => Prg32K(a) \in [0..3 -> 0..(size - 1)]
         /\ a + 1 < size => Chr8K(a) \in [0..1 -> 0..(size - 1)]
<1>1. ASSUME a + 1 < size, b + 1 < size, NEW i \in 0..3
      PROVE  (IF i < 2 THEN a + i ELSE b + i - 2) \in 0..(size - 1)
  BY <1>1
<1>2. ASSUME a + 3 < size, NEW i \in 0..3 PROVE a + i \in 0..(size - 1)
  BY <1>2
<1>3. ASSUME a + 1 < size, NEW i \in 0..1 PROVE a + i \in 0..(size - 1)
  BY <1>3
<1>. QED BY <1>1, <1>2, <1>3, Zenon DEF Prg16K, Prg32K, Chr8K

\* WindowsInMemory of every reachable state, for every image whose memories are whole in
\* the banks that its board switches: whatever a program writes, MMC1, UxROM, CNROM and
\* AxROM show banks that are there, also of a size that is no power of two
\* (mapper.c 156-173, mmc1.c 81-139, uxrom.c 34-56, cnrom.c 28-52, axrom.c 31-58).
THEOREM WindowsTheorem == Spec => [](WholeBanks => WindowsInMemory)
<1>1. MapperInv => (WholeBanks => WindowsInMemory)
  <2> SUFFICES ASSUME MapperTypeOK, WholeBanks, WindowsOK PROVE WindowsInMemory
    BY DEF MapperInv
  <2>a. cart.chrMem \in Nat /\ cart.chrMem >= 2 /\ last \in 0..255 /\ mmc1 \in Mmc1Registers
    BY DEF WholeBanks, MapperTypeOK
  <2>b. /\ mmc1.control \in 0..31 /\ mmc1.chr0 \in 0..31 /\ mmc1.chr1 \in 0..31 /\ mmc1.prg \in 0..31
        /\ 2 * last \in Nat /\ (2 * last) % 2 = 0 /\ 4 * last \in Nat /\ (4 * last) % 4 = 0
    BY <2>a DEF Mmc1Registers
  <2>0. Chr8K(0) \in [0..1 -> 0..(cart.chrMem - 1)]
    <3>1. cart.chrMem \in Nat \ {0} /\ 0 \in Nat /\ 0 + 1 < cart.chrMem
      BY <2>a
    <3>. QED BY <3>1, PrgMaps, Zenon
  \* A CHR map that fits what the header asks for fits the memory, if that is as large.
  <2>1. ASSUME cart.chr \in Nat \ {0}, chrWin \in [0..1 -> 0..(cart.chr - 1)]
        PROVE  cart.chr <= cart.chrMem => chrWin \in [0..1 -> 0..(cart.chrMem - 1)]
    <3> SUFFICES ASSUME cart.chr <= cart.chrMem PROVE 0..(cart.chr - 1) \subseteq 0..(cart.chrMem - 1)
      BY <2>1
    <3>. QED BY <2>a, <2>1
  <2>2. CASE kind = "MMC1"
    <3>1. /\ cart.prg \in Nat \ {0} /\ cart.prg % 4 = 0
          /\ cart.chr \in Nat \ {0} /\ cart.chr % 2 = 0
          /\ prgWin = Mmc1Prg(mmc1) /\ chrWin = Mmc1Chr(mmc1)
      BY <2>2 DEF WholeBanks, Whole, WindowsOK, None
    <3> DEFINE n16 == 2 * (mmc1.prg % 16)  n32 == 4 * ((mmc1.prg \div 2) % 8)
               n8 == 2 * ((mmc1.chr0 \div 2) % 16)
    <3>2. /\ n16 \in Nat /\ n16 % 2 = 0 /\ n32 \in Nat /\ n32 % 4 = 0 /\ n8 \in Nat /\ n8 % 2 = 0
      <4>1. /\ mmc1.prg % 16 \in Nat /\ (mmc1.prg \div 2) % 8 \in Nat
            /\ (mmc1.chr0 \div 2) % 16 \in Nat
        BY <2>b
      <4>2. \A k \in Nat : 2 * k \in Nat /\ (2 * k) % 2 = 0 /\ 4 * k \in Nat /\ (4 * k) % 4 = 0
        OBVIOUS
      <4>. QED BY <4>1, <4>2, Zenon
    <3>3. prgWin = CASE PrgMode(mmc1.control) = 2 -> Prg16K(0, Masked(n16, cart.prg))
                     [] PrgMode(mmc1.control) = 3 -> Prg16K(Masked(n16, cart.prg), cart.prg - 2)
                     [] OTHER -> Prg32K(Masked(n32, cart.prg))
      BY <3>1 DEF Mmc1Prg
    <3>4. chrWin = IF Bit(mmc1.control, 4) = 1
                     THEN [i \in 0..1 |-> Masked(IF i = 0 THEN mmc1.chr0 ELSE mmc1.chr1, cart.chr)]
                     ELSE Chr8K(Masked(n8, cart.chr))
      BY <3>1 DEF Mmc1Chr
    <3> HIDE DEF n16, n32, n8
    <3>5. prgWin \in [0..3 -> 0..(cart.prg - 1)]
      <4>1. /\ Masked(n16, cart.prg) \in 0..(cart.prg - 1) /\ Masked(n16, cart.prg) + 1 < cart.prg
            /\ Masked(n32, cart.prg) \in 0..(cart.prg - 1) /\ Masked(n32, cart.prg) + 3 < cart.prg
        <5>1. cart.prg % 2 = 0
          BY <3>1
        <5>. QED BY <3>1, <3>2, <5>1, MaskedFacts
      <4>2. /\ 0 + 1 < cart.prg /\ cart.prg - 2 \in Nat /\ cart.prg - 2 + 1 < cart.prg
            /\ Masked(n16, cart.prg) \in Nat /\ Masked(n32, cart.prg) \in Nat /\ 0 \in Nat
        BY <3>1, <4>1
      <4>3. /\ Prg16K(0, Masked(n16, cart.prg)) \in [0..3 -> 0..(cart.prg - 1)]
            /\ Prg16K(Masked(n16, cart.prg), cart.prg - 2) \in [0..3 -> 0..(cart.prg - 1)]
            /\ Prg32K(Masked(n32, cart.prg)) \in [0..3 -> 0..(cart.prg - 1)]
        BY <3>1, <4>1, <4>2, PrgMaps
      <4>. QED BY <3>3, <4>3
    <3>6. chrWin \in [0..1 -> 0..(cart.chr - 1)]
      <4>1. CASE Bit(mmc1.control, 4) = 1
        <5>1. /\ Masked(mmc1.chr0, cart.chr) \in 0..(cart.chr - 1)
              /\ Masked(mmc1.chr1, cart.chr) \in 0..(cart.chr - 1)
          <6>1. \A n \in Nat : Masked(n, cart.chr) \in 0..(cart.chr - 1)
            BY <3>1, MaskedFacts, Zenon
          <6>2. mmc1.chr0 \in Nat /\ mmc1.chr1 \in Nat
            BY <2>b
          <6>. QED BY <6>1, <6>2, Zenon
        <5>. QED BY <3>4, <4>1, <5>1
      <4>2. CASE Bit(mmc1.control, 4) # 1
        <5>1. Masked(n8, cart.chr) \in 0..(cart.chr - 1) /\ Masked(n8, cart.chr) + 1 < cart.chr
          BY <3>1, <3>2, MaskedFacts
        <5>2. Masked(n8, cart.chr) \in Nat
          BY <3>1, <5>1
        <5>. QED BY <3>1, <3>4, <4>2, <5>1, <5>2, PrgMaps
      <4>. QED BY <4>1, <4>2
    <3>. QED BY <2>1, <2>2, <3>1, <3>5, <3>6 DEF WindowsInMemory
  <2>3. CASE kind = "UxROM"
    <3>1. /\ cart.prg \in Nat \ {0} /\ cart.prg % 2 = 0 /\ chrWin = Chr8K(0)
          /\ prgWin = Prg16K(Masked(2 * last, cart.prg), cart.prg - 2)
      BY <2>3 DEF WholeBanks, Whole, WindowsOK, None
    <3>2. /\ Masked(2 * last, cart.prg) \in 0..(cart.prg - 1) /\ Masked(2 * last, cart.prg) + 1 < cart.prg
      BY <2>b, <3>1, MaskedFacts
    <3>3. /\ Masked(2 * last, cart.prg) \in Nat /\ cart.prg - 2 \in Nat /\ cart.prg - 2 + 1 < cart.prg
      BY <3>1, <3>2
    <3>. QED BY <2>0, <2>3, <3>1, <3>2, <3>3, PrgMaps DEF WindowsInMemory
  <2>4. CASE kind = "CNROM"
    <3>1. /\ cart.prg \in Nat \ {0} /\ cart.chr \in Nat \ {0} /\ cart.chr % 2 = 0
          /\ prgWin = Prg32KMasked(0) /\ chrWin = Chr8K(Masked(2 * last, cart.chr))
      BY <2>4 DEF WholeBanks, Whole, WindowsOK, None
    <3>2. prgWin \in [0..3 -> 0..(cart.prg - 1)]
      <4> DEFINE size == IF cart.prg < 4 THEN cart.prg ELSE 4
      <4>1. size \in Nat \ {0} /\ size <= cart.prg
        BY <3>1
      <4>2. prgWin = [i \in 0..3 |-> 0 + Masked(i, size)]
        BY <3>1 DEF Prg32KMasked
      <4> HIDE DEF size
      <4>3. ASSUME NEW i \in 0..3 PROVE 0 + Masked(i, size) \in 0..(cart.prg - 1)
        <5>1. i \in Nat
          OBVIOUS
        <5>2. Masked(i, size) \in 0..(size - 1)
          BY <4>1, <5>1, MaskedFacts
        <5>. QED BY <3>1, <4>1, <5>2
      <4>. QED BY <4>2, <4>3
    <3>3. Masked(2 * last, cart.chr) \in 0..(cart.chr - 1) /\ Masked(2 * last, cart.chr) + 1 < cart.chr
      BY <2>b, <3>1, MaskedFacts
    <3>4. Masked(2 * last, cart.chr) \in Nat
      BY <3>1, <3>3
    <3>5. chrWin \in [0..1 -> 0..(cart.chr - 1)]
      BY <3>1, <3>3, <3>4, PrgMaps
    <3>. QED BY <2>1, <2>4, <3>1, <3>2, <3>5 DEF WindowsInMemory
  <2>5. CASE kind = "AxROM"
    <3>1. /\ cart.prg \in Nat \ {0} /\ cart.prg % 4 = 0 /\ chrWin = Chr8K(0)
          /\ prgWin = Prg32K(Masked(4 * last, cart.prg))
      BY <2>5 DEF WholeBanks, Whole, WindowsOK, None
    <3>2. Masked(4 * last, cart.prg) \in 0..(cart.prg - 1) /\ Masked(4 * last, cart.prg) + 3 < cart.prg
      BY <2>b, <3>1, MaskedFacts
    <3>3. Masked(4 * last, cart.prg) \in Nat
      BY <3>1, <3>2
    <3>. QED BY <2>0, <2>5, <3>1, <3>2, <3>3, PrgMaps DEF WindowsInMemory
  <2>6. CASE kind \in {"NROM", None}
    BY <2>0, <2>6 DEF WindowsInMemory, WindowsOK, None
  <2>. QED BY <2>2, <2>3, <2>4, <2>5, <2>6 DEF WholeBanks
<1>. QED BY <1>1, MapperInvariant, PTL

-----------------------------------------------------------------------------
(***************************************************************************)
(* The lookup: a recursion that has a solution, and what the solution is.  *)
(***************************************************************************)
\* The list as the search reads it.
LEMMA ListFacts ==
  /\ Len(MapperList) = 20
  /\ MapperList[1] = 255 /\ MapperList[2] = 0 /\ MapperList[3] = 1 /\ MapperList[4] = 2
  /\ MapperList[5] = 3 /\ MapperList[6] = 4 /\ MapperList[7] = 5 /\ MapperList[8] = 6
  /\ MapperList[9] = 7 /\ MapperList[10] = 8 /\ MapperList[11] = 9 /\ MapperList[12] = 10
  /\ MapperList[13] = 11 /\ MapperList[14] = 12 /\ MapperList[15] = 15 /\ MapperList[16] = 16
  /\ MapperList[17] = 17 /\ MapperList[18] = 18 /\ MapperList[19] = 19 /\ MapperList[20] = 71
BY DEF MapperList

Hit(id) == IF id \in DOMAIN Implemented THEN Implemented[id] ELSE None

LEMMA NextFacts ==
  ASSUME NEW id \in 0..255, NEW idx \in 0..19, NEW range \in 0..20
  PROVE  NextProbe(id, idx, range) \in 0..255 /\ range \div 2 \in 0..20
<1>1. range \div 2 \in 0..10 /\ range % 2 \in 0..1
  OBVIOUS
<1> DEFINE half == (range \div 2) + (range % 2)
<1>2. half \in 0..11
  BY <1>1
<1> HIDE DEF half
<1>3. (idx - half) % 256 \in 0..255 /\ (idx + half) % 256 \in 0..255
  BY <1>2
<1>. QED BY <1>1, <1>3 DEF NextProbe, half

\* One turn of the search, from what the turn after it finds.
Turn(id, below, idx, range) ==
  IF idx >= Len(MapperList) THEN None
  ELSE IF MapperList[idx + 1] = id THEN Hit(id)
  ELSE IF range = 0 THEN None
  ELSE below[NextProbe(id, idx, range)]
Row(id, below, range) == [idx \in 0..255 |-> Turn(id, below, idx, range)]

\* The recursion has a solution: five turns, each over the one that it halves to.
LEMMA SearchExists ==
  ASSUME NEW id \in 0..255
  PROVE  \E f : f = [range \in 0..20 |-> Row(id, f[range \div 2], range)]
<1> DEFINE r0 == [range \in 0..20 |-> Row(id, <<>>, range)]
<1> DEFINE r1 == [range \in 0..20 |-> Row(id, r0[range \div 2], range)]
<1> DEFINE r2 == [range \in 0..20 |-> Row(id, r1[range \div 2], range)]
<1> DEFINE r3 == [range \in 0..20 |-> Row(id, r2[range \div 2], range)]
<1> DEFINE r4 == [range \in 0..20 |-> Row(id, r3[range \div 2], range)]
<1> DEFINE r5 == [range \in 0..20 |-> Row(id, r4[range \div 2], range)]
<1>0. \A range \in 0..20 :
        /\ r0[range] = Row(id, <<>>, range)
        /\ r1[range] = Row(id, r0[range \div 2], range)
        /\ r2[range] = Row(id, r1[range \div 2], range)
        /\ r3[range] = Row(id, r2[range \div 2], range)
        /\ r4[range] = Row(id, r3[range \div 2], range)
        /\ r5[range] = Row(id, r4[range \div 2], range)
  BY Zenon
<1> HIDE DEF r0, r1, r2, r3, r4, r5
<1> DEFINE f == [range \in 0..20 |->
                   IF range = 0 THEN r0[range] ELSE IF range < 2 THEN r1[range]
                   ELSE IF range < 4 THEN r2[range] ELSE IF range < 8 THEN r3[range]
                   ELSE IF range < 16 THEN r4[range] ELSE r5[range]]
<1>1. \A below1, below2 : Row(id, below1, 0) = Row(id, below2, 0)
  BY DEF Row, Turn
<1>2. \A range \in 0..20 : f[range] = Row(id, f[range \div 2], range)
  <2>. TAKE range \in 0..20
  <2>1. range \div 2 \in 0..20
    OBVIOUS
  <2>2. CASE range = 0
    <3>1. f[range] = r0[range]
      BY <2>2
    <3>. QED BY <1>0, <1>1, <2>2, <3>1, Zenon
  <2>3. CASE 1 <= range /\ range < 2
    <3>1. f[range] = r1[range]
      BY <2>3
    <3>2. f[range \div 2] = r0[range \div 2]
      BY <2>1, <2>3
    <3>. QED BY <1>0, <3>1, <3>2, Zenon
  <2>4. CASE 2 <= range /\ range < 4
    <3>1. f[range] = r2[range]
      BY <2>4
    <3>2. f[range \div 2] = r1[range \div 2]
      BY <2>1, <2>4
    <3>. QED BY <1>0, <3>1, <3>2, Zenon
  <2>5. CASE 4 <= range /\ range < 8
    <3>1. f[range] = r3[range]
      BY <2>5
    <3>2. f[range \div 2] = r2[range \div 2]
      BY <2>1, <2>5
    <3>. QED BY <1>0, <3>1, <3>2, Zenon
  <2>6. CASE 8 <= range /\ range < 16
    <3>1. f[range] = r4[range]
      BY <2>6
    <3>2. f[range \div 2] = r3[range \div 2]
      BY <2>1, <2>6
    <3>. QED BY <1>0, <3>1, <3>2, Zenon
  <2>7. CASE 16 <= range /\ range < 21
    <3>1. f[range] = r5[range]
      BY <2>7
    <3>2. f[range \div 2] = r4[range \div 2]
      BY <2>1, <2>7
    <3>. QED BY <1>0, <3>1, <3>2, Zenon
  <2>. QED BY <2>2, <2>3, <2>4, <2>5, <2>6, <2>7
<1>3. f = [range \in 0..20 |-> Row(id, f[range \div 2], range)]
  <2>1. f = [range \in 0..20 |-> f[range]]
    OBVIOUS
  <2> HIDE DEF f
  <2>. QED BY <1>2, <2>1, Zenon
<1>. QED BY <1>3, Zenon

\* And the solution finds an implemented mapper wherever it is in the list.
LEMMA SearchFinds ==
  ASSUME NEW id \in 0..255, NEW f,
         f = [range \in 0..20 |-> Row(id, f[range \div 2], range)]
  PROVE  f[10][10] = Hit(id)
<1>1. \A range \in 0..20, idx \in 0..255 : \A half :
        half = range \div 2 => f[range][idx] = Turn(id, f[half], idx, range)
  <2>1. \A range \in 0..20 : f[range] = Row(id, f[range \div 2], range)
    BY Zenon
  <2>2. \A range, below : \A idx \in 0..255 :
          Row(id, below, range)[idx] = Turn(id, below, idx, range)
    BY DEF Row
  <2>. QED BY <2>1, <2>2, Zenon
<1> DEFINE hit == Hit(id)
<1>2. /\ 10 \in 0..20 /\ 5 = 10 \div 2 /\ 5 \in 0..20 /\ 2 = 5 \div 2 /\ 2 \in 0..20 /\ 1 = 2 \div 2
      /\ 1 \in 0..20 /\ 0 = 1 \div 2 /\ 0 \in 0..20 /\ 0 = 0 \div 2
  OBVIOUS
<1>3. \A idx \in 0..255 :
        /\ f[10][idx] = Turn(id, f[5], idx, 10) /\ f[5][idx] = Turn(id, f[2], idx, 5)
        /\ f[2][idx] = Turn(id, f[1], idx, 2) /\ f[1][idx] = Turn(id, f[0], idx, 1)
        /\ f[0][idx] = Turn(id, f[0], idx, 0)
  <2>. TAKE idx \in 0..255
  <2>1. ASSUME NEW range \in 0..20, NEW half, half = range \div 2
        PROVE  f[range][idx] = Turn(id, f[half], idx, range)
    BY <1>1, <2>1, Zenon
  <2>2. f[10][idx] = Turn(id, f[5], idx, 10)
    BY <1>2, <2>1, Zenon
  <2>3. f[5][idx] = Turn(id, f[2], idx, 5)
    BY <1>2, <2>1, Zenon
  <2>4. f[2][idx] = Turn(id, f[1], idx, 2)
    BY <1>2, <2>1, Zenon
  <2>5. f[1][idx] = Turn(id, f[0], idx, 1)
    BY <1>2, <2>1, Zenon
  <2>6. f[0][idx] = Turn(id, f[0], idx, 0)
    BY <1>2, <2>1, Zenon
  <2>. QED BY <2>2, <2>3, <2>4, <2>5, <2>6
<1>4. \A idx \in 5..19 :
        f[10][idx] = IF MapperList[idx + 1] = id THEN hit
                   ELSE IF id < MapperList[idx + 1] THEN f[5][idx - 5] ELSE f[5][idx + 5]
  <2>. TAKE idx \in 5..19
  <2>1. f[10][idx] = Turn(id, f[5], idx, 10)
    <3>1. idx \in 0..255
      OBVIOUS
    <3>. QED BY <1>3, <3>1, Zenon
  <2>2. NextProbe(id, idx, 10) = IF id < MapperList[idx + 1] THEN idx - 5 ELSE idx + 5
    BY DEF NextProbe
  <2>. QED BY <2>1, <2>2, ListFacts DEF Turn
<1>5. \A idx \in 3..19 :
        f[5][idx] = IF MapperList[idx + 1] = id THEN hit
                   ELSE IF id < MapperList[idx + 1] THEN f[2][idx - 3] ELSE f[2][idx + 3]
  <2>. TAKE idx \in 3..19
  <2>1. f[5][idx] = Turn(id, f[2], idx, 5)
    <3>1. idx \in 0..255
      OBVIOUS
    <3>. QED BY <1>3, <3>1, Zenon
  <2>2. NextProbe(id, idx, 5) = IF id < MapperList[idx + 1] THEN idx - 3 ELSE idx + 3
    BY DEF NextProbe
  <2>. QED BY <2>1, <2>2, ListFacts DEF Turn
<1>6. \A idx \in 1..19 :
        f[2][idx] = IF MapperList[idx + 1] = id THEN hit
                   ELSE IF id < MapperList[idx + 1] THEN f[1][idx - 1] ELSE f[1][idx + 1]
  <2>. TAKE idx \in 1..19
  <2>1. f[2][idx] = Turn(id, f[1], idx, 2)
    <3>1. idx \in 0..255
      OBVIOUS
    <3>. QED BY <1>3, <3>1, Zenon
  <2>2. NextProbe(id, idx, 2) = IF id < MapperList[idx + 1] THEN idx - 1 ELSE idx + 1
    BY DEF NextProbe
  <2>. QED BY <2>1, <2>2, ListFacts DEF Turn
<1>7. \A idx \in 1..19 :
        f[1][idx] = IF MapperList[idx + 1] = id THEN hit
                   ELSE IF id < MapperList[idx + 1] THEN f[0][idx - 1] ELSE f[0][idx + 1]
  <2>. TAKE idx \in 1..19
  <2>1. f[1][idx] = Turn(id, f[0], idx, 1)
    <3>1. idx \in 0..255
      OBVIOUS
    <3>. QED BY <1>3, <3>1, Zenon
  <2>2. NextProbe(id, idx, 1) = IF id < MapperList[idx + 1] THEN idx - 1 ELSE idx + 1
    BY DEF NextProbe
  <2>. QED BY <2>1, <2>2, ListFacts DEF Turn
<1>8. \A idx \in 0..19 : f[0][idx] = IF MapperList[idx + 1] = id THEN hit ELSE None
  <2>1. \A idx \in 0..19 : f[0][idx] = Turn(id, f[0], idx, 0)
    <3>1. \A idx \in 0..19 : idx \in 0..255
      OBVIOUS
    <3>. QED BY <1>3, <3>1, Zenon
  <2>. QED BY <2>1, ListFacts DEF Turn
<1>9. f[0][20] = None
  <2>1. f[0][20] = Turn(id, f[0], 20, 0)
    <3>1. 20 \in 0..255
      OBVIOUS
    <3>. QED BY <1>3, <3>1, Zenon
  <2>. QED BY <2>1, ListFacts DEF Turn
<1>10. id \notin {0, 1, 2, 3, 7} => hit = None
  BY DEF Hit, Implemented
<1> HIDE DEF hit
<1>11. /\ f[10][10] = IF id = 9 THEN hit ELSE IF id < 9 THEN f[5][5] ELSE f[5][15]
  BY <1>4, ListFacts
<1>12. /\ f[5][5] = IF id = 4 THEN hit ELSE IF id < 4 THEN f[2][2] ELSE f[2][8]
       /\ f[5][15] = IF id = 16 THEN hit ELSE IF id < 16 THEN f[2][12] ELSE f[2][18]
  BY <1>5, ListFacts
<1>13. /\ f[2][2] = IF id = 1 THEN hit ELSE IF id < 1 THEN f[1][1] ELSE f[1][3]
       /\ f[2][8] = IF id = 7 THEN hit ELSE IF id < 7 THEN f[1][7] ELSE f[1][9]
       /\ f[2][12] = IF id = 11 THEN hit ELSE IF id < 11 THEN f[1][11] ELSE f[1][13]
       /\ f[2][18] = IF id = 19 THEN hit ELSE IF id < 19 THEN f[1][17] ELSE f[1][19]
  BY <1>6, ListFacts
<1>14. /\ f[1][1] = IF id = 0 THEN hit ELSE IF id < 0 THEN f[0][0] ELSE f[0][2]
       /\ f[1][3] = IF id = 2 THEN hit ELSE IF id < 2 THEN f[0][2] ELSE f[0][4]
       /\ f[1][7] = IF id = 6 THEN hit ELSE IF id < 6 THEN f[0][6] ELSE f[0][8]
       /\ f[1][9] = IF id = 8 THEN hit ELSE IF id < 8 THEN f[0][8] ELSE f[0][10]
       /\ f[1][11] = IF id = 10 THEN hit ELSE IF id < 10 THEN f[0][10] ELSE f[0][12]
       /\ f[1][13] = IF id = 12 THEN hit ELSE IF id < 12 THEN f[0][12] ELSE f[0][14]
       /\ f[1][17] = IF id = 18 THEN hit ELSE IF id < 18 THEN f[0][16] ELSE f[0][18]
       /\ f[1][19] = IF id = 71 THEN hit ELSE IF id < 71 THEN f[0][18] ELSE f[0][20]
  BY <1>7, ListFacts
<1>15. /\ f[0][0] = IF id = 255 THEN hit ELSE None
       /\ f[0][2] = IF id = 1 THEN hit ELSE None
       /\ f[0][4] = IF id = 3 THEN hit ELSE None
       /\ f[0][6] = IF id = 5 THEN hit ELSE None
       /\ f[0][8] = IF id = 7 THEN hit ELSE None
       /\ f[0][10] = IF id = 9 THEN hit ELSE None
       /\ f[0][12] = IF id = 11 THEN hit ELSE None
       /\ f[0][14] = IF id = 15 THEN hit ELSE None
       /\ f[0][16] = IF id = 17 THEN hit ELSE None
       /\ f[0][18] = IF id = 19 THEN hit ELSE None
  BY <1>8, ListFacts
<1>. QED BY <1>9, <1>10, <1>11, <1>12, <1>13, <1>14, <1>15 DEF hit

LEMMA LookupFinds ==
  ASSUME NEW id \in 0..255
  PROVE  MapperLookupById(id) = Hit(id)
<1> DEFINE found == CHOOSE f : f = [range \in 0..Len(MapperList) |-> Row(id, f[range \div 2], range)]
<1>1. MapperLookupById(id) = found[Len(MapperList) \div 2][Len(MapperList) \div 2]
  BY Zenon DEF MapperLookupById, Row, Turn, Hit
<1>2. Len(MapperList) = 20 /\ Len(MapperList) \div 2 = 10
  BY ListFacts
<1>3. \E f : f = [range \in 0..Len(MapperList) |-> Row(id, f[range \div 2], range)]
  BY <1>2, SearchExists, Zenon
<1>4. found = [range \in 0..Len(MapperList) |-> Row(id, found[range \div 2], range)]
  BY <1>3, Zenon
<1> HIDE DEF found
<1>5. found[10][10] = Hit(id)
  BY <1>2, <1>4, SearchFinds, Zenon
<1>. QED BY <1>1, <1>2, <1>5, Zenon

LEMMA LookupInit == ASSUME MapperInit PROVE LookupIsExact
<1>. SUFFICES ASSUME cart.id \in 0..255
              PROVE  kind = IF cart.id \in DOMAIN Implemented THEN Implemented[cart.id] ELSE None
  BY DEF LookupIsExact
<1>1. cart.id % 256 = cart.id
  OBVIOUS
<1>2. kind = MapperLookupById(cart.id % 256)
  BY Zenon DEF MapperInit
<1>. QED BY <1>1, <1>2, LookupFinds, Zenon DEF Hit

\* LookupIsExact of every reachable state: the probes of the search, which rounds its
\* half range up and lets its index wrap, reach every mapper that is implemented, and take
\* no other id for one.
THEOREM LookupTheorem == Spec => []LookupIsExact
<1>1. Init => LookupIsExact
  BY LookupInit DEF Init
<1>2. LookupIsExact /\ [Next]_cartridgeVars => LookupIsExact'
  <2>1. [Next]_cartridgeVars => UNCHANGED <<cart, kind>>
    BY DEF Next, cartridgeVars, mapperVars, MapperNext, Mmc1ResetWrite, Mmc1Shift, Mmc1Load,
           NromSwitch, UxRomSwitch, CnRomSwitch, AxRomSwitch, Ignored
  <2>. QED BY <2>1, Zenon DEF LookupIsExact
<1>. QED BY <1>1, <1>2, PTL DEF Spec

-----------------------------------------------------------------------------
(***************************************************************************)
(* The ports of the PPU's memory.                                          *)
(***************************************************************************)

LEMMA Products ==
  ASSUME NEW a \in Nat, NEW b \in Nat, NEW c \in Nat
  PROVE  /\ a * b \in Nat /\ a * b = b * a
         /\ a <= b => a * c <= b * c
<1>1. a * b \in Nat /\ a * b = b * a
  OBVIOUS
<1>2. ASSUME a <= b PROVE a * c <= b * c
  <2> DEFINE d == b - a
  <2>1. d \in Nat /\ b = a + d
    BY <1>2
  <2> HIDE DEF d
  <2>2. (a + d) * c = a * c + d * c /\ d * c \in Nat /\ a * c \in Nat
    BY <2>1
  <2>. QED BY <2>1, <2>2
<1>. QED BY <1>1, <1>2

LEMMA QuotientTimes ==
  ASSUME NEW a \in Nat, NEW m \in Nat \ {0}
  PROVE  /\ a \div m \in Nat /\ a % m \in Nat /\ a % m < m
         /\ (a \div m) * m \in Nat /\ (a \div m) * m <= a /\ a = (a \div m) * m + (a % m)
<1>1. a \div m \in Nat /\ a % m \in 0..(m - 1) /\ a % m = a - m * (a \div m)
  BY ModRange, DivRange, DivMod
<1> DEFINE q == a \div m  r == a % m
<1>2. q \in Nat /\ r \in Nat /\ r < m /\ r = a - m * q
  BY <1>1
<1> HIDE DEF q, r
<1>3. q * m \in Nat /\ q * m = m * q
  BY <1>2, Products
<1>4. a = q * m + r /\ q * m <= a
  BY <1>2, <1>3
<1>. QED BY <1>2, <1>3, <1>4, Zenon DEF q, r

\* Setting a field of a register leaves a number.
LEMMA FieldIsNat ==
  ASSUME NEW t \in Nat, NEW weight \in Nat \ {0}, NEW size \in Nat \ {0}, NEW val \in Nat
  PROVE  t - ((t \div weight) % size) * weight + (val % size) * weight \in Nat
<1> DEFINE q == t \div weight  k == q % size  v == val % size
<1>1. q \in Nat /\ q * weight \in Nat /\ q * weight <= t
  BY QuotientTimes
<1>2. k \in Nat /\ k <= q /\ v \in Nat
  BY <1>1, QuotientTimes
<1> HIDE DEF q, k, v
<1>3. k * weight \in Nat /\ k * weight <= q * weight /\ v * weight \in Nat
  BY <1>1, <1>2, Products
<1>4. t - k * weight + v * weight \in Nat
  BY <1>1, <1>3
<1>. QED BY <1>4 DEF k, q, v

\* The first write to $2006, with the bit above the address cleared.
LEMMA HighByte ==
  ASSUME NEW t \in Nat, NEW low \in Nat \ {0}, NEW high \in Nat \ {0}, NEW v \in 0..(high - 1)
  PROVE  (t - ((t \div low) % high) * low + v * low) % (high * low) = v * low + (t % low)
<1> DEFINE q == t \div low  k == q % high  p == q \div high  r == t % low
           space == high * low  set == t - k * low + v * low
<1>1. q \in Nat /\ r \in Nat /\ r < low /\ t = q * low + r
  BY QuotientTimes
<1>2. k \in Nat /\ p \in Nat /\ q = p * high + k
  BY <1>1, QuotientTimes
<1> HIDE DEF q, k, p, r
<1>3. /\ q * low = p * space + k * low /\ k * low \in Nat /\ p * space \in Nat
      /\ v * low \in Nat /\ space \in Nat \ {0}
  BY <1>1, <1>2
<1>4. v * low + r < space
  <2>1. v + 1 <= high /\ v + 1 \in Nat
    OBVIOUS
  <2>2. (v + 1) * low <= high * low /\ (v + 1) * low = v * low + low
    BY <2>1
  <2>. QED BY <1>1, <1>3, <2>2
<1> DEFINE ps == p * space  kl == k * low  vl == v * low
<1>5. t = ps + kl + r
  BY <1>1, <1>3
<1> HIDE DEF space
<1>6. ps + vl + r \in Nat /\ ps <= ps + vl + r /\ ps + vl + r < ps + space
  BY <1>1, <1>3, <1>4
<1>7. (ps + vl + r) % space = vl + r
  <2>1. (ps + vl + r) % space = (ps + vl + r) - p * space
    BY <1>2, <1>3, <1>6, ModIs
  <2>. QED BY <1>1, <1>3, <2>1
<1>8. set = ps + vl + r
  BY <1>1, <1>3, <1>5
<1>9. set % space = vl + r
  BY <1>7, <1>8
<1>. QED BY <1>9, Zenon DEF space, k, q, r, set, vl

\* The second write completes the address of which the first set the high part.
PortInv ==
  /\ cur \in Nat /\ tmp \in Nat /\ w \in BOOLEAN
  /\ seen # Unset /\ ~w => seen = 0
  /\ seen # Unset /\ w => seen \in 0..(High - 1) /\ tmp \div Low = seen
  /\ goal # Unset => cur = goal

LEMMA PortSizes ==
  /\ Tiles \in Nat \ {0} /\ Low \in Nat \ {0} /\ PageSize \in Nat \ {0} /\ 4 * PageSize \in Nat \ {0}
  /\ Space \in Nat \ {0} /\ High \in Nat \ {0} /\ Space = High * Low
  /\ PortBytes \subseteq Nat
<1>1. /\ Tiles \in Nat \ {0} /\ Low \in Nat \ {0} /\ PortBytes \subseteq Nat /\ Space % Low = 0
  BY PortConstants
<1>2. PageSize \in Nat \ {0}
  BY <1>1 DEF PageSize
<1>3. Space \in Nat \ {0} /\ 4 * PageSize \in Nat \ {0}
  BY <1>2 DEF Space, Pages16
<1>4. High \in Nat /\ Space = High * Low
  BY <1>1, <1>3, QuotientTimes DEF High
<1>5. High # 0
  BY <1>1, <1>3, <1>4
<1>. QED BY <1>1, <1>2, <1>3, <1>4, <1>5

LEMMA PortInitInv == PortInit => PortInv
<1>1. 0 \in Nat
  OBVIOUS
<1>. QED BY <1>1, Zenon DEF PortInit, PortInv

\* Setting a field of the temporary address.
LEMMA WithFieldIsNat ==
  ASSUME tmp \in Nat, NEW weight \in Nat \ {0}, NEW size \in Nat \ {0}, NEW val \in Nat
  PROVE  WithField(weight, size, val) \in Nat
BY FieldIsNat, Zenon DEF WithField

\* Every access to $2000, $2002, $2005, $2006 and $2007.
LEMMA PortStepInv ==
  ASSUME PortInv, PortNext \/ UNCHANGED portVars
  PROVE  PortInv'
<1>0. /\ cur \in Nat /\ tmp \in Nat /\ w \in BOOLEAN
      /\ seen # Unset /\ ~w => seen = 0
      /\ seen # Unset /\ w => seen \in 0..(High - 1) /\ tmp \div Low = seen
      /\ goal # Unset => cur = goal
  BY DEF PortInv
<1>1. CASE UNCHANGED portVars
  BY <1>0, <1>1 DEF portVars, PortInv
<1>2. ASSUME NEW nt \in {0, 3}, NEW inc \in BOOLEAN, WriteCtrl(nt, inc) PROVE PortInv'
  <2>1. tmp' \in Nat
    <3>1. nt \in Nat /\ 4 \in Nat \ {0}
      OBVIOUS
    <3>. QED BY <1>0, <1>2, <3>1, PortSizes, WithFieldIsNat, Zenon DEF WriteCtrl
  <2>. QED BY <1>0, <1>2, <2>1, Zenon DEF WriteCtrl, PortInv
<1>3. CASE ReadStatus
  BY <1>0, <1>3 DEF ReadStatus, PortInv
<1>4. ASSUME NEW val \in Nat, WriteScroll(val) PROVE PortInv'
  <2>1. val \div 8 \in Nat /\ val % 8 \in Nat
    BY <1>4
  <2>2. WithField(1, Tiles, val \div 8) \in Nat /\ WithField(Tiles, Tiles, val \div 8) \in Nat
    <3>1. 1 \in Nat \ {0}
      OBVIOUS
    <3>. QED BY <1>0, <2>1, <3>1, PortSizes, WithFieldIsNat, Zenon
  <2> DEFINE y == WithField(Tiles, Tiles, val \div 8)
  <2>3. y \in Nat
    BY <2>2
  <2>4. tmp' = IF ~w THEN WithField(1, Tiles, val \div 8)
               ELSE y - (y \div (4 * PageSize)) * 4 * PageSize + (val % 8) * 4 * PageSize
    BY <1>4 DEF WriteScroll
  <2> HIDE DEF y
  <2>5. y - (y \div (4 * PageSize)) * 4 * PageSize + (val % 8) * 4 * PageSize \in Nat
    <3> DEFINE page4 == 4 * PageSize
    <3>1. page4 \in Nat \ {0} /\ PageSize \in Nat
      BY PortSizes
    <3>2. (y \div page4) * page4 \in Nat /\ (y \div page4) * page4 <= y /\ y \div page4 \in Nat
      BY <2>3, <3>1, QuotientTimes, Zenon
    <3>3. \A n \in Nat : n * 4 * PageSize = n * page4 /\ n * page4 \in Nat
      BY <3>1
    <3> HIDE DEF page4
    <3>4. y - (y \div page4) * page4 + (val % 8) * page4 \in Nat
      BY <2>1, <2>3, <3>2, <3>3
    <3>. QED BY <2>1, <3>2, <3>3, <3>4 DEF page4
  <2>6. tmp' \in Nat
    BY <2>2, <2>4, <2>5
  <2>. QED BY <1>0, <1>4, <2>6, Zenon DEF WriteScroll, PortInv
<1>5. ASSUME NEW val \in Nat, WriteAddr(val) PROVE PortInv'
  <2>0. val % High \in 0..(High - 1) /\ val % Low \in 0..(Low - 1)
    BY PortSizes
  <2>1. CASE ~w
    <3>1. /\ w' = TRUE /\ cur' = cur /\ goal' = goal
          /\ tmp' = WithField(Low, High, val) % Space
          /\ seen' = IF seen = 0 THEN val % High ELSE Unset
      BY <1>5, <2>1 DEF WriteAddr
    <3>2. tmp' = (val % High) * Low + (tmp % Low)
      <4>1. WithField(Low, High, val) = tmp - ((tmp \div Low) % High) * Low + (val % High) * Low
        BY DEF WithField
      <4>2. Space = High * Low /\ Low \in Nat \ {0} /\ High \in Nat \ {0}
        BY PortSizes
      <4>3. (tmp - ((tmp \div Low) % High) * Low + (val % High) * Low) % (High * Low)
              = (val % High) * Low + (tmp % Low)
        BY <1>0, <2>0, <4>2, HighByte, Zenon
      <4>. QED BY <3>1, <4>1, <4>2, <4>3, Zenon
    <3>3. tmp % Low \in Nat /\ tmp % Low < Low
      BY <1>0, PortSizes, QuotientTimes
    <3>4. tmp' \in Nat /\ tmp' \div Low = val % High
      <4> DEFINE v == val % High  r == tmp % Low
      <4>1. v \in Nat /\ r \in Nat /\ r < Low /\ v * Low \in Nat
        BY <2>0, <3>3, PortSizes, Products
      <4> HIDE DEF v, r
      <4>2. v * Low + r \in Nat /\ v * Low <= v * Low + r /\ v * Low + r < v * Low + Low
        BY <4>1, PortSizes
      <4>3. (v * Low + r) \div Low = v
        BY <4>1, <4>2, PortSizes, ModIs
      <4>4. tmp' = v * Low + r
        BY <3>2, Zenon DEF v, r
      <4>5. tmp' \in Nat /\ tmp' \div Low = v
        BY <4>2, <4>3, <4>4, Zenon
      <4>. QED BY <4>5 DEF v
    <3>. QED BY <1>0, <2>0, <3>1, <3>4 DEF PortInv, High, Space, Pages16, PageSize
  <2>2. CASE w
    <3>1. /\ w' = FALSE /\ cur' = tmp' /\ seen' = Unset
          /\ tmp' = WithField(1, Low, val)
          /\ goal' = IF seen # Unset THEN seen * Low + (val % Low) ELSE Unset
      BY <1>5, <2>2 DEF WriteAddr
    <3>2. tmp' \in Nat
      <4>1. 1 \in Nat \ {0} /\ Low \in Nat \ {0}
        BY PortSizes
      <4>. QED BY <1>0, <3>1, <4>1, WithFieldIsNat, Zenon
    <3>3. tmp' = tmp - (tmp % Low) + (val % Low)
      <4>1. tmp' = tmp - ((tmp \div 1) % Low) * 1 + (val % Low) * 1
        BY <3>1 DEF WithField
      <4>2. tmp \div 1 = tmp
        BY <1>0
      <4>3. tmp % Low \in Nat /\ Low \in Nat \ {0}
        BY <1>0, PortSizes, QuotientTimes
      <4> DEFINE r == tmp % Low  v == val % Low
      <4>4. tmp' = tmp - r * 1 + v * 1 /\ r \in Nat /\ v \in Nat
        BY <2>0, <4>1, <4>2, <4>3
      <4> HIDE DEF r, v
      <4>5. tmp' = tmp - r + v
        BY <1>0, <4>4
      <4>. QED BY <4>5, Zenon DEF r, v
    <3>4. ASSUME seen # Unset PROVE tmp' = seen * Low + (val % Low)
      <4> DEFINE s == seen * Low  r == tmp % Low  v == val % Low
      <4>1. tmp = s + r /\ s \in Nat /\ r \in Nat
        BY <1>0, <2>2, <3>4, PortSizes, QuotientTimes
      <4>2. tmp' = tmp - r + v /\ v \in Nat
        BY <2>0, <3>3, PortSizes
      <4> HIDE DEF s, r, v
      <4>3. tmp' = s + v
        BY <4>1, <4>2
      <4>. QED BY <4>3 DEF s, v
    <3>. QED BY <3>1, <3>2, <3>4 DEF PortInv
  <2>. QED BY <1>0, <2>1, <2>2
<1>6. CASE AccessData
  <2> DEFINE step == IF down THEN Tiles ELSE 1
  <2>1. step \in Nat
    BY PortSizes
  <2>2. /\ cur' = cur + step /\ goal' = IF goal = Unset THEN Unset ELSE goal + step
        /\ UNCHANGED <<tmp, w, seen>>
    BY <1>6 DEF AccessData
  <2> HIDE DEF step
  <2>3. cur' \in Nat /\ (goal' # Unset => cur' = goal')
    BY <1>0, <2>1, <2>2
  <2>. QED BY <1>0, <2>2, <2>3, Zenon DEF PortInv
<1>. QED BY <1>1, <1>2, <1>3, <1>4, <1>5, <1>6, PortSizes DEF PortNext

\* AddressIsSet of every reachable state, for every width of the fields of an address: a
\* program that reads $2002 first gets the address it writes to $2006 (ppu.c 327-414).
THEOREM AddressTheorem == Spec => []AddressIsSet
<1>1. Init => PortInv
  BY PortInitInv DEF Init
<1>2. PortInv /\ [Next]_cartridgeVars => PortInv'
  <2>1. Next => PortNext \/ UNCHANGED portVars
    BY DEF Next
  <2>2. UNCHANGED cartridgeVars => UNCHANGED portVars
    BY DEF cartridgeVars
  <2>. QED BY <2>1, <2>2, PortStepInv
<1>3. PortInv => AddressIsSet
  BY DEF PortInv, AddressIsSet
<1>. QED BY <1>1, <1>2, <1>3, PTL DEF Spec

-----------------------------------------------------------------------------
(***************************************************************************)
(* The table of 16 pages.                                                  *)
(***************************************************************************)

\* An address is in a block of 4 KB, in a page of that, and has a place in the page.
LEMMA PageOf ==
  ASSUME NEW P \in Nat \ {0}, NEW a \in Nat, a < 16 * P
  PROVE  \E j \in 0..3, i \in 0..3, r \in 0..(P - 1) :
           /\ a = 4 * j * P + i * P + r
           /\ a \div P = 4 * j + i /\ a % P = r
           /\ a \div (4 * P) = j /\ a % (4 * P) = i * P + r
           /\ (i * P + r) \div P = i /\ (i * P + r) % P = r
<1>1. PICK j \in 0..3 : 4 * j * P <= a /\ a < 4 * j * P + 4 * P
  OBVIOUS
<1>2. PICK i \in 0..3 : 4 * j * P + i * P <= a /\ a < 4 * j * P + i * P + P
  <2> DEFINE f == 4 * j * P
  <2>1. f \in Nat /\ f <= a /\ a < f + 4 * P
    BY <1>1
  <2> HIDE DEF f
  <2>2. \E i \in 0..3 : f + i * P <= a /\ a < f + i * P + P
    BY <2>1
  <2>. QED BY <2>2 DEF f
<1> DEFINE r == a - 4 * j * P - i * P  P4 == 4 * P
<1>3. r \in 0..(P - 1) /\ r \in Nat
  BY <1>2
<1>4. a = 4 * j * P + i * P + r
  BY <1>2
<1> HIDE DEF r
<1>5. /\ i * P \in Nat /\ j * P \in Nat /\ P4 \in Nat \ {0} /\ i * P <= 3 * P
      /\ j * P4 = 4 * j * P /\ (4 * j + i) * P = 4 * j * P + i * P
      /\ i \in Nat /\ j \in Nat /\ 4 * j + i \in Nat
  <2>1. i \in {0, 1, 2, 3} /\ j \in {0, 1, 2, 3}
    OBVIOUS
  <2>. QED BY <2>1
<1>6. (4 * j + i) * P <= a /\ a < (4 * j + i) * P + P
  BY <1>2, <1>5
<1>7. a % P = a - (4 * j + i) * P /\ a \div P = 4 * j + i
  BY <1>5, <1>6, ModIs, Zenon
<1>8. j * P4 <= a /\ a < j * P4 + P4
  BY <1>1, <1>5
<1>9. a % P4 = a - j * P4 /\ a \div P4 = j
  BY <1>5, <1>8, ModIs, Zenon
<1>10. i * P + r \in Nat /\ i * P <= i * P + r /\ i * P + r < i * P + P
  BY <1>3, <1>5
<1>11. (i * P + r) % P = (i * P + r) - i * P /\ (i * P + r) \div P = i
  BY <1>5, <1>10, ModIs, Zenon
<1>12. a - (4 * j + i) * P = r /\ a - j * P4 = i * P + r /\ (i * P + r) - i * P = r
  BY <1>3, <1>4, <1>5
<1>. QED BY <1>3, <1>4, <1>7, <1>9, <1>11, <1>12, Zenon

\* The table finds the cell that the map gives, whatever the windows show.
LEMMA MapIsDocumented == EveryAddressMapped
<1>0. PageSize \in Nat \ {0} /\ PalAt \in Nat \ {0} /\ PalSize \in Nat \ {0} /\ PalAt + PalSize <= PageSize
  BY PortSizes, PortConstants
<1> SUFFICES ASSUME NEW a \in 0..(15 * PageSize + PalAt + PalSize - 1)
             PROVE  PpuAddrLookup(a) = Documented(a)
  BY DEF EveryAddressMapped
<1>1. a \in Nat /\ a < 16 * PageSize /\ a < 15 * PageSize + PalAt + PalSize
  BY <1>0
<1>2. PICK j \in 0..3, i \in 0..3, r \in 0..(PageSize - 1) :
        /\ a = 4 * j * PageSize + i * PageSize + r
        /\ a \div PageSize = 4 * j + i /\ a % PageSize = r
        /\ a \div (4 * PageSize) = j /\ a % (4 * PageSize) = i * PageSize + r
        /\ (i * PageSize + r) \div PageSize = i /\ (i * PageSize + r) % PageSize = r
  BY <1>0, <1>1, PageOf, Zenon
<1> DEFINE within == i * PageSize + r
<1>3. /\ a \div PageSize = 4 * j + i /\ a % PageSize = r
      /\ a \div (4 * PageSize) = j /\ a % (4 * PageSize) = within
      /\ within \div PageSize = i /\ within % PageSize = r
  BY <1>2
<1>4. /\ PpuAddrLookup(a) =
           CASE 4 * j + i \in 0..3 -> PpuAddrPattern(0, within)
             [] 4 * j + i \in 4..7 -> PpuAddrPattern(1, within)
             [] 4 * j + i \in 8..11 -> PpuAddrNameTable(within)
             [] 4 * j + i \in 12..14 -> PpuAddrNameTable(within)
             [] 4 * j + i = 15 -> PpuAddrPalette(within)
      /\ PpuAddrNameTable(within) = [area |-> "ciram", at |-> screens[i] * PageSize + r]
  BY <1>3, Zenon DEF PpuAddrLookup, PpuAddrNameTable
<1>5. CASE j \in {0, 1}
  <2>1. a < 8 * PageSize /\ ~(a >= 8 * PageSize)
    BY <1>0, <1>2, <1>5
  <2>2. Documented(a) = [area |-> "chr", at |-> chrWin[j] * 4 * PageSize + within]
    <3>1. Documented(a) = [area |-> "chr", at |-> chrWin[a \div (4 * PageSize)] * 4 * PageSize + (a % (4 * PageSize))]
      BY <2>1, Zenon DEF Documented
    <3>. QED BY <1>3, <3>1, Zenon
  <2>3. PpuAddrLookup(a) = PpuAddrPattern(j, within)
    BY <1>4, <1>5
  <2>. QED BY <2>2, <2>3, Zenon DEF PpuAddrPattern
<1>6. CASE j \in {2, 3} /\ (j = 2 \/ i # 3 \/ r < PalAt)
  <2>1. ~(a < 8 * PageSize) /\ a >= 8 * PageSize /\ a < 15 * PageSize + PalAt
    BY <1>0, <1>2, <1>6
  <2>2. (4 * j + i) % 4 = i
    BY <1>6
  <2>3. Documented(a) = [area |-> "ciram", at |-> screens[i] * PageSize + r]
    <3>1. (a \div PageSize) % 4 = i /\ a % PageSize = r
      BY <1>3, <2>2
    <3>2. Documented(a) = LET screen == (a \div PageSize) % 4
                          IN  [area |-> "ciram", at |-> screens[screen] * PageSize + (a % PageSize)]
      BY <2>1, Zenon DEF Documented
    <3>. QED BY <3>1, <3>2, Zenon
  <2>4. CASE j = 2
    BY <1>4, <2>3, <2>4
  <2>5. CASE j = 3 /\ i # 3
    BY <1>4, <2>3, <2>5
  <2>6. CASE j = 3 /\ i = 3
    <3>1. PpuAddrLookup(a) = PpuAddrPalette(within)
      BY <1>4, <2>6
    <3>2. within < PaletteBase /\ ~(within \in PaletteBase..(PaletteBase + PalSize - 1))
      BY <1>0, <1>6, <2>6 DEF PaletteBase
    <3>3. PpuAddrPalette(within) = PpuAddrNameTable(within)
      BY <3>2 DEF PpuAddrPalette
    <3>. QED BY <1>4, <2>3, <3>1, <3>3, Zenon
  <2>. QED BY <1>6, <2>4, <2>5, <2>6
<1>7. CASE j = 3 /\ i = 3 /\ r >= PalAt
  <2> DEFINE entry == r - PalAt
             shared == entry >= PalSize \div 2 /\ entry % PalUniq = 0
             cell == [area |-> "palette", at |-> IF shared THEN entry - PalSize \div 2 ELSE entry]
  <2>1. /\ entry \in 0..(PalSize - 1) /\ within - PaletteBase = entry
        /\ within \in PaletteBase..(PaletteBase + PalSize - 1) /\ ~(within < PaletteBase)
        /\ a - 15 * PageSize - PalAt = entry
        /\ ~(a < 8 * PageSize) /\ ~(a < 15 * PageSize + PalAt)
    BY <1>0, <1>1, <1>2, <1>7 DEF PaletteBase
  <2>2. PpuAddrLookup(a) = PpuAddrPalette(within)
    BY <1>4, <1>7
  <2>3. PpuAddrPalette(within) = cell
    BY <2>1 DEF PpuAddrPalette
  <2>4. Documented(a) = [area |-> "palette", at |-> entry - (IF shared THEN PalSize \div 2 ELSE 0)]
    BY <2>1 DEF Documented
  <2>5. entry - (IF shared THEN PalSize \div 2 ELSE 0) = IF shared THEN entry - PalSize \div 2 ELSE entry
    BY <2>1
  <2>. QED BY <2>2, <2>3, <2>4, <2>5
<1>. QED
  <2>1. r >= PalAt \/ r < PalAt
    BY <1>0
  <2>. QED BY <1>5, <1>6, <1>7, <2>1

\* AddressesFollowMap of every behaviour, for pages and palettes of every size: before and
\* after every switch each address finds the cell of the map (ppu.c 179-240, 566-583).
THEOREM MapTheorem == Spec => AddressesFollowMap
<1>1. EveryAddressMapped
  BY MapIsDocumented
<1>. QED BY <1>1, PTL DEF AddressesFollowMap

-----------------------------------------------------------------------------
(***************************************************************************)
(* The serial port of the MMC1.                                            *)
(***************************************************************************)
Bits(s) == [k \in 1..(4 - Marker(s)) |-> Bit(s, Marker(s) + k)]
Regs(m) == [r \in 0..3 |-> <<m.control, m.chr0, m.chr1, m.prg>>[r + 1]]

LEMMA FiveBits ==
  ASSUME NEW s \in 0..31
  PROVE  /\ Bit(s, 0) = s % 2 /\ Bit(s, 1) = (s \div 2) % 2 /\ Bit(s, 2) = (s \div 4) % 2
         /\ Bit(s, 3) = (s \div 8) % 2 /\ Bit(s, 4) = (s \div 16) % 2
         /\ \A i \in 0..4 : Bit(s, i) \in {0, 1}
         /\ s = Bit(s, 0) + 2 * Bit(s, 1) + 4 * Bit(s, 2) + 8 * Bit(s, 3) + 16 * Bit(s, 4)
<1>1. /\ Bit(s, 0) = s % 2 /\ Bit(s, 1) = (s \div 2) % 2 /\ Bit(s, 2) = (s \div 4) % 2
      /\ Bit(s, 3) = (s \div 8) % 2 /\ Bit(s, 4) = (s \div 16) % 2
  BY PowersOfTwo DEF Bit
<1>2. \A i \in 0..4 : i \in {0, 1, 2, 3, 4}
  OBVIOUS
<1>3. \A n \in Nat : n % 2 \in {0, 1}
  OBVIOUS
<1>. QED BY <1>1, <1>2, <1>3

\* The marker is the lowest bit that is set.
IsMarker(s, i) == Bit(s, i) = 1 /\ \A j \in 0..(i - 1) : Bit(s, j) = 0

LEMMA MarkerIs ==
  ASSUME NEW s, NEW i \in 0..4, IsMarker(s, i)
  PROVE  Marker(s) = i
<1>1. Marker(s) \in 0..4 /\ IsMarker(s, Marker(s))
  BY DEF Marker, IsMarker
<1>2. ~(Marker(s) < i) /\ ~(i < Marker(s))
  BY <1>1 DEF IsMarker
<1>. QED BY <1>1, <1>2

LEMMA MarkerThere ==
  ASSUME NEW s \in 1..31
  PROVE  Marker(s) \in 0..4 /\ IsMarker(s, Marker(s)) /\ (Marker(s) = 0 <=> s % 2 = 1)
<1>1. \E i \in 0..4 : IsMarker(s, i)
  <2>1. \/ IsMarker(s, 0) \/ IsMarker(s, 1) \/ IsMarker(s, 2) \/ IsMarker(s, 3) \/ IsMarker(s, 4)
    BY FiveBits DEF IsMarker
  <2>. QED BY <2>1
<1>2. Marker(s) \in 0..4 /\ IsMarker(s, Marker(s))
  BY <1>1 DEF Marker, IsMarker
<1>3. Bit(s, 0) = s % 2 /\ s % 2 \in {0, 1}
  BY FiveBits
<1>4. Marker(s) = 0 => s % 2 = 1
  BY <1>2, <1>3 DEF IsMarker
<1>5. s % 2 = 1 => Marker(s) = 0
  BY <1>3, MarkerIs DEF IsMarker
<1>. QED BY <1>2, <1>4, <1>5

\* One bit more: the marker comes down by one.
LEMMA BitsAppend ==
  ASSUME NEW s \in 1..31, s % 2 = 0, NEW d \in {0, 1}, NEW t \in 1..31, t = (s \div 2) + 16 * d
  PROVE  Len(Bits(s)) < 4 /\ Bits(t) = Append(Bits(s), d)
<1> DEFINE m == Marker(s)
<1>1. m \in 1..4 /\ IsMarker(s, m)
  BY MarkerThere
<1>2. /\ Bit(t, 0) = Bit(s, 1) /\ Bit(t, 1) = Bit(s, 2) /\ Bit(t, 2) = Bit(s, 3)
      /\ Bit(t, 3) = Bit(s, 4) /\ Bit(t, 4) = d
  BY FiveBits
<1>3. \A j \in 0..3 : Bit(t, j) = Bit(s, j + 1)
  <2>1. \A j \in 0..3 : j \in {0, 1, 2, 3}
    OBVIOUS
  <2>. QED BY <1>2, <2>1
<1>4. IsMarker(t, m - 1)
  BY <1>1, <1>3 DEF IsMarker
<1>5. Marker(t) = m - 1
  BY <1>1, <1>4, MarkerIs
<1> HIDE DEF m
<1>6. Bits(s) = [k \in 1..(4 - m) |-> Bit(s, m + k)] /\ Bits(t) = [k \in 1..(5 - m) |-> Bit(t, m - 1 + k)]
  <2>1. 4 - (m - 1) = 5 - m
    BY <1>1
  <2>. QED BY <1>5, <2>1, Zenon DEF Bits, m
<1>7. Len(Bits(s)) = 4 - m
  BY <1>1, <1>6
<1>8. Append(Bits(s), d) = [k \in 1..(5 - m) |-> IF k <= 4 - m THEN Bits(s)[k] ELSE d]
  BY <1>1, <1>6, <1>7
<1>9. ASSUME NEW k \in 1..(5 - m)
      PROVE  Bit(t, m - 1 + k) = IF k <= 4 - m THEN Bits(s)[k] ELSE d
  <2>1. CASE k <= 4 - m
    <3>1. m - 1 + k \in 0..3 /\ m - 1 + k + 1 = m + k /\ k \in 1..(4 - m)
      BY <1>1, <2>1
    <3>2. Bit(t, m - 1 + k) = Bit(s, m + k)
      BY <1>3, <3>1
    <3>. QED BY <1>6, <2>1, <3>1, <3>2
  <2>2. CASE ~(k <= 4 - m)
    <3>1. m - 1 + k = 4
      BY <1>1, <2>2
    <3>. QED BY <1>2, <2>2, <3>1
  <2>. QED BY <2>1, <2>2
<1>10. Bits(t) = Append(Bits(s), d)
  BY <1>6, <1>8, <1>9, Zenon
<1>. QED BY <1>1, <1>7, <1>10

\* The fifth bit: four are there, and the value is theirs.
LEMMA BitsFull ==
  ASSUME NEW s \in 1..31, s % 2 = 1, NEW d \in {0, 1}
  PROVE  /\ Len(Bits(s)) = 4
         /\ Port!Value(Append(Bits(s), d)) = (s \div 2) + 16 * d
<1>1. Marker(s) = 0
  BY MarkerThere
<1>2. Bits(s) = [k \in 1..4 |-> Bit(s, 0 + k)]
  BY <1>1 DEF Bits
<1>3. Len(Bits(s)) = 4
  BY <1>2
<1>4. /\ Append(Bits(s), d)[1] = Bit(s, 1) /\ Append(Bits(s), d)[2] = Bit(s, 2)
      /\ Append(Bits(s), d)[3] = Bit(s, 3) /\ Append(Bits(s), d)[4] = Bit(s, 4)
      /\ Append(Bits(s), d)[5] = d
  BY <1>2, <1>3
<1>5. s \div 2 = Bit(s, 1) + 2 * Bit(s, 2) + 4 * Bit(s, 3) + 8 * Bit(s, 4)
  BY FiveBits
<1>6. /\ Bit(s, 1) \in {0, 1} /\ Bit(s, 2) \in {0, 1} /\ Bit(s, 3) \in {0, 1} /\ Bit(s, 4) \in {0, 1}
  BY FiveBits
<1>7. Port!Value(Append(Bits(s), d)) = Bit(s, 1) + 2 * Bit(s, 2) + 4 * Bit(s, 3) + 8 * Bit(s, 4) + 16 * d
  BY <1>4, Zenon DEF Port!Value
<1>. QED BY <1>3, <1>5, <1>6, <1>7

\* Nothing is collected after a reset.
LEMMA BitsReset == Bits(16) = <<>>
<1>1. Marker(16) = 4
  <2>1. IsMarker(16, 4)
    BY FiveBits DEF IsMarker
  <2>. QED BY <2>1, MarkerIs
<1>. QED BY <1>1 DEF Bits

\* Which place a register has.
LEMMA RegsSet ==
  ASSUME NEW m, NEW n, NEW v
  PROVE  /\ n.control = v /\ n.chr0 = m.chr0 /\ n.chr1 = m.chr1 /\ n.prg = m.prg =>
              Regs(n) = [Regs(m) EXCEPT ![0] = v]
         /\ n.control = m.control /\ n.chr0 = v /\ n.chr1 = m.chr1 /\ n.prg = m.prg =>
              Regs(n) = [Regs(m) EXCEPT ![1] = v]
         /\ n.control = m.control /\ n.chr0 = m.chr0 /\ n.chr1 = v /\ n.prg = m.prg =>
              Regs(n) = [Regs(m) EXCEPT ![2] = v]
         /\ n.control = m.control /\ n.chr0 = m.chr0 /\ n.chr1 = m.chr1 /\ n.prg = v =>
              Regs(n) = [Regs(m) EXCEPT ![3] = v]
<1>1. ASSUME NEW x
      PROVE  /\ Regs(x) = [r \in 0..3 |-> Regs(x)[r]]
             /\ Regs(x)[0] = x.control /\ Regs(x)[1] = x.chr0 /\ Regs(x)[2] = x.chr1 /\ Regs(x)[3] = x.prg
  BY DEF Regs
<1>2. ASSUME NEW i \in 0..3, \A r \in 0..3 : Regs(n)[r] = IF r = i THEN v ELSE Regs(m)[r]
      PROVE  Regs(n) = [Regs(m) EXCEPT ![i] = v]
  BY <1>1, <1>2
<1>3. \A r \in 0..3 : r \in {0, 1, 2, 3}
  OBVIOUS
<1>. QED BY <1>1, <1>2, <1>3

\* The reset and the power-up select the mode that fixes the last bank, as a control value.
LEMMA FixLastIs ==
  ASSUME NEW c \in 0..31
  PROVE  WithFixLast(c) = Port!FixLast(c)
<1>1. Bit(c, 4) = c \div 16
  BY FiveBits
<1>. QED BY <1>1, Zenon DEF WithFixLast, Port!FixLast

LEMMA SerialInit == MapperInit => Port!PortInit
<1> SUFFICES ASSUME MapperInit PROVE Port!PortInit
  OBVIOUS
<1> DEFINE c == IF cart.vertical THEN 2 ELSE 3
<1>1. mmc1 = [shift |-> 16, control |-> WithFixLast(c), chr0 |-> 0, chr1 |-> 0, prg |-> 0]
  BY DEF MapperInit, Mmc1Reset
<1>2. c \in {2, 3} /\ c \in 0..31
  OBVIOUS
<1> HIDE DEF c
<1>3. Bits(mmc1.shift) = <<>>
  BY <1>1, BitsReset
<1>4. Regs(mmc1) = [r \in 0..3 |-> IF r = 0 THEN Port!FixLast(c) ELSE 0]
  <2>1. WithFixLast(c) = Port!FixLast(c)
    BY <1>2, FixLastIs
  <2>. QED BY <1>1, <2>1 DEF Regs
<1>. QED BY <1>2, <1>3, <1>4, Zenon DEF Port!PortInit, Bits, Regs

\* Each write is a step of the port.
LEMMA SerialStep ==
  ASSUME MapperTypeOK, MapperNext \/ UNCHANGED mapperVars
  PROVE  Port!PortNext \/ UNCHANGED Port!portVars
<1> DEFINE b == Bits(mmc1.shift)  rs == Regs(mmc1)
<1>0. /\ mmc1 \in Mmc1Registers
      /\ mmc1.shift \in 1..31 /\ mmc1.control \in 0..31
      /\ mmc1.chr0 \in 0..31 /\ mmc1.chr1 \in 0..31 /\ mmc1.prg \in 0..31
  BY DEF MapperTypeOK, Mmc1Registers
<1>1. ASSUME mmc1' = mmc1 PROVE UNCHANGED Port!portVars
  BY <1>1 DEF Port!portVars, Marker, Bit
<1>2. ASSUME NEW d \in {0, 1}, Mmc1Shift(d) PROVE Port!Shift(d)
  <2>1. mmc1' = [mmc1 EXCEPT !.shift = Shifted(d)] /\ mmc1.shift % 2 = 0
    BY <1>0, <1>2 DEF Mmc1Shift, ShiftFull
  <2>2. Shifted(d) = (mmc1.shift \div 2) + 16 * d /\ Shifted(d) \in 1..31
    BY <1>0, <2>1 DEF Shifted
  <2>3. mmc1'.shift = Shifted(d) /\ Regs(mmc1') = Regs(mmc1)
    BY <1>0, <2>1 DEF Mmc1Registers, Regs
  <2>4. Len(Bits(mmc1.shift)) < 4 /\ Bits(mmc1'.shift) = Append(Bits(mmc1.shift), d)
    BY <1>0, <2>1, <2>2, <2>3, BitsAppend
  <2>. QED BY <2>3, <2>4, Zenon DEF Port!Shift, Bits, Regs, Marker, Bit
<1>3. ASSUME NEW d \in {0, 1}, NEW reg \in {"control", "chr0", "chr1", "prg"}, Mmc1Load(d, reg)
      PROVE  \E r \in 0..3 : Port!Load(d, r)
  <2>1. mmc1' = [mmc1 EXCEPT !.shift = 16, ![reg] = Shifted(d)] /\ mmc1.shift % 2 = 1
    BY <1>0, <1>3 DEF Mmc1Load, ShiftFull, Mmc1Reset
  <2>2. /\ Len(Bits(mmc1.shift)) = 4
        /\ Shifted(d) = Port!Value(Append(Bits(mmc1.shift), d))
    BY <1>0, <2>1, BitsFull DEF Shifted
  <2>3. mmc1'.shift = 16 /\ Bits(mmc1'.shift) = <<>>
    BY <1>0, <2>1, BitsReset DEF Mmc1Registers
  <2>4. PICK r \in 0..3 : Regs(mmc1') = [Regs(mmc1) EXCEPT ![r] = Shifted(d)]
    <3>1. CASE reg = "control"
      <4>1. Regs(mmc1') = [Regs(mmc1) EXCEPT ![0] = Shifted(d)]
        <5>1. mmc1'.control = Shifted(d) /\ mmc1'.chr0 = mmc1.chr0 /\ mmc1'.chr1 = mmc1.chr1 /\ mmc1'.prg = mmc1.prg
          BY <1>0, <2>1, <3>1, Zenon DEF Mmc1Registers
        <5>. QED BY <5>1, RegsSet
      <4>. QED BY <4>1
    <3>2. CASE reg = "chr0"
      <4>1. Regs(mmc1') = [Regs(mmc1) EXCEPT ![1] = Shifted(d)]
        <5>1. mmc1'.chr0 = Shifted(d) /\ mmc1'.control = mmc1.control /\ mmc1'.chr1 = mmc1.chr1 /\ mmc1'.prg = mmc1.prg
          BY <1>0, <2>1, <3>2, Zenon DEF Mmc1Registers
        <5>. QED BY <5>1, RegsSet
      <4>. QED BY <4>1
    <3>3. CASE reg = "chr1"
      <4>1. Regs(mmc1') = [Regs(mmc1) EXCEPT ![2] = Shifted(d)]
        <5>1. mmc1'.chr1 = Shifted(d) /\ mmc1'.control = mmc1.control /\ mmc1'.chr0 = mmc1.chr0 /\ mmc1'.prg = mmc1.prg
          BY <1>0, <2>1, <3>3, Zenon DEF Mmc1Registers
        <5>. QED BY <5>1, RegsSet
      <4>. QED BY <4>1
    <3>4. CASE reg = "prg"
      <4>1. Regs(mmc1') = [Regs(mmc1) EXCEPT ![3] = Shifted(d)]
        <5>1. mmc1'.prg = Shifted(d) /\ mmc1'.control = mmc1.control /\ mmc1'.chr0 = mmc1.chr0 /\ mmc1'.chr1 = mmc1.chr1
          BY <1>0, <2>1, <3>4, Zenon DEF Mmc1Registers
        <5>. QED BY <5>1, RegsSet
      <4>. QED BY <4>1
    <3>. QED BY <3>1, <3>2, <3>3, <3>4
  <2>5. Port!Load(d, r)
    BY <2>2, <2>3, <2>4, Zenon DEF Port!Load, Bits, Regs, Marker, Bit
  <2>. QED BY <2>5
<1>4. ASSUME Mmc1ResetWrite PROVE Port!Reset
  <2>1. mmc1' = [mmc1 EXCEPT !.shift = 16, !.control = WithFixLast(mmc1.control)]
    BY <1>4 DEF Mmc1ResetWrite, Mmc1Reset
  <2>2. WithFixLast(mmc1.control) = Port!FixLast(mmc1.control)
    BY <1>0, FixLastIs
  <2>3. mmc1'.shift = 16 /\ Bits(mmc1'.shift) = <<>>
    BY <1>0, <2>1, BitsReset DEF Mmc1Registers
  <2>4. Regs(mmc1') = [Regs(mmc1) EXCEPT ![0] = Port!FixLast(Regs(mmc1)[0])]
    <3>1. /\ mmc1'.control = Port!FixLast(mmc1.control)
          /\ mmc1'.chr0 = mmc1.chr0 /\ mmc1'.chr1 = mmc1.chr1 /\ mmc1'.prg = mmc1.prg
      BY <1>0, <2>1, <2>2, Zenon DEF Mmc1Registers
    <3>2. Regs(mmc1)[0] = mmc1.control
      BY DEF Regs
    <3>. QED BY <3>1, <3>2, RegsSet
  <2>. QED BY <2>3, <2>4, Zenon DEF Port!Reset, Bits, Regs, Marker, Bit
<1>5. ASSUME NEW v, NEW a, NromSwitch(a) \/ UxRomSwitch(a) \/ CnRomSwitch(a) \/ AxRomSwitch(a) \/ Ignored(a)
      PROVE  mmc1' = mmc1
  BY <1>5 DEF NromSwitch, UxRomSwitch, CnRomSwitch, AxRomSwitch, Ignored
<1>6. UNCHANGED mapperVars => mmc1' = mmc1
  BY DEF mapperVars
<1>. QED BY <1>1, <1>2, <1>3, <1>4, <1>5, <1>6, Zenon DEF MapperNext, Port!PortNext

\* PortSpec of every behaviour: the shift register with its marker bit implements the
\* serial port, whatever values are shifted in and whenever the port is reset
\* (mmc1.c 141-203).
THEOREM SerialPortTheorem == Spec => PortSpec
<1>1. Init => Port!PortInit
  BY SerialInit DEF Init
<1>2. MapperInv /\ [Next]_cartridgeVars => [Port!PortNext]_(Port!portVars)
  <2>1. [Next]_cartridgeVars => MapperNext \/ UNCHANGED mapperVars
    BY DEF Next, cartridgeVars
  <2>. QED BY <2>1, SerialStep DEF MapperInv
<1>. QED BY <1>1, <1>2, MapperInvariant, PTL DEF Spec, PortSpec, Port!PortSpec

-----------------------------------------------------------------------------
(***************************************************************************)
(* The loader.  A file is well formed if its format can say what it was    *)
(* made of: iNES counts up to 256 pages of PRG and 255 of CHR; NES 2.0     *)
(* counts pages in 12 bits of which the upper four are not all ones, and   *)
(* has its exponents for other sizes; and offsets fit a word.              *)
(***************************************************************************)
Paged(n, unit, most) == n % unit = 0 /\ n \div unit \in 0..most
Power(n) == \E p \in (0..27) \X (0..3) : 2^p[1] * (2 * p[2] + 1) = n

WellFormed(im) ==
  /\ im.format \in {"iNES", "NES2", "legacy", "other"}
  /\ im.prg \in Nat \ {0} /\ im.chr \in Nat /\ im.title \in Nat /\ im.id \in 0..4095
  /\ FileSize(im) < Word
  /\ im.format = "iNES" =>
       /\ Paged(im.prg, PrgPage, 256) /\ Paged(im.chr, ChrPage, 255)
       /\ im.id < 256 /\ im.submapper = 0 /\ im.chrRam = IF im.chr = 0 THEN 8192 ELSE 0
  /\ im.format = "NES2" =>
       /\ Paged(im.prg, PrgPage, 3839) \/ Power(im.prg)
       /\ Paged(im.chr, ChrPage, 3839) \/ Power(im.chr)
       /\ im.chrRam = 0 \/ \E n \in 1..9 : im.chrRam = 64 * 2^n

\* A size that is written as a power and an odd factor is read as what it was.
LEMMA PowerIsRead ==
  ASSUME NEW n \in Nat, Power(n), n < Word, NEW unit, Word \in Nat \ {0}
  PROVE  CalcNes2RomSize(PowerOf(n).lsb, PowerOf(n).msb, unit) = n
<1> DEFINE p == CHOOSE p \in (0..27) \X (0..3) : 2^p[1] * (2 * p[2] + 1) = n
<1>1. p \in (0..27) \X (0..3) /\ 2^p[1] * (2 * p[2] + 1) = n
  BY Zenon DEF Power
<1>2. PowerOf(n).lsb = 4 * p[1] + p[2] /\ PowerOf(n).msb = 15
  BY DEF PowerOf
<1> HIDE DEF p
<1>3. p[1] \in 0..27 /\ p[2] \in 0..3
  BY <1>1
<1>4. (4 * p[1] + p[2]) \div 4 = p[1] /\ (4 * p[1] + p[2]) % 4 = p[2]
  BY <1>3
<1>5. n % Word = n
  OBVIOUS
<1>6. CalcNes2RomSize(PowerOf(n).lsb, PowerOf(n).msb, unit)
        = (2^(PowerOf(n).lsb \div 4) * (2 * (PowerOf(n).lsb % 4) + 1)) % Word
  BY <1>2 DEF CalcNes2RomSize
<1> QED
  BY <1>1, <1>2, <1>4, <1>5, <1>6

\* A size that is counted in pages of two bytes of which the upper is not 15.
LEMMA PagesAreRead ==
  ASSUME NEW n \in Nat, NEW unit \in {PrgPage, ChrPage}, Paged(n, unit, 3839), n < Word,
         Word \in Nat \ {0}
  PROVE  CalcNes2RomSize(Pages(n, unit).lsb, Pages(n, unit).msb, unit) = n
<1> DEFINE q == n \div unit
           msb == n \div (256 * unit)
<1>1. q \in 0..3839 /\ q * unit = n /\ unit \in Nat \ {0}
  BY DEF Paged, PrgPage, ChrPage
<1>2. msb = q \div 256
  BY DEF Paged, PrgPage, ChrPage
<1> HIDE DEF q, msb
<1>3. msb \in 0..14 /\ (q % 256) + 256 * msb = q
  BY <1>1, <1>2
<1>4. Pages(n, unit).lsb = q % 256 /\ Pages(n, unit).msb = msb
  BY DEF Pages, q, msb
<1>5. CalcNes2RomSize(Pages(n, unit).lsb, Pages(n, unit).msb, unit) = (q * unit) % Word
  BY <1>3, <1>4 DEF CalcNes2RomSize
<1> QED
  BY <1>1, <1>5

\* The header of a NES 2.0 image gives its sizes back.
LEMMA Nes2Sizes ==
  ASSUME RomConstants, NEW im, WellFormed(im), im.format = "NES2"
  PROVE  /\ PrgRomSize(Encode(im)) = im.prg /\ ChrRomSize(Encode(im)) = im.chr
         /\ ChrRamSize(Encode(im)) = im.chrRam /\ FormatOf(Encode(im)) = "NES2"
<1> DEFINE h == Encode(im)
           Far(n, unit) == n % unit # 0 \/ n \div unit > 3839
<1>1. /\ im.prg \in Nat \ {0} /\ im.chr \in Nat /\ im.prg < Word /\ im.chr < Word
      /\ Word \in Nat \ {0}
  BY DEF WellFormed, FileSize, RomConstants, HeaderSize, TrainerSize, Pc10Size
<1>2. /\ h.prg = IF Far(im.prg, PrgPage) THEN PowerOf(im.prg) ELSE Pages(im.prg, PrgPage)
      /\ h.chr = IF Far(im.chr, ChrPage) THEN PowerOf(im.chr) ELSE Pages(im.chr, ChrPage)
      /\ h.nes2 = 2
      /\ h.chrRam = IF im.chrRam = 0 THEN 0 ELSE CHOOSE n \in 1..15 : 64 * 2^n = im.chrRam
  BY DEF Encode
<1>3. FormatOf(h) = "NES2"
  BY <1>2 DEF FormatOf
<1>4. ASSUME NEW n \in Nat, NEW unit \in {PrgPage, ChrPage}
      PROVE  Far(n, unit) \/ Paged(n, unit, 3839)
  BY <1>4 DEF Paged, PrgPage, ChrPage
<1>5. ASSUME NEW n \in Nat, NEW unit \in {PrgPage, ChrPage}, Paged(n, unit, 3839)
      PROVE  ~Far(n, unit)
  BY <1>5 DEF Paged, PrgPage, ChrPage
<1> HIDE DEF h, Far
<1>6. CalcNes2RomSize(h.prg.lsb, h.prg.msb, PrgPage) = im.prg
  <2>1. CASE Far(im.prg, PrgPage)
    <3>1. im.prg \in Nat /\ PrgPage \in {PrgPage, ChrPage}
      BY <1>1
    <3>2. Power(im.prg)
      BY <1>5, <2>1, <3>1 DEF WellFormed
    <3>3. CalcNes2RomSize(PowerOf(im.prg).lsb, PowerOf(im.prg).msb, PrgPage) = im.prg
      BY <1>1, <3>1, <3>2, PowerIsRead
    <3> QED
      BY <1>2, <2>1, <3>3
  <2>2. CASE ~Far(im.prg, PrgPage)
    BY <1>1, <1>2, <1>4, <2>2, PagesAreRead
  <2> QED
    BY <2>1, <2>2
<1>7. CalcNes2RomSize(h.chr.lsb, h.chr.msb, ChrPage) = im.chr
  <2>1. CASE Far(im.chr, ChrPage)
    <3>1. ChrPage \in {PrgPage, ChrPage}
      OBVIOUS
    <3>2. Power(im.chr)
      BY <1>1, <1>5, <2>1, <3>1 DEF WellFormed
    <3>3. CalcNes2RomSize(PowerOf(im.chr).lsb, PowerOf(im.chr).msb, ChrPage) = im.chr
      BY <1>1, <3>1, <3>2, PowerIsRead
    <3> QED
      BY <1>2, <2>1, <3>3
  <2>2. CASE ~Far(im.chr, ChrPage)
    BY <1>1, <1>2, <1>4, <2>2, PagesAreRead
  <2> QED
    BY <2>1, <2>2
<1>8. ChrRamSize(h) = im.chrRam
  <2>1. CASE im.chrRam = 0
    BY <1>2, <1>3, <2>1 DEF ChrRamSize
  <2>2. CASE im.chrRam # 0
    <3> DEFINE k == CHOOSE n \in 1..15 : 64 * 2^n = im.chrRam
    <3>1. PICK n \in 1..9 : im.chrRam = 64 * 2^n
      BY <2>2 DEF WellFormed
    <3>2. k \in 1..15 /\ 64 * 2^k = im.chrRam
      <4>1. n \in 1..15
        OBVIOUS
      <4> QED
        BY <3>1, <4>1, Zenon
    <3>3. /\ 2^1 = 2 /\ 2^2 = 4 /\ 2^3 = 8 /\ 2^4 = 16 /\ 2^5 = 32 /\ 2^6 = 64 /\ 2^7 = 128
          /\ 2^8 = 256 /\ 2^9 = 512
      OBVIOUS
    <3>4. n = 1 \/ n = 2 \/ n = 3 \/ n = 4 \/ n = 5 \/ n = 6 \/ n = 7 \/ n = 8 \/ n = 9
      OBVIOUS
    <3>5. im.chrRam \in Nat /\ im.chrRam < 65536
      <4>1. 2^n \in {2, 4, 8, 16, 32, 64, 128, 256, 512}
        <5>1. CASE n = 1
          BY <3>3, <5>1
        <5>2. CASE n = 2
          BY <3>3, <5>2
        <5>3. CASE n = 3
          BY <3>3, <5>3
        <5>4. CASE n = 4
          BY <3>3, <5>4
        <5>5. CASE n = 5
          BY <3>3, <5>5
        <5>6. CASE n = 6
          BY <3>3, <5>6
        <5>7. CASE n = 7
          BY <3>3, <5>7
        <5>8. CASE n = 8
          BY <3>3, <5>8
        <5>9. CASE n = 9
          BY <3>3, <5>9
        <5> QED
          BY <3>4, <5>1, <5>2, <5>3, <5>4, <5>5, <5>6, <5>7, <5>8, <5>9
      <4>2. 64 * 2^n \in Nat /\ 64 * 2^n < 65536
        BY <4>1
      <4> QED
        BY <3>1, <4>2
    <3>6. h.chrRam = k
      BY <1>2, <2>2, Zenon
    <3> HIDE DEF k
    <3>8. k # 0
      BY <3>2
    <3>7. ChrRamSize(h) = (64 * 2^k) % 65536
      BY <1>3, <3>6, <3>8 DEF ChrRamSize
    <3> QED
      BY <3>2, <3>5, <3>7
  <2> QED
    BY <2>1, <2>2
<1>9. PrgRomSize(h) = im.prg
  BY <1>1, <1>3, <1>6 DEF PrgRomSize
<1>10. ChrRomSize(h) = im.chr
  BY <1>3, <1>7 DEF ChrRomSize
<1> QED
  BY <1>3, <1>8, <1>9, <1>10 DEF h

\* So does that of an iNES image, in which 256 pages are written as none.
LEMMA InesSizes ==
  ASSUME NEW im, WellFormed(im), im.format = "iNES"
  PROVE  /\ PrgRomSize(Encode(im)) = im.prg /\ ChrRomSize(Encode(im)) = im.chr
         /\ ChrRamSize(Encode(im)) = im.chrRam /\ FormatOf(Encode(im)) = "INES"
<1> DEFINE h == Encode(im)
           p == im.prg \div PrgPage
           c == im.chr \div ChrPage
<1>1. /\ h.prg.lsb = p % 256 /\ h.chr.lsb = c % 256 /\ h.nes2 = 0
  BY DEF Encode, Pages
<1>2. FormatOf(h) = "INES"
  BY <1>1 DEF FormatOf
<1>3. /\ p \in 1..256 /\ p * PrgPage = im.prg /\ c \in 0..255 /\ c * ChrPage = im.chr
      /\ im.chrRam = IF c = 0 THEN 8192 ELSE 0
  BY DEF WellFormed, Paged, PrgPage, ChrPage
<1> HIDE DEF h, p, c
<1>4. p % 256 = (IF p = 256 THEN 0 ELSE p) /\ c % 256 = c
  BY <1>3
<1>5. PrgRomSize(h) = im.prg
  BY <1>1, <1>2, <1>3, <1>4 DEF PrgRomSize, PrgPage, MaxPrgSize
<1>6. ChrRomSize(h) = im.chr /\ ChrRamSize(h) = im.chrRam
  BY <1>1, <1>2, <1>3, <1>4 DEF ChrRomSize, ChrRamSize
<1> QED
  BY <1>2, <1>5, <1>6 DEF h

\* The digits of a mapper's id.
LEMMA IdIsRead ==
  ASSUME NEW id \in 0..4095
  PROVE  /\ (id % 16) + 16 * ((id \div 16) % 16) + 256 * (id \div 256) = id
         /\ id < 256 => (id % 16) + 16 * ((id \div 16) % 16) + 0 = id
OBVIOUS

\* With the sizes right, the segments follow each other as in the file.
LEMMA SegmentsFollow ==
  ASSUME RomConstants, NEW im, WellFormed(im), im.format \in {"iNES", "NES2"}
  PROVE  RomDesc(Encode(im), FileSize(im)) = Contents(im)
<1> DEFINE h == Encode(im)
           trainer == IF im.trainer THEN TrainerSize ELSE 0
           pc10 == IF im.pc10 THEN Pc10Size ELSE 0
           prgAt == HeaderSize + trainer
           d == RomDesc(h, FileSize(im))
<1>1. /\ PrgRomSize(h) = im.prg /\ ChrRomSize(h) = im.chr /\ ChrRamSize(h) = im.chrRam
      /\ FormatOf(h) = IF im.format = "NES2" THEN "NES2" ELSE "INES"
  BY Nes2Sizes, InesSizes
<1>2. /\ h.trainer = im.trainer /\ h.pc10 = im.pc10 /\ h.lowMap = im.id % 16
      /\ h.upMap = (im.id \div 16) % 16 /\ h.mbs = im.id \div 256
      /\ h.submapper = im.submapper /\ h.vertical = im.vertical
  BY DEF Encode
<1>3. /\ im.prg \in Nat /\ im.chr \in Nat /\ im.title \in Nat /\ trainer \in Nat /\ pc10 \in Nat
      /\ prgAt \in Nat /\ FileSize(im) = prgAt + im.prg + im.chr + pc10 + im.title
      /\ FileSize(im) < Word /\ Word \in Nat \ {0} /\ HeaderSize \in Nat
  BY DEF WellFormed, FileSize, RomConstants, HeaderSize, TrainerSize, Pc10Size
<1> HIDE DEF h
<1>4. h.lowMap + 16 * h.upMap + (IF FormatOf(h) = "NES2" THEN 256 * h.mbs ELSE 0) = im.id
  <2> DEFINE id == im.id
  <2>1. id \in 0..4095 /\ (im.format = "iNES" => id < 256)
    BY DEF WellFormed
  <2>2. h.lowMap = id % 16 /\ h.upMap = (id \div 16) % 16 /\ h.mbs = id \div 256
    BY <1>2
  <2> HIDE DEF id
  <2>3. CASE im.format = "NES2"
    <3>1. h.lowMap + 16 * h.upMap + 256 * h.mbs = id
      BY <2>1, <2>2, IdIsRead
    <3> QED
      BY <1>1, <2>3, <3>1 DEF id
  <2>4. CASE im.format = "iNES"
    <3>1. h.lowMap + 16 * h.upMap + 0 = id
      BY <2>1, <2>2, <2>4, IdIsRead
    <3>2. FormatOf(h) # "NES2"
      BY <1>1, <2>4
    <3> QED
      BY <3>1, <3>2 DEF id
  <2> QED
    BY <2>3, <2>4
<1>5. (IF FormatOf(h) = "NES2" THEN h.submapper ELSE 0) = im.submapper
  BY <1>1, <1>2 DEF WellFormed
<1> HIDE DEF trainer, pc10
<1>6. /\ SetRomSegment(HeaderSize, trainer) = prgAt
      /\ SetRomSegment(prgAt, im.prg) = prgAt + im.prg
      /\ SetRomSegment(prgAt + im.prg, im.chr) = prgAt + im.prg + im.chr
      /\ SetRomSegment(prgAt + im.prg + im.chr, pc10) = prgAt + im.prg + im.chr + pc10
      /\ (FileSize(im) - (prgAt + im.prg + im.chr + pc10)) % Word = im.title
  <2>1. ASSUME NEW n \in Nat, n < Word PROVE n % Word = n
    BY <1>3, <2>1
  <2>2. /\ prgAt < Word /\ prgAt + im.prg < Word /\ prgAt + im.prg + im.chr < Word
        /\ prgAt + im.prg + im.chr + pc10 < Word /\ im.title < Word
        /\ FileSize(im) - (prgAt + im.prg + im.chr + pc10) = im.title
    BY <1>3
  <2>3. /\ prgAt + im.prg \in Nat /\ prgAt + im.prg + im.chr \in Nat
        /\ prgAt + im.prg + im.chr + pc10 \in Nat
    BY <1>3
  <2> QED
    BY <1>3, <2>1, <2>2, <2>3 DEF SetRomSegment
<1>7. d = [trainer |-> [at |-> HeaderSize, size |-> trainer],
           prg |-> [at |-> prgAt, size |-> im.prg],
           chr |-> [at |-> prgAt + im.prg, size |-> im.chr],
           pc10 |-> [at |-> prgAt + im.prg + im.chr, size |-> pc10],
           title |-> [at |-> prgAt + im.prg + im.chr + pc10, size |-> im.title],
           id |-> im.id, submapper |-> im.submapper, chrRam |-> im.chrRam,
           vertical |-> im.vertical]
  BY <1>1, <1>2, <1>4, <1>5, <1>6 DEF RomDesc, trainer, pc10
<1> QED
  BY <1>7 DEF Contents, h, trainer, pc10

\* The loader finds in every well formed file what it was made of, and refuses those of
\* formats it does not know (nes.c 79-210, rom.c 46-90).
THEOREM LoaderTheorem == (\A im \in Images : WellFormed(im)) => (Spec => []LoaderFindsImage)
<1> SUFFICES ASSUME \A im \in Images : WellFormed(im) PROVE Spec => []LoaderFindsImage
  OBVIOUS
<1>1. ASSUME NEW im \in Images
      PROVE  Loaded(im) = IF im.format \in {"iNES", "NES2"} THEN Contents(im) ELSE Refused
  <2>1. CASE im.format = "NES2"
    BY <2>1, RomConstants, Nes2Sizes, SegmentsFollow DEF Loaded, LoadRomFile
  <2>2. CASE im.format = "iNES"
    <3>1. FormatOf(Encode(im)) = "INES"
      BY <2>2, InesSizes
    <3>2. ~Encode(im).reserve
      BY <2>2 DEF Encode
    <3> QED
      BY <2>2, <3>1, <3>2, RomConstants, SegmentsFollow DEF Loaded, LoadRomFile
  <2>3. CASE im.format = "legacy"
    <3>1. FormatOf(Encode(im)) = "INES" /\ Encode(im).reserve
      <4>1. Encode(im).nes2 = 0 /\ Encode(im).reserve
        BY <2>3 DEF Encode
      <4> QED
        BY <4>1 DEF FormatOf
    <3> QED
      BY <2>3, <3>1 DEF Loaded, LoadRomFile
  <2>4. CASE im.format = "other"
    <3>1. FormatOf(Encode(im)) = "UNKNOWN"
      <4>1. Encode(im).nes2 = 1
        BY <2>4 DEF Encode
      <4> QED
        BY <4>1 DEF FormatOf
    <3> QED
      BY <2>4, <3>1 DEF Loaded, LoadRomFile
  <2> QED
    BY <2>1, <2>2, <2>3, <2>4 DEF WellFormed
<1>2. Init => image \in Images /\ LoaderFindsImage
  BY <1>1 DEF Init, LoaderFindsImage
<1>3. LoaderFindsImage /\ [Next]_cartridgeVars => LoaderFindsImage'
  BY DEF Next, cartridgeVars, LoaderFindsImage
<1> QED
  BY <1>2, <1>3, PTL DEF Spec
=============================================================================
