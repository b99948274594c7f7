------------------------------- MODULE Mapper --------------------------------
(***************************************************************************)
(* The cartridge mappers of mapper/: looking one up by the id of the ROM,  *)
(* its power-up state, and what a CPU write to $8000-$FFFF does to the     *)
(* bank tables of the CPU and of the PPU.  By the time of the write        *)
(* CpuSlowResolveAddr has synchronised the devices.                        *)
(*                                                                         *)
(* A window holds the number of the bank it shows: 8 KB banks of PRG in    *)
(* the four windows of the CPU, 4 KB banks of CHR in the two of the PPU.   *)
(***************************************************************************)
EXTENDS Integers, Sequences

CONSTANTS
  Bytes,   \* the values a program writes to the ports of the simple mappers
  Loads    \* the values it shifts into an MMC1

ASSUME MapperConstants == Bytes \subseteq 0..255 /\ Loads \subseteq 0..31

VARIABLES
  cart,      \* rdesc: id, prg, chr (ROM or RAM) and chrRom in banks, submapper, vertical;
             \* and how much CHR memory there is, chrMem
  kind,      \* mapper->id, None when MapperInit fails
  bank,      \* mapper->bank
  mmc1,      \* the registers of MMC1MapperObj
  prgWin,    \* cpu->mmap.prgBankTable
  chrWin,    \* ppu->mmap.ptMirrTable
  screens,   \* ppu->mmap.nameMirrTable: the CIRAM block of each screen
  last       \* history: the value that arrived last at a simple mapper's port

mapVars == <<prgWin, chrWin, screens>>
mapperVars == <<cart, kind, bank, mmc1, mapVars, last>>

None == "none"

-----------------------------------------------------------------------------
\* The ids of MapperList in their order, and the mappers that are implemented.
MapperList ==
  <<255, 0, 1, 2, 3, 4, 5, 6, 7, 8, 9, 10, 11, 12, 15, 16, 17, 18, 19, 71>>
Implemented ==
  [id \in {0, 1, 2, 3, 7} |->
     CASE id = 0 -> "NROM" [] id = 1 -> "MMC1" [] id = 2 -> "UxROM"
       [] id = 3 -> "CNROM" [] OTHER -> "AxROM"]

\* Faulty: the half that is left of an odd range is dropped.
NextProbeShort(id, idx, range) ==
  IF id < MapperList[idx + 1] THEN (idx - (range \div 2)) % 256
  ELSE (idx + (range \div 2)) % 256

\* One step of the binary search, in the 8 bits of idx.
NextProbe(id, idx, range) ==
  LET half == (range \div 2) + (range % 2)
  IN  IF id < MapperList[idx + 1] THEN (idx - half) % 256 ELSE (idx + half) % 256

\* MapperLookupById.
MapperLookupById(id) ==
  LET probe[range \in 0..Len(MapperList)] ==
        [idx \in 0..255 |->
           IF idx >= Len(MapperList) THEN None
           ELSE IF MapperList[idx + 1] = id
             THEN IF id \in DOMAIN Implemented THEN Implemented[id] ELSE None
           ELSE IF range = 0 THEN None
           ELSE probe[range \div 2][NextProbe(id, idx, range)]]
  IN  probe[Len(MapperList) \div 2][Len(MapperList) \div 2]

-----------------------------------------------------------------------------
Bit(v, i) == (v \div 2^i) % 2

\* n & (size - 1), of the banks that a program can ask for: how one is cut down to a
\* memory of that size.
Masked(n, size) ==
  LET at(i) == IF Bit(n, i) = 1 /\ Bit(size - 1, i) = 1 THEN 2^i ELSE 0
  IN  at(0) + at(1) + at(2) + at(3) + at(4) + at(5) + at(6) + at(7) + at(8) + at(9)

\* MapperPrgSet32K from an 8 KB bank on; masked: the mapper's bankMask mirrors a
\* smaller ROM.
Prg32K(first) == [w \in 0..3 |-> first + w]
Prg32KMasked(first) == [w \in 0..3 |-> first + Masked(w, IF cart.prg < 4 THEN cart.prg ELSE 4)]

\* MapperPrgSet16K, both windows.
Prg16K(first, second) == [w \in 0..3 |-> IF w < 2 THEN first + w ELSE second + w - 2]

Chr8K(first) == [w \in 0..1 |-> first + w]

\* NameTableMirrorSwitch, NameTableSingleScreenSwitch.
Mirrored(vertical) == [s \in 0..3 |-> IF vertical THEN s % 2 ELSE s \div 2]
SingleScreen(blk) == [s \in 0..3 |-> blk]

-----------------------------------------------------------------------------
\* MMC1.
Mmc1Reset == 16   \* MMC1_SR_RESET
PrgMode(c) == (c \div 4) % 4
WithFixLast(c) == 16 * Bit(c, 4) + 12 + (c % 4)

\* Mmc1UpdatePrgMap, Mmc1UpdateChr, Mmc1UpdateMirroring for the registers given.
Mmc1Prg(r) ==
  LET bank16 == Masked(2 * (r.prg % 16), cart.prg)
      bank32 == Masked(4 * ((r.prg \div 2) % 8), cart.prg)
  IN  CASE PrgMode(r.control) = 2 -> Prg16K(0, bank16)
        [] PrgMode(r.control) = 3 -> Prg16K(bank16, cart.prg - 2)
        [] OTHER -> Prg32K(bank32)
Mmc1Chr(r) ==
  IF Bit(r.control, 4) = 1
    THEN [w \in 0..1 |-> Masked(IF w = 0 THEN r.chr0 ELSE r.chr1, cart.chr)]
    ELSE Chr8K(Masked(2 * ((r.chr0 \div 2) % 16), cart.chr))
Mmc1Screens(r) ==
  IF r.control % 4 < 2 THEN SingleScreen(r.control % 4) ELSE Mirrored(r.control % 4 = 2)

\* Faulty: the reset keeps the bits collected so far.
Mmc1ResetWriteKeeps ==
  /\ kind = "MMC1"
  /\ mmc1' = [mmc1 EXCEPT !.control = WithFixLast(@)]
  /\ prgWin' = Mmc1Prg(mmc1')
  /\ UNCHANGED <<cart, kind, bank, chrWin, screens, last>>

\* Bit 7 of the value written.
Mmc1ResetWrite ==
  /\ kind = "MMC1"
  /\ mmc1' = [mmc1 EXCEPT !.shift = Mmc1Reset, !.control = WithFixLast(@)]
  /\ prgWin' = Mmc1Prg(mmc1')
  /\ UNCHANGED <<cart, kind, bank, chrWin, screens, last>>

\* The shift register is full when the marker bit has come down to bit 0.
ShiftFull(s) == s % 2 = 1
Shifted(d) == (mmc1.shift \div 2) + 16 * d

Mmc1Shift(d) ==
  /\ kind = "MMC1" /\ ~ShiftFull(mmc1.shift)
  /\ mmc1' = [mmc1 EXCEPT !.shift = Shifted(d)]
  /\ UNCHANGED <<cart, kind, bank, mapVars, last>>

\* Faulty: the register is loaded without the map it selects.
Mmc1LoadStale(d, reg) ==
  /\ kind = "MMC1" /\ ShiftFull(mmc1.shift)
  /\ mmc1' = [mmc1 EXCEPT !.shift = Mmc1Reset, ![reg] = Shifted(d)]
  /\ prgWin' = IF reg = "prg" THEN Mmc1Prg(mmc1') ELSE prgWin
  /\ chrWin' = IF reg \in {"control", "chr0", "chr1"} THEN Mmc1Chr(mmc1') ELSE chrWin
  /\ screens' = IF reg = "control" THEN Mmc1Screens(mmc1') ELSE screens
  /\ UNCHANGED <<cart, kind, bank, last>>

\* The fifth bit: the address selects the register.
Mmc1Load(d, reg) ==
  /\ kind = "MMC1" /\ ShiftFull(mmc1.shift)
  /\ mmc1' = [mmc1 EXCEPT !.shift = Mmc1Reset, ![reg] = Shifted(d)]
  /\ prgWin' = IF reg \in {"control", "prg"} THEN Mmc1Prg(mmc1') ELSE prgWin
  /\ chrWin' = IF reg \in {"control", "chr0", "chr1"} THEN Mmc1Chr(mmc1') ELSE chrWin
  /\ screens' = IF reg = "control" THEN Mmc1Screens(mmc1') ELSE screens
  /\ UNCHANGED <<cart, kind, bank, last>>

-----------------------------------------------------------------------------
\* The simple mappers.  On a bus conflict the ROM pulls bits of the value down.
Conflicts ==
  CASE kind = "UxROM" -> cart.submapper # 1
    [] kind \in {"AxROM", "CNROM"} -> cart.submapper = 2
    [] OTHER -> FALSE
Arriving(v) ==
  IF Conflicts THEN {b \in 0..v : \A i \in 0..7 : Bit(b, i) <= Bit(v, i)} ELSE {v}

\* Faulty: the CIRAM bit is not compared.
CachedByBank(b) == b % 16 = bank % 16

\* The early return of every port.
Cached(b) == b = bank

Ignored(b) ==
  /\ kind \in {"NROM", "UxROM", "CNROM", "AxROM"} /\ Cached(b)
  /\ UNCHANGED <<cart, kind, bank, mmc1, mapVars>>

\* MapperBankSwitchDefault, which NROM has as well.
NromSwitch(b) ==
  /\ kind = "NROM" /\ ~Cached(b)
  /\ bank' = b
  /\ prgWin' = Prg32KMasked(4 * b)
  /\ UNCHANGED <<cart, kind, mmc1, chrWin, screens>>

\* Faulty: the bank is not cut down to the ROM.
UxRomSwitchRaw(b) ==
  /\ kind = "UxROM" /\ ~Cached(b)
  /\ bank' = b
  /\ prgWin' = [prgWin EXCEPT ![0] = 2 * b, ![1] = 2 * b + 1]
  /\ UNCHANGED <<cart, kind, mmc1, chrWin, screens>>

UxRomSwitch(b) ==
  /\ kind = "UxROM" /\ ~Cached(b)
  /\ bank' = b
  /\ prgWin' = [prgWin EXCEPT ![0] = Masked(2 * b, cart.prg), ![1] = Masked(2 * b, cart.prg) + 1]
  /\ UNCHANGED <<cart, kind, mmc1, chrWin, screens>>

\* Without CHR ROM its size is 0, and the mask of size - 1 lets every bank through.
CnRomSwitch(b) ==
  /\ kind = "CNROM" /\ ~Cached(b)
  /\ bank' = b
  /\ chrWin' = Chr8K(Masked(2 * b, cart.chrRom))
  /\ UNCHANGED <<cart, kind, mmc1, prgWin, screens>>

AxRomSwitch(b) ==
  /\ kind = "AxROM" /\ ~Cached(b)
  /\ bank' = b
  /\ screens' = SingleScreen(Bit(b, 4))
  /\ prgWin' = Prg32K(Masked(4 * b, cart.prg))
  /\ UNCHANGED <<cart, kind, mmc1, chrWin>>

-----------------------------------------------------------------------------
\* MapperInit with the 8 bits of the id that it takes; then MapperPrgInit, PpuMMapInit
\* and MapperNameTableInit if there is such a mapper.
MapperInit ==
  /\ kind = MapperLookupById(cart.id % 256)
  /\ bank = 0 /\ last = 0
  /\ mmc1 = [shift |-> Mmc1Reset, control |-> WithFixLast(IF cart.vertical THEN 2 ELSE 3),
             chr0 |-> 0, chr1 |-> 0, prg |-> 0]
  /\ prgWin = CASE kind = "MMC1" -> Mmc1Prg(mmc1)
                [] kind = "UxROM" -> Prg16K(0, cart.prg - 2)
                [] kind = None -> Prg32K(0)
                [] OTHER -> Prg32KMasked(0)
  /\ chrWin = Chr8K(0)
  /\ screens = IF kind = "AxROM" THEN SingleScreen(0) ELSE Mirrored(cart.vertical)

\* A program shifts in the values of Loads, and may reset the port at any time.
ShiftedIn(d) ==
  \E v \in Loads : \E k \in 0..4 :
    /\ mmc1.shift = ((v % 2^k) * 2 + 1) * 2^(4 - k)
    /\ d = Bit(v, k)

MapperNext ==
  \/ Mmc1ResetWrite
  \/ \E d \in {0, 1} :
       /\ ShiftedIn(d)
       /\ Mmc1Shift(d) \/ \E reg \in {"control", "chr0", "chr1", "prg"} : Mmc1Load(d, reg)
  \/ \E v \in Bytes : \E b \in Arriving(v) :
       /\ NromSwitch(b) \/ UxRomSwitch(b) \/ CnRomSwitch(b) \/ AxRomSwitch(b) \/ Ignored(b)
       /\ last' = b

-----------------------------------------------------------------------------
\* The banks that the windows show are in the memory there is: the PRG ROM, and the
\* CHR ROM or the CHR RAM.  NROM takes any value for a bank (mapper.c 58-71), CNROM
\* leaves a CHR RAM for what follows the PRG in the file (cnrom.c 46-49), and MMC1 counts
\* the banks of a CHR RAM larger than the 8 KB that are allocated (mmc1.c 130, ppu.c 542).
WindowsInMemory ==
  /\ kind \notin {"NROM", None} => prgWin \in [0..3 -> 0..(cart.prg - 1)]
  /\ kind # None /\ (kind = "CNROM" => cart.chrRom > 0) /\ cart.chr <= cart.chrMem =>
       chrWin \in [0..1 -> 0..(cart.chrMem - 1)]

\* The lookup finds each mapper of the list that is implemented and nothing else, for
\* ids of 8 bits (mapper.c 83-154).
LookupIsExact ==
  cart.id \in 0..255 =>
    kind = IF cart.id \in DOMAIN Implemented THEN Implemented[cart.id] ELSE None

\* What the CPU and the PPU see is what the registers last written select: no early
\* return on a cached bank, no partial update of an MMC1 register and no reset
\* leaves a window stale (axrom.c 31-58, uxrom.c 34-56, cnrom.c 28-52, mmc1.c
\* 81-203).
MapsFollowRegisters ==
  CASE kind = "MMC1" ->
         /\ PrgMode(mmc1.control) = 3 => prgWin[3] = cart.prg - 1
         /\ PrgMode(mmc1.control) = 2 => prgWin[0] = 0
         /\ PrgMode(mmc1.control) < 2 => prgWin[0] % 4 = 0 /\ prgWin[3] = prgWin[0] + 3
         /\ PrgMode(mmc1.control) \in {2, 3} =>
              prgWin[IF PrgMode(mmc1.control) = 2 THEN 2 ELSE 0] = Masked(2 * (mmc1.prg % 16), cart.prg)
         /\ Bit(mmc1.control, 4) = 0 => chrWin[1] = chrWin[0] + 1
         /\ Bit(mmc1.control, 4) = 1 => chrWin[1] = Masked(mmc1.chr1, cart.chr)
         /\ screens = Mmc1Screens(mmc1)
    [] kind = "UxROM" -> prgWin = Prg16K(Masked(2 * last, cart.prg), cart.prg - 2)
    [] kind = "CNROM" -> chrWin = Chr8K(Masked(2 * last, cart.chrRom))
    [] kind = "AxROM" -> /\ prgWin = Prg32K(Masked(4 * last, cart.prg))
                         /\ screens = SingleScreen(Bit(last, 4))
    [] OTHER -> TRUE

\* The shift register and its marker bit implement the serial port: bits above the
\* marker are the bits collected.
Marker(s) == CHOOSE i \in 0..4 : Bit(s, i) = 1 /\ \A j \in 0..(i - 1) : Bit(s, j) = 0
Port == INSTANCE SerialPort WITH
  bits <- [k \in 1..(4 - Marker(mmc1.shift)) |-> Bit(mmc1.shift, Marker(mmc1.shift) + k)],
  regs <- [r \in 0..3 |-> <<mmc1.control, mmc1.chr0, mmc1.chr1, mmc1.prg>>[r + 1]]
PortSpec == Port!PortSpec
=============================================================================
