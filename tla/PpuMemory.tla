------------------------------ MODULE PpuMemory ------------------------------
(***************************************************************************)
(* The memory of the PPU behind $2006 and $2007: the address register with *)
(* its temporary and its write toggle, which $2005 and $2002 share, and    *)
(* the table of 16 pages through which an address finds its cell, in the   *)
(* windows that the mapper has set.                                        *)
(*                                                                         *)
(* The fields of an address keep their order, with fewer bits: from the    *)
(* lowest, tileX and tileY (Tiles values each, 32 in the code), the name   *)
(* table (4) and fineY (8).  $2006 sets Low values and then High values    *)
(* (256 and 64); the bit above them, Z, is the top bit of fineY.           *)
(***************************************************************************)
EXTENDS Mapper

CONSTANTS
  Tiles,     \* 32
  Low,       \* 256
  PalAt,     \* where the palette starts in the last page, $300
  PalSize,   \* 32
  PalUniq,   \* 4: entries of the upper half at these distances are mirrors
  PortBytes, \* values written to $2005 and $2006
  MaxRun     \* bound: accesses of $2007 without setting the address

PageSize == Tiles * Tiles          \* 1 KB
Pages16 == 16
Space == Pages16 * PageSize        \* 14 bits
High == Space \div Low

ASSUME PortConstants ==
  /\ {Tiles, Low, PalAt, PalSize, PalUniq, MaxRun} \subseteq Nat \ {0}
  /\ PortBytes \subseteq Nat
  /\ Space % Low = 0 /\ PalSize % 2 = 0 /\ PalAt + PalSize <= PageSize

VARIABLES
  cur,     \* iRegs.cur.addr
  tmp,     \* iRegs.tmp.addr
  w,       \* iRegs.w: the next write is the second
  down,    \* the increment bit of $2000
  seen,    \* history: the writes to $2006 since $2002 was read, if there were no others
  goal,    \* history: the address the program has set and counted on, or Unset
  run      \* accesses of $2007 since the address was set

portVars == <<cur, tmp, w, down, seen, goal, run>>

Unset == -1

-----------------------------------------------------------------------------
(* Finding the cell.  A cell is [area, at]: in CHR memory, in the two CIRAM  *)
(* blocks, or in the palette.                                                *)

\* Faulty: the second table follows the first, as it does with banks of 8 KB.
PpuAddrPatternJoined(table, addr) ==
  [area |-> "chr", at |-> (chrWin[0] + table) * 4 * PageSize + addr]

PpuAddrPattern(table, addr) == [area |-> "chr", at |-> chrWin[table] * 4 * PageSize + addr]

PpuAddrNameTable(addr) ==
  [area |-> "ciram", at |-> screens[addr \div PageSize] * PageSize + (addr % PageSize)]

PaletteBase == 3 * PageSize + PalAt

PpuAddrPalette(addr) ==
  LET offs == addr - PaletteBase
      half == PalSize \div 2
  IN  CASE addr < PaletteBase -> PpuAddrNameTable(addr)
        [] addr \in PaletteBase..(PaletteBase + PalSize - 1) ->
             [area |-> "palette",
              at |-> IF offs >= half /\ offs % PalUniq = 0 THEN offs - half ELSE offs]
        [] OTHER -> [area |-> "palette", at |-> offs - PalSize]

\* PpuAddrLookup: mtab[page] with the address in 4 KB.
PpuAddrLookup(addr) ==
  LET page == addr \div PageSize
      within == addr % (4 * PageSize)
  IN  CASE page \in 0..3 -> PpuAddrPattern(0, within)
        [] page \in 4..7 -> PpuAddrPattern(1, within)
        [] page \in 8..11 -> PpuAddrNameTable(within)
        [] page \in 12..14 -> PpuAddrNameTable(within)
        [] page = 15 -> PpuAddrPalette(within)

-----------------------------------------------------------------------------
(* The registers.                                                            *)

PortInit ==
  /\ cur = 0 /\ tmp = 0 /\ w = FALSE /\ down = FALSE
  /\ seen = Unset /\ goal = Unset /\ run = 0

\* tmp with the field of the given weight and size set.
WithField(weight, size, val) == tmp - ((tmp \div weight) % size) * weight + (val % size) * weight

\* $2000: the name table and the increment; the rest of it is not about memory.
WriteCtrl(nt, inc) ==
  /\ tmp' = WithField(PageSize, 4, nt)
  /\ down' = inc
  /\ seen' = IF w THEN Unset ELSE seen
  /\ UNCHANGED <<cur, w, goal, run>>

\* $2002.
ReadStatus ==
  /\ w' = FALSE
  /\ seen' = 0
  /\ UNCHANGED <<cur, tmp, down, goal, run>>

\* $2005: x, then y.
WriteScroll(val) ==
  /\ w' = ~w
  /\ tmp' = IF ~w THEN WithField(1, Tiles, val \div 8)
            ELSE LET y == WithField(Tiles, Tiles, val \div 8)
                 IN  y - (y \div (4 * PageSize)) * 4 * PageSize + (val % 8) * 4 * PageSize
  /\ seen' = Unset
  /\ UNCHANGED <<cur, down, goal, run>>

\* Faulty: the first write leaves the bit above the address.
WriteAddrKeepsZ(val) ==
  /\ w' = ~w
  /\ tmp' = IF ~w THEN WithField(Low, High, val) ELSE WithField(1, Low, val)
  /\ cur' = IF w THEN tmp' ELSE cur
  /\ seen' = IF seen = 0 /\ ~w THEN val % High ELSE Unset
  /\ goal' = IF ~w THEN goal ELSE IF seen # Unset THEN seen * Low + (val % Low) ELSE Unset
  /\ run' = IF w THEN 0 ELSE run
  /\ UNCHANGED down

\* $2006: high, with Z cleared, then low.
WriteAddr(val) ==
  /\ w' = ~w
  /\ tmp' = IF ~w THEN WithField(Low, High, val) % Space ELSE WithField(1, Low, val)
  /\ cur' = IF w THEN tmp' ELSE cur
  /\ seen' = IF seen = 0 /\ ~w THEN val % High ELSE Unset
  /\ goal' = IF ~w THEN goal ELSE IF seen # Unset THEN seen * Low + (val % Low) ELSE Unset
  /\ run' = IF w THEN 0 ELSE run
  /\ UNCHANGED down

\* $2007, a read or a write: the address moves on, beyond the last page if it comes to that.
AccessData ==
  /\ run < MaxRun
  /\ cur < Space    \* the table has no entry for a higher one
  /\ cur' = cur + (IF down THEN Tiles ELSE 1)
  /\ goal' = IF goal = Unset THEN Unset ELSE goal + (IF down THEN Tiles ELSE 1)
  /\ run' = run + 1
  /\ UNCHANGED <<tmp, w, down, seen>>

PortNext ==
  \/ \E nt \in {0, 3}, inc \in BOOLEAN : WriteCtrl(nt, inc)
  \/ ReadStatus
  \/ \E val \in PortBytes : WriteScroll(val) \/ WriteAddr(val)
  \/ AccessData

-----------------------------------------------------------------------------
\* The map of ppu.c 506-517 and of ppu/mmap.h: pattern tables, name tables, their mirror
\* below the palette, and the palette whose upper half shares every PalUniq-th entry.
Documented(a) ==
  CASE a < 8 * PageSize ->
         [area |-> "chr", at |-> chrWin[a \div (4 * PageSize)] * 4 * PageSize + (a % (4 * PageSize))]
    [] a >= 8 * PageSize /\ a < 15 * PageSize + PalAt ->
         LET screen == (a \div PageSize) % 4
         IN  [area |-> "ciram", at |-> screens[screen] * PageSize + (a % PageSize)]
    [] OTHER ->
         LET entry == a - 15 * PageSize - PalAt
             shared == entry >= PalSize \div 2 /\ entry % PalUniq = 0
         IN  [area |-> "palette", at |-> entry - (IF shared THEN PalSize \div 2 ELSE 0)]

EveryAddressMapped ==
  \A a \in 0..(15 * PageSize + PalAt + PalSize - 1) : PpuAddrLookup(a) = Documented(a)

\* Before and after every change of banks or mirroring, every address up to the end
\* of the palette finds the cell that the map gives it; the mirrors of the palette beyond,
\* which ppu.c 222-223 looks up without their own mirroring, are left out (ppu.c 179-240,
\* 566-583).
AddressesFollowMap ==
  [][UNCHANGED <<chrWin, screens>> \/ (EveryAddressMapped /\ EveryAddressMapped')]_mapVars

\* A program that reads $2002 and writes an address to $2006 gets that address, whatever
\* half of a scroll or of an address was written before, and each $2007 moves it on (ppu.c
\* 327-414).
AddressIsSet == goal # Unset => cur = goal
=============================================================================
