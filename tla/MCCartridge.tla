----------------------------- MODULE MCCartridge -----------------------------
(* Plain images of every 8-bit id; images of every format with each segment    *)
(* there and missing, sizes at the ends of iNES's count and sizes that only    *)
(* exponents can tell, 12-bit ids; and boards of all the mappers, with ROMs of *)
(* one to six 16 KB banks, powers of two and not, whose banks are switched by  *)
(* values that differ in the bank within the ROM, above it, and in the CIRAM   *)
(* bit only, and by MMC1 values that reach every PRG and CHR mode and          *)
(* mirroring.                                                                  *)
EXTENDS Cartridge

K == 1024
Plain ==
  [format |-> "iNES", trainer |-> FALSE, pc10 |-> FALSE, title |-> 0, prg |-> 32 * K, chr |-> 8 * K,
   id |-> 0, submapper |-> 0, chrRam |-> 0, vertical |-> FALSE]

Ids == {[Plain EXCEPT !.id = i] : i \in 0..255}

\* No supported board, so that nothing switches its banks.
Layouts ==
  {[Plain EXCEPT !.format = f, !.trainer = t, !.pc10 = pc, !.title = n, !.prg = p, !.chr = c,
                 !.chrRam = IF c = 0 THEN 8 * K ELSE 0, !.id = 255] :
     f \in {"iNES", "NES2", "legacy", "other"}, t \in BOOLEAN, pc \in BOOLEAN, n \in {0, 127, 128},
     p \in {16 * K, 4080 * K, 4096 * K}, c \in {0, 8 * K, 2040 * K}}
Large ==
  {[Plain EXCEPT !.format = "NES2", !.prg = p, !.chr = c, !.id = i, !.chrRam = r] :
     p \in {K, 24 * K, 40 * K, 8192 * K}, c \in {0, 4 * K, 2048 * K}, i \in {255, 256 + 255, 4095},
     r \in {0, 128, 32 * K}}

Board(i, prgs, chrs, subs) ==
  {[Plain EXCEPT !.format = "NES2", !.id = i, !.prg = p * 8 * K, !.chr = c * 4 * K, !.submapper = s,
                 !.chrRam = IF c = 0 THEN 8 * K ELSE 0, !.vertical = v] :
     p \in prgs, c \in chrs, s \in subs, v \in BOOLEAN}
Boards ==
  Board(0, {2, 4}, {2}, {0}) \union Board(1, {4, 12}, {0, 2, 8}, {0})
  \union Board(2, {2, 6, 8}, {0}, 0..2) \union Board(3, {4}, {0, 2, 8}, 0..2)
  \union Board(7, {4, 8}, {0}, 0..2)
  \union {[Plain EXCEPT !.format = "NES2", !.id = 1, !.prg = 32 * K, !.chr = 0, !.chrRam = 32 * K]}

MCImages == Ids \union Layouts \union Large \union Boards
MCDrawn == {Plain}
MCFormats == {"iNES", "NES2", "legacy", "other"}
MCBytes == {0, 1, 3, 6, 17, 22}
MCLoads == {0, 6, 9, 15, 30}
MCPortBytes == {0, 13, 31}
=============================================================================
