------------------------------- MODULE RomFile -------------------------------
(***************************************************************************)
(* rom/rom.c and rom/nes.c: a ROM file in the formats iNES and NES 2.0     *)
(* becomes a RomDesc, the place and size of each segment of the file.      *)
(*                                                                         *)
(* An image says what the file was made of; Encode writes its header as    *)
(* the formats ask, so that the loader has something to find again.        *)
(* Offsets are added in the 32 bits of the code, modulo Word.              *)
(***************************************************************************)
EXTENDS Integers

CONSTANTS
  Word,      \* 2^32
  Formats,   \* of images: "iNES", "NES2", "legacy", "other"
  Images     \* the images to load

ASSUME RomConstants == Word \in Nat \ {0} /\ Formats \subseteq {"iNES", "NES2", "legacy", "other"}

HeaderSize == 16
TrainerSize == 512
PrgPage == 16384
ChrPage == 8192
Pc10Size == 8192
MaxPrgSize == 256 * PrgPage

Refused == [id |-> -1, prg |-> 0, chr |-> 0]

-----------------------------------------------------------------------------
(* The formats.  iNES counts pages in one byte.  NES 2.0 counts them in 12   *)
(* bits, or writes the size as 2^e * (2m + 1); a CHR RAM is 64 << n bytes.   *)

Pages(size, unit) == [lsb |-> (size \div unit) % 256, msb |-> size \div (256 * unit)]
PowerOf(size) ==
  LET p == CHOOSE p \in (0..27) \X (0..3) : 2^p[1] * (2 * p[2] + 1) = size
  IN  [lsb |-> 4 * p[1] + p[2], msb |-> 15]

Encode(im) ==
  LET two == im.format = "NES2"
      Size(n, unit) == IF two /\ (n % unit # 0 \/ n \div unit > 3839) THEN PowerOf(n)
                       ELSE Pages(n, unit)
  IN  [nes2 |-> IF two THEN 2 ELSE IF im.format = "other" THEN 1 ELSE 0,
       reserve |-> im.format = "legacy",
       prg |-> Size(im.prg, PrgPage), chr |-> Size(im.chr, ChrPage),
       trainer |-> im.trainer, pc10 |-> im.pc10,
       lowMap |-> im.id % 16, upMap |-> (im.id \div 16) % 16, mbs |-> im.id \div 256,
       submapper |-> im.submapper, vertical |-> im.vertical,
       chrRam |-> IF im.chrRam = 0 THEN 0 ELSE CHOOSE n \in 1..15 : 64 * 2^n = im.chrRam]

FileSize(im) ==
  HeaderSize + (IF im.trainer THEN TrainerSize ELSE 0) + im.prg + im.chr
  + (IF im.pc10 THEN Pc10Size ELSE 0) + im.title

-----------------------------------------------------------------------------
SetRomSegment(offs, size) == (offs + size) % Word

\* Faulty: the multiplier is taken as it is written.
CalcNes2RomSizeRaw(lsb, msb, unit) ==
  IF msb = 15 THEN (2^(lsb \div 4) * (lsb % 4)) % Word
  ELSE ((lsb + 256 * msb) * unit) % Word

CalcNes2RomSize(lsb, msb, unit) ==
  IF msb = 15 THEN (2^(lsb \div 4) * (2 * (lsb % 4) + 1)) % Word
  ELSE ((lsb + 256 * msb) * unit) % Word

\* GetRomFormatObj: the signature is in every image; flags 7 tell the formats apart.
FormatOf(h) == CASE h.nes2 = 0 -> "INES" [] h.nes2 = 2 -> "NES2" [] OTHER -> "UNKNOWN"

PrgRomSize(h) ==
  LET size == IF FormatOf(h) = "NES2" THEN CalcNes2RomSize(h.prg.lsb, h.prg.msb, PrgPage)
              ELSE h.prg.lsb * PrgPage
  IN  IF size = 0 THEN MaxPrgSize ELSE size
ChrRomSize(h) ==
  IF FormatOf(h) = "NES2" THEN CalcNes2RomSize(h.chr.lsb, h.chr.msb, ChrPage)
  ELSE h.chr.lsb * ChrPage

\* In 16 bits.
ChrRamSize(h) ==
  IF FormatOf(h) = "NES2" THEN IF h.chrRam = 0 THEN 0 ELSE (64 * 2^h.chrRam) % 65536
  ELSE IF h.chr.lsb = 0 THEN 8192 ELSE 0

\* INESOpen, NES2Open and ParseNesHeaderBase.  A segment is [at, size]; what is left
\* of the file is the title.
RomDesc(h, fileSize) ==
  LET trainer == IF h.trainer THEN TrainerSize ELSE 0
      prgAt == SetRomSegment(HeaderSize, trainer)
      chrAt == SetRomSegment(prgAt, PrgRomSize(h))
      pc10At == SetRomSegment(chrAt, ChrRomSize(h))
      pc10 == IF h.pc10 THEN Pc10Size ELSE 0
      titleAt == SetRomSegment(pc10At, pc10)
  IN  [trainer |-> [at |-> HeaderSize, size |-> trainer],
       prg |-> [at |-> prgAt, size |-> PrgRomSize(h)],
       chr |-> [at |-> chrAt, size |-> ChrRomSize(h)],
       pc10 |-> [at |-> pc10At, size |-> pc10],
       title |-> [at |-> titleAt, size |-> (fileSize - titleAt) % Word],
       id |-> h.lowMap + 16 * h.upMap + (IF FormatOf(h) = "NES2" THEN 256 * h.mbs ELSE 0),
       submapper |-> IF FormatOf(h) = "NES2" THEN h.submapper ELSE 0,
       chrRam |-> ChrRamSize(h), vertical |-> h.vertical]

\* LoadRomFile of a file that can be opened.  The iNES loader refuses reserved bytes
\* that are not zero.
LoadRomFile(h, fileSize) ==
  IF FormatOf(h) = "UNKNOWN" \/ (FormatOf(h) = "INES" /\ h.reserve) THEN Refused
  ELSE RomDesc(h, fileSize)

Loaded(im) == LoadRomFile(Encode(im), FileSize(im))

-----------------------------------------------------------------------------
\* What a loader must find in the image: its segments one after the other, and the
\* mapper it asks for.
Contents(im) ==
  LET trainer == IF im.trainer THEN TrainerSize ELSE 0
      pc10 == IF im.pc10 THEN Pc10Size ELSE 0
      prgAt == HeaderSize + trainer
  IN  [trainer |-> [at |-> HeaderSize, size |-> trainer],
       prg |-> [at |-> prgAt, size |-> im.prg],
       chr |-> [at |-> prgAt + im.prg, size |-> im.chr],
       pc10 |-> [at |-> prgAt + im.prg + im.chr, size |-> pc10],
       title |-> [at |-> prgAt + im.prg + im.chr + pc10, size |-> im.title],
       id |-> im.id, submapper |-> im.submapper, chrRam |-> im.chrRam,
       vertical |-> im.vertical]
=============================================================================
