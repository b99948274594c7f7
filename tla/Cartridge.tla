------------------------------ MODULE Cartridge ------------------------------
(***************************************************************************)
(* From a ROM file to what the CPU and the PPU see of it: the loader, the  *)
(* mapper it selects, and the PPU's memory behind the mapper's windows.    *)
(* What a file asks for may find no mapper; main then ends.                *)
(***************************************************************************)
EXTENDS PpuMemory, RomFile

CONSTANT Drawn   \* the images whose programs use the PPU's ports

VARIABLES
  image,    \* what the file was made of
  rom,      \* con->rdesc
  program   \* "switches" banks or "draws" through the PPU's ports: one does not touch
            \* what the other does

cartridgeVars == <<image, rom, program, mapperVars, portVars>>

\* The sizes as numbers of banks.  Without CHR ROM there are 8 KB of CHR RAM, whatever
\* the header asks for.
Banks ==
  IF rom = Refused THEN [id |-> -1, prg |-> 0, chr |-> 0, chrRom |-> 0, chrMem |-> 0,
                         submapper |-> 0, vertical |-> FALSE]
  ELSE [id |-> rom.id, prg |-> rom.prg.size \div 8192,
        chr |-> (IF rom.chr.size # 0 THEN rom.chr.size ELSE rom.chrRam) \div 4096,
        chrRom |-> rom.chr.size \div 4096,
        chrMem |-> IF rom.chr.size # 0 THEN rom.chr.size \div 4096 ELSE 2,
        submapper |-> rom.submapper, vertical |-> rom.vertical]

Init ==
  /\ image \in Images
  /\ rom = Loaded(image)
  /\ cart = Banks
  /\ MapperInit
  /\ PortInit
  /\ program = "switches" \/ (program = "draws" /\ image \in Drawn)

Next ==
  /\ kind # None
  /\ \/ program = "switches" /\ MapperNext /\ UNCHANGED portVars
     \/ program = "draws" /\ PortNext /\ UNCHANGED mapperVars
  /\ UNCHANGED <<image, rom, program>>

Spec == Init /\ [][Next]_cartridgeVars

-----------------------------------------------------------------------------
\* The loader finds in a file what it was made of: every segment at its place, with NES
\* 2.0's exponents and the 256 pages that iNES writes as 0, and the mapper with all of
\* its bits; and it refuses what it does not know (nes.c 79-210, rom.c 46-90).
LoaderFindsImage ==
  rom = IF image.format \in {"iNES", "NES2"} THEN Contents(image) ELSE Refused
=============================================================================
