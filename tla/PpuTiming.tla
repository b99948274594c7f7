------------------------------ MODULE PpuTiming ------------------------------
(***************************************************************************)
(* The timing core of ppu/ppu.c and ppu/render.c: the scan line / dot      *)
(* machine that PpuTicksExecute drives, the status bits that depend on the *)
(* time at which the CPU touches a register, and the NMI edge latch.       *)
(*                                                                         *)
(* PpuTicksExecute(n) adds 3n dots to `dot' and then loops, one scan line  *)
(* per iteration, until `lastDot' has caught up with `dot'.  Here the call *)
(* is the action Ticks(n) and every iteration of its loop is one action    *)
(* (VisibleLine ... VblankEnd).  The CPU can touch a register only between *)
(* two calls: AtRest.                                                      *)
(*                                                                         *)
(* Pixels, sprites and the VRAM address are not part of this module; of a  *)
(* rendered line only its effect on time is.                               *)
(***************************************************************************)
EXTENDS Integers

CONSTANTS
  CyclesPerLine,   \* PPU_CYCLES_PER_LINE, 341 dots
  PostRenderLine,  \* 240: idle line on which the finished frame is shown
  PreRenderLine,   \* 261: last line of a frame
  OddSkipDot,      \* PPU_PRERENDER_ODD_SKIP, 338
  Batches          \* the numbers of CPU cycles one PpuTicksExecute call covers

VblankLine == PostRenderLine + 1       \* PPU_VBLANK_LINE, 241
VblankEndLine == PreRenderLine + 1     \* PPU_VBLANK_END, 262

ASSUME PpuConstants ==
  /\ CyclesPerLine \in Nat /\ PostRenderLine \in Nat /\ PreRenderLine \in Nat
  /\ OddSkipDot \in Nat
  /\ CyclesPerLine > 4
  /\ PostRenderLine > 0
  /\ PreRenderLine > PostRenderLine + 2
  /\ 1 < OddSkipDot /\ OddSkipDot + 1 < CyclesPerLine
  /\ Batches \subseteq Nat \ {0}

VARIABLES
  scanLine,    \* ppu->scanLine
  dot,         \* ppu->dot: where the PPU has been told to go
  lastDot,     \* ppu->render.lastDot: where it has got to
  oddFrame,    \* ppu->oddFrame
  vblank,      \* PPU_VBLANK_MASK of reg->status
  readRC,      \* PPU_VBLANK_READ_RC_MASK of reg->status
  nmiPending,  \* PPU_NMI_PENDING_MASK of reg->status
  nmiSignal,   \* the static NMI_Signal of PpuNmiEdgeSet
  nmiEnabled,  \* PPU_NMI_MASK of reg->ctrl
  rendering,   \* reg->mask & PPU_RENDERING_ENABLED
  frameDue     \* history: a frame has begun that VideoFrameFlush has not shown

clockVars == <<scanLine, dot, lastDot, oddFrame>>
statusVars == <<vblank, readRC, nmiPending, nmiSignal>>
regVars == <<nmiEnabled, rendering>>
ppuVars == <<clockVars, statusVars, regVars, frameDue>>

-----------------------------------------------------------------------------
\* PpuInit and PpuRegInit: power-up in the last line of a vertical blank.
PpuInit ==
  /\ scanLine = PreRenderLine - 1
  /\ dot = 0 /\ lastDot = 0
  /\ oddFrame = FALSE
  /\ vblank = TRUE
  /\ readRC = FALSE /\ nmiPending = FALSE /\ nmiSignal = FALSE
  /\ nmiEnabled = FALSE /\ rendering = FALSE
  /\ frameDue = FALSE

\* The loop condition of PpuTicksExecute: no call is in progress.
AtRest == lastDot = dot

\* Entry of PpuTicksExecute; CpuSyncDevices never passes 0 cycles.
Ticks(n) ==
  /\ AtRest
  /\ dot' = dot + 3 * n
  /\ UNCHANGED <<scanLine, lastDot, oddFrame, statusVars, regVars, frameDue>>

\* The tail of an iteration whose line handler has reached dot d.
FinishLine(d) ==
  IF d >= CyclesPerLine
    THEN /\ scanLine' = scanLine + 1
         /\ dot' = d - CyclesPerLine
         /\ lastDot' = 0
    ELSE /\ scanLine' = scanLine
         /\ dot' = d
         /\ lastDot' = d

\* This iteration takes the line past its dot 1.
PassesDot1 == lastDot <= 1 /\ dot > 1

VisibleLine ==
  /\ ~AtRest /\ scanLine < PostRenderLine
  /\ FinishLine(dot)
  /\ UNCHANGED <<oddFrame, statusVars, regVars, frameDue>>

\* Faulty: a batch that covers the whole line shows no frame.
PostRenderMissed ==
  /\ ~AtRest /\ scanLine = PostRenderLine
  /\ frameDue' = IF lastDot = 0 /\ dot < CyclesPerLine THEN FALSE ELSE frameDue
  /\ FinishLine(dot)
  /\ UNCHANGED <<oddFrame, statusVars, regVars>>

\* The frame is flushed to the video backend when the line is entered.
PostRender ==
  /\ ~AtRest /\ scanLine = PostRenderLine
  /\ frameDue' = IF lastDot = 0 THEN FALSE ELSE frameDue
  /\ FinishLine(dot)
  /\ UNCHANGED <<oddFrame, statusVars, regVars>>

\* Faulty: a vblank that begins in the last CPU cycle requests nothing.
EnterVblankLost ==
  /\ vblank' = TRUE
  /\ nmiSignal' = (nmiSignal \/ (nmiEnabled /\ dot > 3))
  /\ UNCHANGED <<readRC, nmiPending>>

\* Faulty: the race mark stays.
SuppressVblankSticky == UNCHANGED statusVars

(***************************************************************************)
(* Line 241: the vblank flag is set between dots 1 and 2, unless a status  *)
(* read hit dot 1.  With NMI enabled the edge is raised at once if the     *)
(* flag is older than the last CPU cycle (dot > 3), else one poll later.   *)
(***************************************************************************)
EnterVblank ==
  /\ vblank' = TRUE
  /\ nmiSignal' = (nmiSignal \/ (nmiEnabled /\ dot > 3))
  /\ nmiPending' = (nmiPending \/ (nmiEnabled /\ dot <= 3))
  /\ UNCHANGED readRC

SuppressVblank ==
  /\ readRC' = FALSE
  /\ UNCHANGED <<vblank, nmiPending, nmiSignal>>

VblankStart ==
  /\ ~AtRest /\ scanLine = VblankLine
  /\ \/ PassesDot1 /\ ~readRC /\ EnterVblank
     \/ PassesDot1 /\ readRC /\ SuppressVblank
     \/ ~PassesDot1 /\ UNCHANGED statusVars
  /\ FinishLine(dot)
  /\ UNCHANGED <<oddFrame, regVars, frameDue>>

VblankIdle ==
  /\ ~AtRest /\ VblankLine < scanLine /\ scanLine < PreRenderLine
  /\ FinishLine(dot)
  /\ UNCHANGED <<oddFrame, statusVars, regVars, frameDue>>

\* Faulty: the skip is taken only by a batch that ends on the next dot.
PreRenderDotExact ==
  IF oddFrame /\ rendering /\ lastDot <= OddSkipDot /\ dot = OddSkipDot + 1
    THEN dot + 1 ELSE dot

\* The dot PpuPreRenderLine leaves: an odd frame with rendering on is one dot
\* shorter, decided when the line passes OddSkipDot.
PreRenderDot ==
  IF oddFrame /\ rendering /\ lastDot <= OddSkipDot /\ dot > OddSkipDot
    THEN dot + 1 ELSE dot

PreRender ==
  /\ ~AtRest /\ scanLine = PreRenderLine
  /\ vblank' = (vblank /\ ~PassesDot1)
  /\ FinishLine(PreRenderDot)
  /\ UNCHANGED <<oddFrame, readRC, nmiPending, nmiSignal, regVars, frameDue>>

\* Line 262 does not exist: back to line 0 in the same call, or at the start of
\* the next call when the frame ended exactly at the end of a batch.
VblankEnd ==
  /\ ~AtRest /\ scanLine = VblankEndLine
  /\ scanLine' = 0
  /\ oddFrame' = ~oddFrame
  /\ frameDue' = TRUE
  /\ UNCHANGED <<dot, lastDot, statusVars, regVars>>

\* One iteration of the loop of PpuTicksExecute.
LineStep ==
  \/ VisibleLine
  \/ PostRender
  \/ VblankStart
  \/ VblankIdle
  \/ PreRender
  \/ VblankEnd

-----------------------------------------------------------------------------
\* PpuStatusRead: $2002.  The value read is the old vblank flag.
StatusRead ==
  /\ AtRest
  /\ vblank' = FALSE
  /\ readRC' = (readRC \/ (scanLine = VblankLine /\ dot = 1))
  /\ nmiPending' = (nmiPending /\ ~(scanLine = VblankLine /\ dot \in {2, 3}))
  /\ UNCHANGED <<clockVars, nmiSignal, regVars, frameDue>>

\* The vblank flag as a $2000 write sees it: cleared by force on dot 1 of the
\* pre-render line, where PpuPreRenderLine has not cleared it yet.
VblankAtCtrl == vblank /\ ~(scanLine = PreRenderLine /\ dot = 1)

\* PpuRegHandle, PPU_REG_CTRL: $2000 with NMI bit `enable'.
CtrlWrite(enable) ==
  /\ AtRest
  /\ vblank' = VblankAtCtrl
  /\ nmiPending' = IF enable = nmiEnabled THEN nmiPending
                   ELSE enable /\ VblankAtCtrl
  /\ nmiEnabled' = enable
  /\ UNCHANGED <<clockVars, readRC, nmiSignal, rendering, frameDue>>

\* PpuRegHandle, PPU_REG_MASK: $2001.
MaskWrite(enable) ==
  /\ AtRest
  /\ rendering' = enable
  /\ UNCHANGED <<clockVars, statusVars, nmiEnabled, frameDue>>

\* Faulty polls: the delay of one instruction is dropped; the enable bit gates the
\* latched edge.
NmiFiresEarly == nmiSignal \/ nmiPending
NmiFiresGated == nmiSignal /\ nmiEnabled

\* PpuCheckNMI over PpuNmiEdgeSet: a pending NMI arms the edge latch, an armed
\* latch fires when nothing is pending (NmiFires is what the call returns).
NmiFires == nmiSignal

CheckNMI ==
  /\ AtRest
  /\ nmiPending' = FALSE
  /\ nmiSignal' = nmiPending
  /\ UNCHANGED <<clockVars, vblank, readRC, regVars, frameDue>>

-----------------------------------------------------------------------------
FrameDots == VblankEndLine * CyclesPerLine
CeilDiv3(x) == (x + 2) \div 3

\* Faulty: counts from the start of the line.
PpuCyclesToNMIByLine ==
  LET dist == (VblankLine - scanLine) * CyclesPerLine + 2
  IN  CeilDiv3(IF dist < 0 THEN dist + FrameDots ELSE dist)

\* PpuCyclesToNMI: CPU cycles until dot 2 of the vblank line.
PpuCyclesToNMI ==
  LET dist == (VblankLine * CyclesPerLine + 2) - (scanLine * CyclesPerLine + dot)
  IN  CeilDiv3(IF dist < 0 THEN dist + FrameDots ELSE dist)

PpuNext ==
  \/ \E n \in Batches : Ticks(n)
  \/ LineStep
  \/ StatusRead
  \/ \E e \in BOOLEAN : CtrlWrite(e)
  \/ \E e \in BOOLEAN : MaskWrite(e)
  \/ CheckNMI

PpuSpec == PpuInit /\ [][PpuNext]_ppuVars

-----------------------------------------------------------------------------
(***************************************************************************)
(* Properties.                                                             *)
(***************************************************************************)

\* Types and ranges; lastDot never reaches the end of a line, and line 262 is
\* only ever seen at its dot 0.
ClockOK ==
  /\ scanLine \in 0..VblankEndLine
  /\ dot \in Nat
  /\ lastDot \in 0..(CyclesPerLine - 1)
  /\ lastDot <= dot
  /\ scanLine = VblankEndLine => lastDot = 0

FlagsOK ==
  /\ oddFrame \in BOOLEAN /\ vblank \in BOOLEAN /\ readRC \in BOOLEAN
  /\ nmiPending \in BOOLEAN /\ nmiSignal \in BOOLEAN
  /\ nmiEnabled \in BOOLEAN /\ rendering \in BOOLEAN /\ frameDue \in BOOLEAN

TypeOK == ClockOK /\ FlagsOK

\* The dots at which the PPU is in vertical blank as the status register sees it:
\* from dot 2 of line 241 to dot 1 of the pre-render line.
InBlank ==
  \/ scanLine = VblankLine /\ lastDot > 1
  \/ VblankLine < scanLine /\ scanLine < PreRenderLine
  \/ scanLine = PreRenderLine /\ lastDot <= 1

\* The vblank flag of $2002 never outlives the vertical blank, however the batches
\* fall and whatever registers are touched (ppu.c 51-68, 91-104; render.c 543-545).
VblankFlagInBlank == vblank => InBlank

\* The read-race mark left by a $2002 read is consumed by the very next line step:
\* it can never suppress the vblank of a later frame (ppu.c 61-62, 91-102).
RaceMarkIsFresh == readRC => scanLine = VblankLine /\ lastDot = 1

\* The picture is shown exactly once a frame: it is due from line 0 on and no
\* longer once line 240 has been entered (ppu.c 81-87), also when a batch ends
\* exactly on the line boundary.
ShownOncePerFrame ==
  frameDue <=> (scanLine < PostRenderLine
                  \/ (scanLine = PostRenderLine /\ lastDot = 0))

\* An NMI is requested only while NMI is enabled and the PPU is between dot 2 of
\* line 241 and dot 0 of the pre-render line; in particular a $2000 write on
\* dot 1 of that line, where the flag is still up, requests none (ppu.c 258-276).
NmiRequested ==
  \/ nmiPending' /\ ~nmiPending
  \/ nmiSignal' /\ ~nmiSignal /\ ~nmiPending
NmiOnlyInBlank ==
  [][NmiRequested => /\ nmiEnabled'
                     /\ \/ VblankLine <= scanLine /\ scanLine < PreRenderLine
                        \/ scanLine = PreRenderLine /\ lastDot = 0]_ppuVars

(***************************************************************************)
(* True distances, in dots, from where the PPU has got to: the reference   *)
(* that the loop and PpuCyclesToNMI are measured against.                  *)
(***************************************************************************)
SkipAhead ==
  IF /\ oddFrame /\ rendering
     /\ \/ scanLine < PreRenderLine
        \/ scanLine = PreRenderLine /\ lastDot <= OddSkipDot
    THEN 1 ELSE 0

DotsToVblank ==
  LET to == (VblankLine * CyclesPerLine + 2) - (scanLine * CyclesPerLine + lastDot)
  IN  IF to > 0 THEN to ELSE to + FrameDots - SkipAhead

\* The deadline the CPU batches up to (ppu.c 129-142) is never early, but at dot 2
\* of line 241 itself, and late by at most one CPU cycle: it does not know of the
\* odd-frame skip.
DeadlineCoversVblank ==
  AtRest => LET due == CeilDiv3(DotsToVblank)
            IN  IF scanLine = VblankLine /\ dot = 2 THEN PpuCyclesToNMI = 0
                ELSE due <= PpuCyclesToNMI /\ PpuCyclesToNMI <= due + 1
=============================================================================
