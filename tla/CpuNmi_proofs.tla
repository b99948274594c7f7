---------------------------- MODULE CpuNmi_proofs ----------------------------
(***************************************************************************)
(* Proofs about PpuTiming and about CpuNmi, which runs it: first the scan  *)
(* line machine alone, for every line length, number of lines and set of   *)
(* batches that satisfies PpuConstants; then the main loop over it, for    *)
(* all lengths of instructions that satisfy CpuConstants, FrameIsLong and  *)
(* DmaIsLong.                                                              *)
(***************************************************************************)
EXTENDS CpuNmi, PpuBatching, TLAPS

(***************************************************************************)
(* The inductive invariant.  The windows of the flags need the ranges of   *)
(* the clock; the rest is the conjunction of the state invariants.         *)
(***************************************************************************)
Windows ==
  /\ VblankFlagInBlank
  /\ RaceMarkIsFresh
  /\ ShownOncePerFrame

PpuInv == TypeOK /\ Windows

LEMMA PpuInitInv == PpuInit => PpuInv
<1> USE PpuConstants DEF PpuInit, VblankLine, VblankEndLine
<1>1. PpuInit => ClockOK
  BY DEF ClockOK
<1>2. PpuInit => FlagsOK
  BY Zenon DEF FlagsOK
<1>3. PpuInit => Windows
  BY DEF Windows, VblankFlagInBlank, InBlank, RaceMarkIsFresh, ShownOncePerFrame
<1>4. QED
  BY <1>1, <1>2, <1>3 DEF PpuInv, TypeOK

\* The flags stay Boolean.
LEMMA FlagsStep == FlagsOK /\ [PpuNext]_ppuVars => FlagsOK'
<1> SUFFICES ASSUME FlagsOK, [PpuNext]_ppuVars PROVE FlagsOK'
  OBVIOUS
<1> USE Zenon DEF FlagsOK, statusVars, regVars, clockVars
<1>1. ASSUME NEW n \in Batches, Ticks(n) PROVE FlagsOK'
  BY <1>1 DEF Ticks
<1>2. CASE VisibleLine
  BY <1>2 DEF VisibleLine
<1>3. CASE PostRender
  BY <1>3 DEF PostRender
<1>4. CASE VblankStart
  BY <1>4 DEF VblankStart, EnterVblank, SuppressVblank
<1>5. CASE VblankIdle
  BY <1>5 DEF VblankIdle
<1>6. CASE PreRender
  BY <1>6 DEF PreRender
<1>7. CASE VblankEnd
  BY <1>7 DEF VblankEnd
<1>8. CASE StatusRead
  BY <1>8 DEF StatusRead
<1>9. ASSUME NEW e \in BOOLEAN, CtrlWrite(e) PROVE FlagsOK'
  BY <1>9 DEF CtrlWrite, VblankAtCtrl
<1>10. ASSUME NEW e \in BOOLEAN, MaskWrite(e) PROVE FlagsOK'
  BY <1>10 DEF MaskWrite
<1>11. CASE CheckNMI
  BY <1>11 DEF CheckNMI
<1>12. CASE UNCHANGED ppuVars
  BY <1>12 DEF ppuVars
<1>13. QED
  BY <1>1, <1>2, <1>3, <1>4, <1>5, <1>6, <1>7, <1>8, <1>9, <1>10, <1>11, <1>12
  DEF PpuNext, LineStep

\* What the tail of a loop iteration leaves: either the same line, caught up, or
\* dot 0 of the next line.
LEMMA FinishLineClock ==
  ASSUME ClockOK, NEW d \in Nat, d >= dot, FinishLine(d), scanLine < VblankEndLine
  PROVE  /\ ClockOK'
         /\ \/ scanLine' = scanLine /\ lastDot' = d
            \/ scanLine' = scanLine + 1 /\ lastDot' = 0 /\ d >= CyclesPerLine
<1> USE PpuConstants DEF ClockOK, FinishLine, VblankLine, VblankEndLine
<1>1. CASE d >= CyclesPerLine
  BY <1>1
<1>2. CASE d < CyclesPerLine
  BY <1>2
<1>3. QED
  BY <1>1, <1>2

LEMMA PreRenderDotGrows ==
  ASSUME ClockOK
  PROVE  PreRenderDot \in Nat /\ PreRenderDot >= dot
BY DEF ClockOK, PreRenderDot

\* One loop iteration of PpuTicksExecute keeps the clock and the windows.
LEMMA LineStepClock == PpuInv /\ LineStep => ClockOK' /\ Windows'
<1> SUFFICES ASSUME PpuInv, LineStep PROVE ClockOK' /\ Windows'
  OBVIOUS
<1> USE PpuConstants DEF PpuInv, TypeOK, Windows, VblankFlagInBlank, InBlank,
        RaceMarkIsFresh, ShownOncePerFrame, AtRest, statusVars, regVars,
        VblankLine, VblankEndLine
<1>0. dot \in Nat /\ ClockOK /\ scanLine \in Int /\ lastDot \in Nat
  BY DEF ClockOK
<1>1. CASE VisibleLine
  BY <1>0, <1>1, FinishLineClock DEF VisibleLine
<1>2. CASE PostRender
  <2>1. ClockOK' /\ (lastDot' > 0 \/ scanLine' > PostRenderLine)
    BY <1>0, <1>2, FinishLineClock DEF PostRender, ClockOK
  <2>2. scanLine' >= PostRenderLine /\ scanLine' <= VblankLine
    BY <1>0, <1>2, FinishLineClock DEF PostRender
  <2>3. ~frameDue' /\ ~vblank' /\ ~readRC'
    BY <1>0, <1>2 DEF PostRender
  <2>4. QED
    BY <2>1, <2>2, <2>3 DEF ClockOK
<1>3. CASE VblankStart
  BY <1>0, <1>3, FinishLineClock
  DEF VblankStart, EnterVblank, SuppressVblank, PassesDot1, ClockOK
<1>4. CASE VblankIdle
  BY <1>0, <1>4, FinishLineClock DEF VblankIdle
<1>5. CASE PreRender
  <2>1. /\ ClockOK'
        /\ \/ scanLine' = scanLine /\ lastDot' = PreRenderDot
           \/ scanLine' = scanLine + 1
    BY <1>0, <1>5, FinishLineClock, PreRenderDotGrows DEF PreRender
  <2>2. ~frameDue' /\ ~readRC'
    BY <1>0, <1>5 DEF PreRender
  <2>3. vblank' => dot <= 1
    <3>1. vblank' => vblank /\ ~PassesDot1
      BY <1>5, Zenon DEF PreRender
    <3>2. vblank => lastDot <= 1
      BY <1>0, <1>5 DEF PreRender
    <3>3. QED
      BY <1>0, <3>1, <3>2 DEF PassesDot1
  <2>4. dot <= 1 => PreRenderDot = dot
    BY <1>0 DEF PreRenderDot
  <2>5. dot <= 1 => scanLine' = scanLine
    BY <1>0, <1>5, <2>4 DEF PreRender, FinishLine
  <2>6. QED
    BY <1>5, <1>0, <2>1, <2>2, <2>3, <2>4, <2>5 DEF PreRender, ClockOK
<1>6. CASE VblankEnd
  BY <1>0, <1>6 DEF VblankEnd, ClockOK
<1>7. QED
  BY <1>1, <1>2, <1>3, <1>4, <1>5, <1>6 DEF LineStep

\* So do the calls of the CPU: ticks, register accesses and the NMI poll.
LEMMA CpuCallClock ==
  ASSUME PpuInv, PpuNext, ~LineStep
  PROVE  ClockOK' /\ Windows'
<1> USE PpuConstants
    DEF PpuInv, TypeOK, ClockOK, Windows, VblankFlagInBlank, InBlank,
        RaceMarkIsFresh, ShownOncePerFrame, AtRest, statusVars, regVars,
        clockVars, VblankLine, VblankEndLine
<1>1. ASSUME NEW n \in Batches, Ticks(n) PROVE ClockOK' /\ Windows'
  BY <1>1 DEF Ticks
<1>2. CASE StatusRead
  BY <1>2 DEF StatusRead
<1>3. ASSUME NEW e \in BOOLEAN, CtrlWrite(e) PROVE ClockOK' /\ Windows'
  BY <1>3 DEF CtrlWrite, VblankAtCtrl
<1>4. ASSUME NEW e \in BOOLEAN, MaskWrite(e) PROVE ClockOK' /\ Windows'
  BY <1>4 DEF MaskWrite
<1>5. CASE CheckNMI
  BY <1>5 DEF CheckNMI
<1>6. QED
  BY <1>1, <1>2, <1>3, <1>4, <1>5 DEF PpuNext

LEMMA PpuStepInv == PpuInv /\ [PpuNext]_ppuVars => PpuInv'
<1> SUFFICES ASSUME PpuInv, [PpuNext]_ppuVars PROVE PpuInv'
  OBVIOUS
<1>1. FlagsOK'
  BY FlagsStep DEF PpuInv, TypeOK
<1>2. CASE LineStep
  BY <1>1, <1>2, LineStepClock DEF PpuInv, TypeOK
<1>3. CASE PpuNext /\ ~LineStep
  BY <1>1, <1>3, CpuCallClock DEF PpuInv, TypeOK
<1>4. CASE UNCHANGED ppuVars
  BY <1>1, <1>4 DEF PpuInv, ppuVars, clockVars, statusVars, regVars, TypeOK,
     ClockOK, Windows, VblankFlagInBlank, InBlank, RaceMarkIsFresh, ShownOncePerFrame
<1>5. QED
  BY <1>2, <1>3, <1>4

\* The scan line machine stays in range whatever the CPU does and in whatever
\* batches it lets time pass.
THEOREM PpuInvariant == PpuSpec => []PpuInv
BY PpuInitInv, PpuStepInv, PTL DEF PpuSpec

-----------------------------------------------------------------------------
\* TypeOK of every reachable state: the dot and line counters stay in range and
\* line 262 is never entered beyond its dot 0 (ppu.c 70-127).
THEOREM PpuTypeCorrect == PpuSpec => []TypeOK
<1>1. PpuInv => TypeOK
  BY DEF PpuInv
<1>2. QED
  BY <1>1, PpuInvariant, PTL

\* VblankFlagInBlank of every reachable state: no batch and no register access
\* leaves the vblank flag up outside the vertical blank (ppu.c 51-68, 91-104).
THEOREM VblankFlagTheorem == PpuSpec => []VblankFlagInBlank
<1>1. PpuInv => VblankFlagInBlank
  BY DEF PpuInv, Windows
<1>2. QED
  BY <1>1, PpuInvariant, PTL

\* RaceMarkIsFresh of every reachable state: the mark a $2002 read on dot 1 leaves
\* suppresses the vblank of its own frame or none (ppu.c 61-62, 91-102).
THEOREM RaceMarkTheorem == PpuSpec => []RaceMarkIsFresh
<1>1. PpuInv => RaceMarkIsFresh
  BY DEF PpuInv, Windows
<1>2. QED
  BY <1>1, PpuInvariant, PTL

\* ShownOncePerFrame of every reachable state: VideoFrameFlush is called once per
\* frame, on line 240, for every way the batches can fall on it (ppu.c 81-87).
THEOREM ShownOnceTheorem == PpuSpec => []ShownOncePerFrame
<1>1. PpuInv => ShownOncePerFrame
  BY DEF PpuInv, Windows
<1>2. QED
  BY <1>1, PpuInvariant, PTL

-----------------------------------------------------------------------------
\* A step that requests an NMI is the one that enters the vblank, or a $2000 write
\* that sees the vblank flag.
LEMMA NmiRequestStep ==
  ASSUME PpuInv, [PpuNext]_ppuVars, NmiRequested
  PROVE  /\ nmiEnabled'
         /\ \/ VblankLine <= scanLine /\ scanLine < PreRenderLine
            \/ scanLine = PreRenderLine /\ lastDot = 0
<1> USE PpuConstants DEF NmiRequested, VblankLine, VblankEndLine
<1>1. CASE VblankStart
  <2>1. EnterVblank
    <3>1. ASSUME UNCHANGED <<nmiPending, nmiSignal>> PROVE FALSE
      BY <3>1, Zenon
    <3>2. SuppressVblank => UNCHANGED <<nmiPending, nmiSignal>>
      BY Zenon DEF SuppressVblank
    <3>3. UNCHANGED statusVars => UNCHANGED <<nmiPending, nmiSignal>>
      BY Zenon DEF statusVars
    <3>4. QED
      BY <1>1, <3>1, <3>2, <3>3, Zenon DEF VblankStart
  <2>2. nmiEnabled' = nmiEnabled /\ scanLine = VblankLine
    BY <1>1 DEF VblankStart, regVars
  <2>3. nmiEnabled
    BY <2>1, Zenon DEF EnterVblank
  <2>4. QED
    BY <2>2, <2>3
<1>2. ASSUME NEW e \in BOOLEAN, CtrlWrite(e)
      PROVE  /\ nmiEnabled'
             /\ \/ VblankLine <= scanLine /\ scanLine < PreRenderLine
                \/ scanLine = PreRenderLine /\ lastDot = 0
  <2>1. nmiEnabled' /\ VblankAtCtrl
    BY <1>2, Zenon DEF CtrlWrite
  <2>2. InBlank /\ ~(scanLine = PreRenderLine /\ lastDot = 1)
    BY <1>2, <2>1
    DEF CtrlWrite, AtRest, VblankAtCtrl, PpuInv, Windows, VblankFlagInBlank
  <2>3. lastDot \in Nat /\ scanLine \in Int
    BY DEF PpuInv, TypeOK, ClockOK
  <2>4. QED
    BY <2>1, <2>2, <2>3 DEF InBlank
<1>3. ASSUME UNCHANGED <<nmiPending, nmiSignal>> PROVE FALSE
  BY <1>3, Zenon
<1>4. (\/ VisibleLine \/ PostRender \/ VblankIdle \/ PreRender \/ VblankEnd
       \/ (\E n \in Batches : Ticks(n)) \/ (\E e \in BOOLEAN : MaskWrite(e))
       \/ UNCHANGED ppuVars)
      => UNCHANGED <<nmiPending, nmiSignal>>
  BY Zenon DEF VisibleLine, PostRender, VblankIdle, PreRender, VblankEnd, Ticks,
     MaskWrite, ppuVars, statusVars
<1>5. ASSUME StatusRead PROVE FALSE
  <2>1. nmiPending' => nmiPending
    BY <1>5, Zenon DEF StatusRead
  <2>2. nmiSignal' => nmiSignal
    BY <1>5, Zenon DEF StatusRead
  <2>3. QED
    BY <2>1, <2>2, Zenon
<1>6. ASSUME CheckNMI PROVE FALSE
  <2>1. ~nmiPending'
    BY <1>6, Zenon DEF CheckNMI
  <2>2. nmiSignal' => nmiPending
    BY <1>6, Zenon DEF CheckNMI
  <2>3. QED
    BY <2>1, <2>2, Zenon
<1>7. QED
  <2>1. VblankStart \/ (\E e \in BOOLEAN : CtrlWrite(e))
    BY <1>3, <1>4, <1>5, <1>6 DEF PpuNext, LineStep
  <2>2. QED
    BY <1>1, <1>2, <2>1

\* NmiOnlyInBlank of every behaviour: the NMI line never rises outside the vertical
\* blank nor while NMI is disabled (ppu.c 91-104, 258-276).
THEOREM NmiOnlyInBlankTheorem == PpuSpec => NmiOnlyInBlank
<1>1. PpuInv /\ [PpuNext]_ppuVars =>
        [NmiRequested => /\ nmiEnabled'
                         /\ \/ VblankLine <= scanLine /\ scanLine < PreRenderLine
                            \/ scanLine = PreRenderLine /\ lastDot = 0]_ppuVars
  BY NmiRequestStep
<1>2. QED
  BY <1>1, PpuInvariant, PTL DEF PpuSpec, NmiOnlyInBlank

-----------------------------------------------------------------------------
\* Distances on the frame: line l, dot d is l * CyclesPerLine + d dots from line 0.
LEMMA LinesAreMonotonic ==
  ASSUME NEW a \in Nat, NEW b \in Nat, a <= b
  PROVE  /\ a * CyclesPerLine \in Nat
         /\ b * CyclesPerLine \in Nat
         /\ a * CyclesPerLine <= b * CyclesPerLine
         /\ (a + 1) * CyclesPerLine = a * CyclesPerLine + CyclesPerLine
BY PpuConstants

\* DeadlineCoversVblank of every reachable state: the batch limit PpuCyclesToNMI is
\* late by at most one CPU cycle, for every frame geometry (ppu.c 129-142).
THEOREM DeadlineTheorem == PpuSpec => []DeadlineCoversVblank
<1>1. PpuInv => DeadlineCoversVblank
  <2> SUFFICES ASSUME PpuInv, AtRest
               PROVE  LET due == CeilDiv3(DotsToVblank)
                      IN  IF scanLine = VblankLine /\ dot = 2 THEN PpuCyclesToNMI = 0
                          ELSE due <= PpuCyclesToNMI /\ PpuCyclesToNMI <= due + 1
    BY DEF DeadlineCoversVblank
  <2> DEFINE here == scanLine * CyclesPerLine + dot
             there == VblankLine * CyclesPerLine + 2
  <2>1. dot \in 0..(CyclesPerLine - 1) /\ lastDot = dot /\ scanLine \in 0..VblankEndLine
    BY DEF PpuInv, TypeOK, ClockOK, AtRest
  <2>2. here \in Nat /\ there \in Nat /\ FrameDots \in Nat
    BY <2>1, PpuConstants DEF FrameDots, VblankLine, VblankEndLine
  <2>3. SkipAhead \in {0, 1}
    BY DEF SkipAhead
  <2>4. here = there <=> scanLine = VblankLine /\ dot = 2
    <3>1. CASE scanLine = VblankLine
      <4>1. \A p \in Int : p + dot = p + 2 <=> dot = 2
        BY <2>1
      <4>2. VblankLine * CyclesPerLine \in Int
        BY LinesAreMonotonic, PpuConstants DEF VblankLine
      <4>3. QED
        BY <3>1, <4>1, <4>2
    <3>2. CASE scanLine < VblankLine
      <4>1. (scanLine + 1) * CyclesPerLine <= VblankLine * CyclesPerLine
        BY <3>2, <2>1, LinesAreMonotonic, PpuConstants DEF VblankLine
      <4>2. QED
        BY <4>1, <3>2, <2>1, LinesAreMonotonic, PpuConstants DEF VblankLine
    <3>3. CASE scanLine > VblankLine
      <4>1. (VblankLine + 1) * CyclesPerLine <= scanLine * CyclesPerLine
        BY <3>3, <2>1, LinesAreMonotonic, PpuConstants DEF VblankLine
      <4>2. QED
        BY <4>1, <3>3, <2>1, LinesAreMonotonic, PpuConstants DEF VblankLine
    <3>4. QED
      BY <3>1, <3>2, <3>3, <2>1, PpuConstants DEF VblankLine
  <2>5. there <= FrameDots
    <3> DEFINE v == VblankLine
    <3>1. v \in Nat /\ v + 1 \in Nat /\ VblankEndLine \in Nat /\ v + 1 <= VblankEndLine
      BY PpuConstants DEF VblankLine, VblankEndLine
    <3> HIDE DEF v
    <3>2. /\ (v + 1) * CyclesPerLine <= FrameDots
          /\ (v + 1) * CyclesPerLine = v * CyclesPerLine + CyclesPerLine
          /\ v * CyclesPerLine \in Nat
      BY <3>1, LinesAreMonotonic DEF FrameDots
    <3>3. v * CyclesPerLine + 2 <= FrameDots
      BY <3>2, <2>2, PpuConstants
    <3>4. QED
      BY <3>3 DEF v
  <2>6. PpuCyclesToNMI = CeilDiv3(IF there - here < 0 THEN there - here + FrameDots
                                  ELSE there - here)
    BY DEF PpuCyclesToNMI
  <2>7. DotsToVblank = IF there - here > 0 THEN there - here
                       ELSE there - here + FrameDots - SkipAhead
    BY <2>1 DEF DotsToVblank
  <2> HIDE DEF here, there
  <2>8. QED
    BY <2>2, <2>3, <2>4, <2>5, <2>6, <2>7 DEF CeilDiv3
<1>2. QED
  BY <1>1, PpuInvariant, PTL

-----------------------------------------------------------------------------
(***************************************************************************)
(* The main loop.  No NMI is overdue and none meets another because neither *)
(* the time owed to the PPU nor the instructions up to the next poll reach *)
(* the next vertical blank: LoopInv counts both against RoomToVblank.  What *)
(* is not counted is a DMA that rendering holds up; of that HeldUp says    *)
(* that it cannot end before the vertical blank.                           *)
(***************************************************************************)

\* Dots to dot 2 of the vblank line, with the frame's odd dot left out whenever it may
\* still be: a bound that a $2001 write does not change.
RoomFrom(line, d) ==
  LET to == (VblankLine * CyclesPerLine + 2) - (line * CyclesPerLine + d)
      mayskip == line < PreRenderLine \/ (line = PreRenderLine /\ d <= OddSkipDot)
  IN  IF to > 0 THEN to ELSE to + FrameDots - (IF mayskip THEN 1 ELSE 0)

RoomToVblank == RoomFrom(scanLine, lastDot)

\* Dots that have passed for the CPU and not yet for the PPU.
Owed == dot - lastDot + 3 * lag

Place == IF pc = "sync" THEN ret ELSE pc
Running == pc \in {"sync", "dma"}

\* Cycles that may yet pass before the next poll when the loop is at p.
ToPoll(p) ==
  CASE p = "rest" -> RestCycles \cup {0}
    [] p = "access" -> {2 * DmaBytes + 2 + r : r \in RestCycles \cup {0}}
    [] p = "dma" -> {2 * dmaLeft + 2 + r : r \in RestCycles \cup {0}}
    [] p = "fetch" -> InsnLengths
    [] p \in {"irq", "nmi"} -> {EntryCycles + m : m \in InsnLengths}
    [] OTHER -> {0}

LoopOK ==
  /\ pc \in Places /\ ret \in {"poll", "fetch", "access", "rest"}
  /\ lag \in Nat /\ deadline \in Nat /\ dmaLeft \in Nat
  /\ Running \/ pc \in {"access", "rest"} => lag = 0

\* While no device runs, the PPU has caught up with what it was given, and the cycles
\* kept back are fewer than the deadline.
InTime ==
  ~Running => AtRest /\ deadline <= PpuCyclesToNMI /\ (lag = 0 \/ lag < deadline)

\* Rendering has made the running DMA start over.
Stalled == pc = "dma" /\ dmaHeld

\* Where the copy will end if nothing makes it start over, in dots from the start of the
\* line; and how far that is at least at the start of the line after one that did.
CopyEnd == dot + 6 * dmaLeft
CopyLeft == 6 * (DmaBytes - 1) + OamZeroBegin + 1 - CyclesPerLine

\* A DMA that rendering has made start over is made to again in every line up to the last
\* of the picture, and from there it lasts into the vertical blank.
HeldOn ==
  /\ rendering
  /\ scanLine < PostRenderLine \/ scanLine = VblankEndLine => CopyEnd >= CopyLeft
  /\ scanLine < PostRenderLine \/ scanLine = PreRenderLine =>
       (lastDot > OamZeroBegin => CopyEnd >= CopyLeft + CyclesPerLine)
  /\ scanLine = PostRenderLine => CopyEnd >= CopyLeft
  /\ scanLine = VblankLine => CopyEnd >= CopyLeft - CyclesPerLine

HeldUp ==
  /\ dmaHeld \in BOOLEAN
  /\ dmaHeld => Place \in {"dma", "rest", "poll"}
  /\ pc = "dma" => dot - lastDot <= 6
  /\ Stalled => HeldOn

\* A run of the devices goes past the next vblank by an instruction at most.
OverrunIsShort ==
  \A n \in ToPoll(Place) : \E m \in ToPoll("irq") : Owed + 3 * n <= RoomToVblank + 3 * m

\* There is one request at most unless a DMA has been held up, its enable bit was set, and
\* no new one while one is entered.
OneRequest ==
  /\ nmiSignal /\ nmiPending => dmaHeld
  /\ nmiPending => nmiEnabled
  /\ nmiSignal => nmiEnabled \/ Place \in {"rest", "poll"}
  /\ pc = "nmi" => ~nmiPending

\* A request is served before the next vblank can raise another: an armed one by the
\* next poll, a pending one by the poll after that.
ServedInTime ==
  ~Stalled =>
    /\ nmiSignal => \A n \in ToPoll(Place) : Owed + 3 * n < RoomToVblank
    /\ nmiPending => \A n \in ToPoll(Place), m \in ToPoll("irq") :
                       Owed + 3 * (n + m) < RoomToVblank

LoopInv == LoopOK /\ InTime /\ HeldUp /\ OverrunIsShort /\ OneRequest /\ ServedInTime

CpuInv == PpuInv /\ LoopInv

\* Which side of the vblank a place on the frame is.
LEMMA RoomCases ==
  ASSUME NEW l \in 0..VblankEndLine, NEW d \in 0..(CyclesPerLine - 1)
  PROVE  /\ l * CyclesPerLine \in Nat
         /\ (l + 1) * CyclesPerLine = l * CyclesPerLine + CyclesPerLine
         /\ VblankLine * CyclesPerLine \in Nat /\ FrameDots \in Nat
         /\ FrameDots >= VblankLine * CyclesPerLine + CyclesPerLine + CyclesPerLine
         /\ l < VblankLine =>
              /\ RoomFrom(l, d) = VblankLine * CyclesPerLine + 2 - (l * CyclesPerLine + d)
              /\ l * CyclesPerLine + CyclesPerLine <= VblankLine * CyclesPerLine
         /\ l = VblankLine /\ d <= 1 => RoomFrom(l, d) = 2 - d
         /\ l = VblankLine /\ d > 1 => RoomFrom(l, d) = 2 - d + FrameDots - 1
         /\ l > VblankLine =>
              /\ VblankLine * CyclesPerLine + CyclesPerLine <= l * CyclesPerLine
              /\ l * CyclesPerLine <= FrameDots
              /\ RoomFrom(l, d) =
                   VblankLine * CyclesPerLine + 2 - (l * CyclesPerLine + d) + FrameDots
                   - (IF l < PreRenderLine \/ (l = PreRenderLine /\ d <= OddSkipDot) THEN 1 ELSE 0)
<1> DEFINE v == VblankLine  e == VblankEndLine
<1>1. v \in Nat /\ v + 1 \in Nat /\ v + 2 \in Nat /\ e \in Nat /\ v + 2 <= e /\ l \in Nat /\ l <= e
  BY PpuConstants DEF VblankLine, VblankEndLine
<1>2. /\ l * CyclesPerLine \in Nat
      /\ (l + 1) * CyclesPerLine = l * CyclesPerLine + CyclesPerLine
      /\ l * CyclesPerLine <= e * CyclesPerLine
  BY <1>1, LinesAreMonotonic
<1>3. /\ v * CyclesPerLine \in Nat /\ e * CyclesPerLine \in Nat
      /\ (v + 1) * CyclesPerLine = v * CyclesPerLine + CyclesPerLine
      /\ (v + 2) * CyclesPerLine = v * CyclesPerLine + CyclesPerLine + CyclesPerLine
      /\ (v + 2) * CyclesPerLine <= e * CyclesPerLine
  <2>1. (v + 1) + 1 = v + 2
    BY <1>1
  <2>2. /\ v * CyclesPerLine \in Nat /\ e * CyclesPerLine \in Nat
        /\ (v + 1) * CyclesPerLine = v * CyclesPerLine + CyclesPerLine
        /\ (v + 2) * CyclesPerLine <= e * CyclesPerLine
    BY <1>1, LinesAreMonotonic
  <2>3. ((v + 1) + 1) * CyclesPerLine = (v + 1) * CyclesPerLine + CyclesPerLine
    BY <1>1, LinesAreMonotonic
  <2>4. QED
    BY <2>1, <2>2, <2>3
<1>4. l < v => l * CyclesPerLine + CyclesPerLine <= v * CyclesPerLine
  <2> SUFFICES ASSUME l < v PROVE (l + 1) * CyclesPerLine <= v * CyclesPerLine
    BY <1>2
  <2> QED
    BY <1>1, LinesAreMonotonic
<1>5. l > v => v * CyclesPerLine + CyclesPerLine <= l * CyclesPerLine
  <2> SUFFICES ASSUME l > v PROVE (v + 1) * CyclesPerLine <= l * CyclesPerLine
    BY <1>3
  <2> QED
    BY <1>1, LinesAreMonotonic
<1>6. CyclesPerLine \in Nat /\ CyclesPerLine > 4 /\ d \in Nat /\ d < CyclesPerLine
  BY PpuConstants
<1>7. FrameDots = e * CyclesPerLine /\ v < PreRenderLine
  BY PpuConstants DEF FrameDots, VblankLine
<1> DEFINE lc == l * CyclesPerLine  vc == v * CyclesPerLine  ec == e * CyclesPerLine
<1>8. RoomFrom(l, d) =
        IF (vc + 2) - (lc + d) > 0 THEN (vc + 2) - (lc + d)
        ELSE (vc + 2) - (lc + d) + ec
             - (IF l < PreRenderLine \/ (l = PreRenderLine /\ d <= OddSkipDot) THEN 1 ELSE 0)
  BY <1>7 DEF RoomFrom
<1>9. l = v => lc = vc
  OBVIOUS
<1> HIDE DEF v, e, lc, vc, ec
<1>10. /\ lc \in Nat /\ vc \in Nat /\ ec \in Nat /\ lc <= ec /\ vc + CyclesPerLine + CyclesPerLine <= ec
       /\ l < v => lc + CyclesPerLine <= vc
       /\ l > v => vc + CyclesPerLine <= lc
  BY <1>2, <1>3, <1>4, <1>5 DEF lc, vc, ec
<1>11. /\ l < v => RoomFrom(l, d) = vc + 2 - (lc + d)
       /\ l = v /\ d <= 1 => RoomFrom(l, d) = 2 - d
       /\ l = v /\ d > 1 => RoomFrom(l, d) = 2 - d + ec - 1
       /\ l > v => RoomFrom(l, d) = vc + 2 - (lc + d) + ec
                     - (IF l < PreRenderLine \/ (l = PreRenderLine /\ d <= OddSkipDot) THEN 1 ELSE 0)
  BY <1>1, <1>6, <1>7, <1>8, <1>9, <1>10
<1>12. QED
  BY <1>2, <1>3, <1>4, <1>5, <1>7, <1>10, <1>11 DEF v, e, lc, vc, ec

LEMMA RoomIsPositive ==
  ASSUME PpuInv
  PROVE  RoomToVblank \in Int /\ RoomToVblank > 0
<1>1. /\ scanLine \in 0..VblankEndLine /\ lastDot \in 0..(CyclesPerLine - 1)
      /\ scanLine = VblankEndLine => lastDot = 0
  BY DEF PpuInv, TypeOK, ClockOK
<1>2. scanLine > VblankLine => scanLine * CyclesPerLine + lastDot <= FrameDots
  <2>1. CASE scanLine = VblankEndLine
    BY <1>1, <2>1, RoomCases DEF FrameDots
  <2>2. CASE scanLine < VblankEndLine
    <3>1. (scanLine + 1) * CyclesPerLine <= VblankEndLine * CyclesPerLine
      BY <1>1, <2>2, LinesAreMonotonic, PpuConstants DEF VblankEndLine
    <3>2. QED
      BY <1>1, <3>1, RoomCases, PpuConstants DEF FrameDots
  <2>3. QED
    BY <1>1, <2>1, <2>2, PpuConstants DEF VblankEndLine
<1> QED
  BY <1>1, <1>2, RoomCases, PpuConstants DEF RoomToVblank, VblankLine, VblankEndLine

RoomIsLeft == RoomToVblank > 0

LEMMA RoomStaysPositive == PpuInv' => RoomIsLeft'
<1>1. PpuInv => RoomIsLeft
  BY RoomIsPositive DEF RoomIsLeft
<1>2. QED
  BY <1>1, PTL

LEMMA RoomIsInt ==
  ASSUME PpuInv'
  PROVE  dot' \in Nat /\ lastDot' \in Nat /\ RoomToVblank' \in Int
<1>1. /\ scanLine' \in 0..VblankEndLine /\ lastDot' \in 0..(CyclesPerLine - 1) /\ dot' \in Nat
  BY DEF PpuInv, TypeOK, ClockOK
<1>2. ASSUME NEW l \in 0..VblankEndLine, NEW d \in 0..(CyclesPerLine - 1)
      PROVE  RoomFrom(l, d) \in Int
  <2>1. l * CyclesPerLine \in Nat /\ VblankLine * CyclesPerLine \in Nat /\ FrameDots \in Nat
    BY RoomCases
  <2>2. QED
    BY <2>1 DEF RoomFrom
<1>3. QED
  BY <1>1, <1>2 DEF RoomToVblank

\* The tail of an iteration brings the PPU nearer to the vblank by no more dots than it
\* draws, or by one more when it leaves a dot out.
LEMMA FinishLineRoom ==
  ASSUME PpuInv, ~AtRest, scanLine < VblankEndLine, ~(scanLine = VblankLine /\ PassesDot1),
         NEW d \in Nat, FinishLine(d),
         \/ d = dot
         \/ d = dot + 1 /\ scanLine = PreRenderLine /\ lastDot <= OddSkipDot /\ dot > OddSkipDot
  PROVE  dot' - lastDot' - RoomToVblank' <= dot - lastDot - RoomToVblank
<1>1. /\ scanLine \in 0..VblankEndLine /\ lastDot \in 0..(CyclesPerLine - 1)
      /\ dot \in Nat /\ lastDot < dot
  BY DEF PpuInv, TypeOK, ClockOK, AtRest
<1>2. ~(scanLine = VblankLine /\ lastDot <= 1 /\ dot > 1)
  BY DEF PassesDot1
<1>3. RoomToVblank' = RoomFrom(scanLine', lastDot') /\ RoomToVblank = RoomFrom(scanLine, lastDot)
  BY DEF RoomToVblank
<1>4. CASE d < CyclesPerLine
  <2>1. scanLine' = scanLine /\ lastDot' = d /\ dot' = d /\ d \in 0..(CyclesPerLine - 1)
    BY <1>4, PpuConstants DEF FinishLine
  <2>2. CASE scanLine = VblankLine
    <3>1. \/ lastDot <= 1 /\ d <= 1
          \/ lastDot > 1 /\ d > 1
      BY <1>1, <1>2, <2>2, PpuConstants DEF VblankLine
    <3>2. d = dot
      BY <2>2, PpuConstants DEF VblankLine
    <3>3. QED
      BY <1>1, <1>3, <2>1, <2>2, <3>1, <3>2, RoomCases
  <2>3. CASE scanLine # VblankLine
    BY <1>1, <1>3, <2>1, <2>3, RoomCases, PpuConstants DEF VblankLine, VblankEndLine
  <2>4. QED
    BY <2>2, <2>3
<1>5. CASE d >= CyclesPerLine
  <2>1. scanLine' = scanLine + 1 /\ lastDot' = 0 /\ dot' = d - CyclesPerLine
    BY <1>5 DEF FinishLine
  <2>2. scanLine + 1 \in 0..VblankEndLine /\ 0 \in 0..(CyclesPerLine - 1)
    BY <1>1, PpuConstants DEF VblankEndLine
  <2>3. scanLine + 1 = VblankLine => RoomFrom(scanLine + 1, 0) = 2
    BY <2>2, RoomCases
  <2>4. scanLine = VblankLine => lastDot > 1 /\ scanLine + 1 < PreRenderLine
    BY <1>1, <1>2, <1>5, PpuConstants DEF VblankLine
  <2>5. CyclesPerLine \in Nat /\ FrameDots \in Nat /\ PreRenderLine \in Nat /\ d >= dot
    BY <1>1, RoomCases, PpuConstants
  <2> DEFINE lc == scanLine * CyclesPerLine  nc == (scanLine + 1) * CyclesPerLine
             vc == VblankLine * CyclesPerLine
  <2>6. lc \in Nat /\ vc \in Nat /\ nc = lc + CyclesPerLine
    BY <1>1, RoomCases
  <2>7. CASE scanLine < VblankLine
    <3>1. RoomToVblank = vc + 2 - (lc + lastDot) /\ d = dot
      BY <1>1, <1>3, <2>7, RoomCases, PpuConstants DEF VblankLine
    <3>2. RoomToVblank' = vc + 2 - nc
      BY <1>1, <1>3, <2>1, <2>2, <2>3, <2>7, RoomCases, PpuConstants DEF VblankLine
    <3> HIDE DEF lc, nc, vc
    <3>3. QED
      BY <1>1, <2>1, <2>5, <2>6, <3>1, <3>2
  <2>8. CASE scanLine >= VblankLine
    <3>1. \E s \in {0, 1} :
            /\ RoomToVblank = vc + 2 - (lc + lastDot) + FrameDots - s
            /\ s = 0 => d = dot
            /\ s = 1 <=> scanLine < PreRenderLine \/ (scanLine = PreRenderLine /\ lastDot <= OddSkipDot)
      <4>1. CASE scanLine = VblankLine
        BY <1>1, <1>3, <2>4, <4>1, RoomCases, PpuConstants DEF VblankLine
      <4>2. CASE scanLine > VblankLine
        BY <1>1, <1>3, <4>2, RoomCases, PpuConstants
      <4>3. QED
        BY <2>8, <4>1, <4>2, <1>1, PpuConstants DEF VblankLine
    <3>2. RoomToVblank' = vc + 2 - nc + FrameDots - (IF scanLine < PreRenderLine THEN 1 ELSE 0)
      <4>1. /\ scanLine + 1 > VblankLine
            /\ (scanLine + 1 < PreRenderLine \/ (scanLine + 1 = PreRenderLine /\ 0 <= OddSkipDot))
                 <=> scanLine < PreRenderLine
        BY <1>1, <2>8, PpuConstants DEF VblankLine
      <4>2. QED
        BY <1>3, <2>1, <2>2, <4>1, RoomCases
    <3>3. scanLine < PreRenderLine => d = dot
      BY <1>1, PpuConstants
    <3>4. PICK s \in {0, 1} :
            /\ RoomToVblank = vc + 2 - (lc + lastDot) + FrameDots - s
            /\ s = 0 => d = dot
            /\ s = 1 <=> scanLine < PreRenderLine \/ (scanLine = PreRenderLine /\ lastDot <= OddSkipDot)
      BY <3>1
    <3> HIDE DEF lc, nc, vc
    <3>5. dot' - lastDot' - RoomToVblank'
            = d - CyclesPerLine - (vc + 2 - nc + FrameDots - (IF scanLine < PreRenderLine THEN 1 ELSE 0))
      BY <2>1, <3>2, <2>5, <2>6
    <3>6. QED
      BY <1>1, <2>5, <2>6, <3>3, <3>4, <3>5
  <2>9. QED
    BY <1>1, <2>7, <2>8, PpuConstants DEF VblankLine
<1>6. QED
  BY <1>4, <1>5, PpuConstants

LEMMA LineStepRoom ==
  ASSUME PpuInv, LineStep
  PROVE  /\ ~(scanLine = VblankLine /\ PassesDot1) =>
              dot' - lastDot' - RoomToVblank' <= dot - lastDot - RoomToVblank
         /\ scanLine = VblankLine /\ PassesDot1 =>
              /\ RoomToVblank = 2 - lastDot
              /\ dot' - lastDot' - RoomToVblank' = dot - FrameDots - 1
<1>0. /\ scanLine \in 0..VblankEndLine /\ lastDot \in 0..(CyclesPerLine - 1)
      /\ dot \in Nat /\ lastDot <= dot
      /\ scanLine = VblankEndLine => lastDot = 0
  BY DEF PpuInv, TypeOK, ClockOK
<1>1. CASE VisibleLine \/ PostRender \/ VblankIdle
  <2>1. ~AtRest /\ scanLine < VblankEndLine /\ scanLine # VblankLine /\ FinishLine(dot)
    <3>1. /\ ~AtRest /\ FinishLine(dot)
          /\ \/ scanLine <= PostRenderLine
             \/ VblankLine < scanLine /\ scanLine < PreRenderLine
      <4>1. VisibleLine => ~AtRest /\ FinishLine(dot) /\ scanLine <= PostRenderLine
        BY <1>0, PpuConstants DEF VisibleLine
      <4>2. PostRender => ~AtRest /\ FinishLine(dot) /\ scanLine <= PostRenderLine
        BY <1>0, PpuConstants DEF PostRender
      <4>3. VblankIdle =>
              ~AtRest /\ FinishLine(dot) /\ VblankLine < scanLine /\ scanLine < PreRenderLine
        BY DEF VblankIdle
      <4>4. QED
        BY <1>1, <4>1, <4>2, <4>3
    <3>2. QED
      BY <1>0, <3>1, PpuConstants DEF VblankLine, VblankEndLine
  <2>2. QED
    BY <1>0, <2>1, FinishLineRoom
<1>2. CASE PreRender
  <2>1. ~AtRest /\ scanLine < VblankEndLine /\ scanLine # VblankLine /\ FinishLine(PreRenderDot)
    BY <1>2, PpuConstants DEF PreRender, VblankLine, VblankEndLine
  <2>2. /\ PreRenderDot \in Nat
        /\ \/ PreRenderDot = dot
           \/ /\ PreRenderDot = dot + 1 /\ scanLine = PreRenderLine
              /\ lastDot <= OddSkipDot /\ dot > OddSkipDot
    BY <1>0, <1>2 DEF PreRenderDot, PreRender
  <2>3. QED
    BY <2>1, <2>2, FinishLineRoom
<1>3. CASE VblankStart
  <2>1. ~AtRest /\ scanLine = VblankLine /\ scanLine < VblankEndLine /\ FinishLine(dot)
    BY <1>3, PpuConstants DEF VblankStart, VblankLine, VblankEndLine
  <2>2. CASE ~PassesDot1
    BY <1>0, <2>1, <2>2, FinishLineRoom
  <2>3. CASE PassesDot1
    <3>1. lastDot <= 1 /\ dot > 1
      BY <2>3 DEF PassesDot1
    <3>2. RoomToVblank = 2 - lastDot
      BY <1>0, <2>1, <3>1, RoomCases DEF RoomToVblank
    <3>3. CASE dot < CyclesPerLine
      <4>1. scanLine' = VblankLine /\ lastDot' = dot /\ dot' = dot /\ dot \in 0..(CyclesPerLine - 1)
        BY <1>0, <2>1, <3>3, PpuConstants DEF FinishLine
      <4>2. RoomToVblank' = 2 - dot + FrameDots - 1
        BY <1>0, <2>1, <3>1, <4>1, RoomCases DEF RoomToVblank
      <4>3. QED
        BY <1>0, <2>1, <2>3, <3>2, <4>1, <4>2, RoomCases
    <3>4. CASE dot >= CyclesPerLine
      <4>1. scanLine' = VblankLine + 1 /\ lastDot' = 0 /\ dot' = dot - CyclesPerLine
        BY <2>1, <3>4 DEF FinishLine
      <4>2. /\ VblankLine + 1 \in 0..VblankEndLine /\ 0 \in 0..(CyclesPerLine - 1)
            /\ VblankLine + 1 > VblankLine /\ VblankLine + 1 < PreRenderLine
        BY PpuConstants DEF VblankLine, VblankEndLine
      <4>3. RoomToVblank' = VblankLine * CyclesPerLine + 2
                            - (VblankLine + 1) * CyclesPerLine + FrameDots - 1
        BY <4>1, <4>2, RoomCases DEF RoomToVblank
      <4>4. /\ (VblankLine + 1) * CyclesPerLine = VblankLine * CyclesPerLine + CyclesPerLine
            /\ VblankLine * CyclesPerLine \in Nat /\ FrameDots \in Nat /\ CyclesPerLine \in Nat
        BY <1>0, <2>1, RoomCases, PpuConstants
      <4>5. RoomToVblank' = 2 - CyclesPerLine + FrameDots - 1
        BY <4>3, <4>4
      <4>6. QED
        BY <1>0, <2>1, <2>3, <3>2, <4>1, <4>4, <4>5
    <3>5. QED
      BY <1>0, <3>3, <3>4, PpuConstants
  <2>4. QED
    BY <2>2, <2>3
<1>4. CASE VblankEnd
  <2>1. /\ scanLine = VblankEndLine /\ scanLine' = 0 /\ lastDot' = lastDot /\ dot' = dot
        /\ lastDot = 0 /\ scanLine # VblankLine
    BY <1>0, <1>4, PpuConstants DEF VblankEnd, VblankLine, VblankEndLine
  <2>2. 0 \in 0..VblankEndLine /\ 0 < VblankLine /\ VblankEndLine > VblankLine
    BY PpuConstants DEF VblankLine, VblankEndLine
  <2>3. RoomToVblank' = VblankLine * CyclesPerLine + 2
    <3>1. 0 * CyclesPerLine = 0
      BY PpuConstants
    <3>2. QED
      BY <1>0, <2>1, <2>2, <3>1, RoomCases DEF RoomToVblank
  <2>4. RoomToVblank = VblankLine * CyclesPerLine + 2
    BY <1>0, <2>1, <2>2, RoomCases, PpuConstants DEF RoomToVblank, FrameDots, VblankEndLine
  <2>5. QED
    BY <1>0, <2>1, <2>3, <2>4
<1>5. QED
  BY <1>1, <1>2, <1>3, <1>4 DEF LineStep

\* The deadline is never late: cycles kept back up to it leave room.
LEMMA DeadlineLeavesRoom ==
  ASSUME PpuInv, AtRest
  PROVE  /\ PpuCyclesToNMI \in Nat
         /\ \A c \in Nat : c < PpuCyclesToNMI => 3 * c <= RoomToVblank
<1>1. /\ scanLine \in 0..VblankEndLine /\ lastDot \in 0..(CyclesPerLine - 1) /\ dot = lastDot
  BY DEF PpuInv, TypeOK, ClockOK, AtRest
<1> DEFINE dist == (VblankLine * CyclesPerLine + 2) - (scanLine * CyclesPerLine + dot)
<1>2. dist \in Int /\ FrameDots \in Nat
  BY <1>1, RoomCases
<1>3. RoomToVblank \in Int /\ RoomToVblank > 0
  BY RoomIsPositive
<1>4. PpuCyclesToNMI = CeilDiv3(IF dist < 0 THEN dist + FrameDots ELSE dist)
  BY DEF PpuCyclesToNMI
<1>5. \E s \in {0, 1} : RoomToVblank = IF dist > 0 THEN dist ELSE dist + FrameDots - s
  BY <1>1 DEF RoomToVblank, RoomFrom
<1> HIDE DEF dist
<1>6. QED
  BY <1>2, <1>3, <1>4, <1>5 DEF CeilDiv3

LEMMA RoomBelowDistance ==
  ASSUME PpuInv
  PROVE  RoomToVblank <= DotsToVblank
<1>1. /\ scanLine \in 0..VblankEndLine /\ lastDot \in 0..(CyclesPerLine - 1)
  BY DEF PpuInv, TypeOK, ClockOK
<1> DEFINE dist == (VblankLine * CyclesPerLine + 2) - (scanLine * CyclesPerLine + lastDot)
<1>2. dist \in Int /\ FrameDots \in Nat
  BY <1>1, RoomCases
<1>3. DotsToVblank = IF dist > 0 THEN dist ELSE dist + FrameDots - SkipAhead
  BY DEF DotsToVblank
<1>4. RoomToVblank = IF dist > 0 THEN dist
                     ELSE dist + FrameDots
                          - (IF scanLine < PreRenderLine
                                \/ (scanLine = PreRenderLine /\ lastDot <= OddSkipDot) THEN 1 ELSE 0)
  BY DEF RoomToVblank, RoomFrom
<1> HIDE DEF dist
<1>5. QED
  BY <1>2, <1>3, <1>4 DEF SkipAhead

-----------------------------------------------------------------------------
\* The main loop runs the PPU for any number of cycles; otherwise it does to it what
\* PpuNext allows.
LEMMA TicksInv ==
  ASSUME PpuInv, NEW n \in Nat, Ticks(n)
  PROVE  PpuInv'
<1>1. FlagsOK'
  BY Zenon DEF PpuInv, TypeOK, FlagsOK, Ticks, statusVars, regVars
<1>2. ClockOK' /\ Windows'
  BY DEF PpuInv, TypeOK, ClockOK, Windows, VblankFlagInBlank, InBlank, RaceMarkIsFresh,
     ShownOncePerFrame, Ticks, AtRest, statusVars, regVars
<1>3. QED
  BY <1>1, <1>2 DEF PpuInv, TypeOK

LEMMA CpuInitInv == CpuInit => CpuInv
<1> SUFFICES ASSUME CpuInit PROVE CpuInv
  OBVIOUS
<1>1. PpuInv
  BY PpuInitInv DEF CpuInit
<1>2. /\ pc = "poll" /\ ret = "poll" /\ lag = 0 /\ deadline = 0 /\ dmaLeft = 0
      /\ nmiSignal = FALSE /\ nmiPending = FALSE /\ dot = 0 /\ lastDot = 0 /\ dmaHeld = FALSE
  BY DEF CpuInit, PpuInit
<1>3. LoopOK
  BY <1>2 DEF LoopOK, Running, Places
<1>4. InTime
  BY <1>1, <1>2, DeadlineLeavesRoom DEF InTime, AtRest
<1>5. OverrunIsShort
  <2>1. ToPoll(Place) = {0} /\ Owed = 0
    BY <1>2 DEF Place, ToPoll, Owed
  <2>2. 0 \in InsnLengths /\ EntryCycles \in Nat
    BY CpuConstants DEF InsnLengths
  <2>3. EntryCycles + 0 \in ToPoll("irq")
    BY <2>2 DEF ToPoll
  <2>4. RoomToVblank \in Int /\ RoomToVblank > 0
    BY <1>1, RoomIsPositive
  <2>5. QED
    BY <2>1, <2>2, <2>3, <2>4 DEF OverrunIsShort
<1>6. HeldUp /\ OneRequest /\ ServedInTime
  BY <1>2 DEF HeldUp, Stalled, OneRequest, ServedInTime
<1>7. QED
  BY <1>1, <1>3, <1>4, <1>5, <1>6 DEF CpuInv, LoopInv

LEMMA CpuPpuStep ==
  ASSUME CpuInv, [CpuNext]_nmiVars
  PROVE  PpuInv'
<1>1. PpuInv /\ LoopOK
  BY DEF CpuInv, LoopInv
<1>2. ASSUME NEW n \in Nat, Ticks(n) PROVE PpuInv'
  BY <1>1, <1>2, TicksInv
<1>3. ASSUME NEW next, NEW c \in Nat, CpuTick(c, next) \/ SyncDevices(lag + c, next) PROVE PpuInv'
  <2>1. CASE SyncDevices(lag + c, next)
    BY <1>1, <1>2, <2>1 DEF SyncDevices, LoopOK
  <2>2. CASE UNCHANGED ppuVars
    BY <1>1, <2>2, PpuStepInv
  <2>3. QED
    BY <1>3, <2>1, <2>2 DEF CpuTick
<1>4. CASE UNCHANGED ppuVars
  BY <1>1, <1>4, PpuStepInv
<1>5. CASE PpuNext
  BY <1>1, <1>5, PpuStepInv
<1> USE CpuConstants
<1>6. CASE PpuStep
  BY <1>5, <1>6 DEF PpuStep, PpuNext
<1>7. CASE SyncDone
  BY <1>4, <1>7 DEF SyncDone
<1>8. CASE PollNMI
  BY <1>5, <1>8 DEF PollNMI, PpuNext
<1>9. CASE EnterNMI
  BY <1>3, <1>9 DEF EnterNMI
<1>10. CASE CheckIRQ
  BY <1>3, <1>4, <1>10 DEF CheckIRQ
<1>11. CASE PlainInsn
  BY <1>3, <1>11 DEF PlainInsn
<1>12. CASE ReachRegister
  BY <1>3, <1>12 DEF ReachRegister
<1>13. CASE ReadRegister
  BY <1>5, <1>13 DEF ReadRegister, PpuNext
<1>14. CASE WriteRegister
  BY <1>5, <1>14 DEF WriteRegister, PpuNext
<1>15. CASE DmaWrite
  BY <1>4, <1>15 DEF DmaWrite
<1>16. CASE DmaByte
  BY <1>2, <1>16 DEF DmaByte
<1>17. CASE DmaEnd
  BY <1>2, <1>17 DEF DmaEnd, SyncDevices
<1>18. CASE EndInsn
  BY <1>3, <1>18 DEF EndInsn
<1>19. QED
  BY <1>4, <1>6, <1>7, <1>8, <1>9, <1>10, <1>11, <1>12, <1>13, <1>14, <1>15, <1>16, <1>17, <1>18
  DEF CpuNext, nmiVars

-----------------------------------------------------------------------------
\* Cycles that a step of the loop takes are cycles that could still pass before.
LEMMA ToPollSums ==
  ASSUME LoopOK
  PROVE  /\ \A p : \A n \in ToPoll(p) : n \in Nat
         /\ ToPoll("poll") = {0}
         /\ ToPoll("nmi") = ToPoll("irq")
         /\ \A n \in ToPoll("fetch") : EntryCycles + n \in ToPoll("irq")
         /\ \A c \in InsnCycles : c \in ToPoll("fetch")
         /\ \A k \in AccessCycles \cup {0}, n \in ToPoll("access") : k + n \in ToPoll("fetch")
         /\ \A r \in RestCycles : r \in ToPoll("rest")
         /\ \A n \in ToPoll("rest") : /\ n + 2 * DmaBytes + 2 \in ToPoll("access")
                                     /\ n + 2 * dmaLeft + 2 \in ToPoll("dma")
<1> USE CpuConstants
<1>1. \A n \in InsnLengths : n \in Nat
  BY DEF InsnLengths
<1>2. dmaLeft \in Nat
  BY DEF LoopOK
<1>3. \A p : \A n \in ToPoll(p) : n \in Nat
  BY <1>1, <1>2 DEF ToPoll
<1>4. /\ ToPoll("poll") = {0} /\ ToPoll("nmi") = ToPoll("irq")
      /\ \A n \in ToPoll("fetch") : EntryCycles + n \in ToPoll("irq")
  BY DEF ToPoll
<1>5. /\ \A c \in InsnCycles : c \in ToPoll("fetch")
      /\ \A r \in RestCycles : r \in ToPoll("rest")
  BY DEF ToPoll, InsnLengths
<1>6. ASSUME NEW k \in AccessCycles \cup {0}, NEW n \in ToPoll("access")
      PROVE  k + n \in ToPoll("fetch")
  <2>1. PICK r \in RestCycles \cup {0} : n = 2 * DmaBytes + 2 + r
    BY <1>6 DEF ToPoll
  <2>2. k + n = k + 2 * DmaBytes + 2 + r
    BY <2>1
  <2>3. QED
    BY <2>2 DEF ToPoll, InsnLengths
<1>7. ASSUME NEW n \in ToPoll("rest")
      PROVE  n + 2 * DmaBytes + 2 \in ToPoll("access") /\ n + 2 * dmaLeft + 2 \in ToPoll("dma")
  <2>1. n \in RestCycles \cup {0}
    BY <1>7 DEF ToPoll
  <2>2. n + 2 * DmaBytes + 2 = 2 * DmaBytes + 2 + n /\ n + 2 * dmaLeft + 2 = 2 * dmaLeft + 2 + n
    BY <1>2, <2>1
  <2>3. QED
    BY <2>1, <2>2 DEF ToPoll
<1>8. QED
  BY <1>3, <1>4, <1>5, <1>6, <1>7

\* CpuTick and CpuSyncDevices pass their cycles on.
LEMMA CyclesArePassed ==
  ASSUME CpuInv, ~Running, NEW c \in Nat, NEW next \in {"poll", "fetch", "access", "rest"},
         CpuTick(c, next) \/ SyncDevices(lag + c, next)
  PROVE  /\ Owed' = Owed + 3 * c /\ Place' = next
         /\ UNCHANGED <<RoomToVblank, nmiSignal, nmiPending, nmiEnabled, dmaLeft>>
<1>1. lag \in Nat /\ dot \in Nat /\ dot = lastDot
  BY DEF CpuInv, LoopInv, LoopOK, InTime, AtRest, PpuInv, TypeOK, ClockOK
<1>2. CASE SyncDevices(lag + c, next)
  BY <1>1, <1>2
  DEF SyncDevices, Ticks, Owed, Place, RoomToVblank, clockVars, statusVars, regVars
<1>3. CASE lag' = lag + c /\ pc' = next /\ UNCHANGED <<ppuVars, ret, deadline, dmaLeft, dmaHeld>>
  BY <1>1, <1>3 DEF Owed, Place, RoomToVblank, ppuVars, clockVars, statusVars, regVars
<1>4. QED
  BY <1>2, <1>3 DEF CpuTick

\* Between polls, the steps of the loop do not come nearer to a vblank: what they owe and
\* what may follow was counted before.
LoopStep ==
  \/ SyncDone \/ EnterNMI \/ CheckIRQ \/ PlainInsn \/ ReachRegister \/ ReadRegister
  \/ WriteRegister \/ DmaWrite \/ DmaByte \/ DmaEnd \/ EndInsn

NoNearer ==
  /\ RoomToVblank' = RoomToVblank
  /\ \A n \in ToPoll(Place)' :
       n \in Nat /\ \E b \in ToPoll(Place) : Owed' + 3 * n <= Owed + 3 * b

LEMMA LoopStepNoNearer ==
  ASSUME CpuInv, LoopStep
  PROVE  NoNearer
<1>0. /\ lag \in Nat /\ dot \in Nat /\ lastDot \in Nat /\ dmaLeft \in Nat /\ LoopOK
      /\ Owed \in Int
  BY DEF CpuInv, LoopInv, LoopOK, PpuInv, TypeOK, ClockOK, Owed
<1> USE CpuConstants, ToPollSums
<1>1. ASSUME NEW next \in {"poll", "fetch", "access", "rest"}
      PROVE  ToPoll(next)' = ToPoll(next)
  BY DEF ToPoll
<1>2. ASSUME ~Running, NEW c \in Nat, NEW next \in {"poll", "fetch", "access", "rest"},
             CpuTick(c, next) \/ SyncDevices(lag + c, next),
             \A n \in ToPoll(next) : \E b \in ToPoll(pc) : c + n <= b
      PROVE  NoNearer
  <2>1. /\ Owed' = Owed + 3 * c /\ Place' = next /\ RoomToVblank' = RoomToVblank
    BY <1>2, CyclesArePassed
  <2>2. Place = pc /\ ToPoll(Place)' = ToPoll(next)
    BY <1>1, <1>2, <2>1 DEF Running, Place
  <2>3. ASSUME NEW n \in ToPoll(next)
        PROVE  n \in Nat /\ \E b \in ToPoll(Place) : Owed' + 3 * n <= Owed + 3 * b
    <3>1. PICK b \in ToPoll(pc) : c + n <= b
      BY <1>2, <2>3
    <3>2. b \in Nat /\ n \in Nat
      BY <1>0, <2>3, <3>1
    <3>3. QED
      BY <1>0, <2>1, <2>2, <3>1, <3>2
  <2>4. QED
    BY <2>1, <2>2, <2>3 DEF NoNearer
<1>3. ASSUME UNCHANGED <<scanLine, dot, lastDot, lag>>,
             \A n \in ToPoll(Place)' : n \in Nat /\ \E b \in ToPoll(Place) : n <= b
      PROVE  NoNearer
  <2>1. Owed' = Owed /\ RoomToVblank' = RoomToVblank
    BY <1>3 DEF Owed, RoomToVblank
  <2>2. ASSUME NEW n \in ToPoll(Place)'
        PROVE  n \in Nat /\ \E b \in ToPoll(Place) : Owed' + 3 * n <= Owed + 3 * b
    <3>1. PICK b \in ToPoll(Place) : n <= b
      BY <1>3, <2>2
    <3>2. b \in Nat /\ n \in Nat
      BY <1>0, <1>3, <2>2, <3>1
    <3>3. QED
      BY <1>0, <2>1, <3>1, <3>2
  <2>3. QED
    BY <2>1, <2>2 DEF NoNearer
<1>4. CASE SyncDone
  <2>1. Place' = Place /\ Place \in {"poll", "fetch", "access", "rest"}
    BY <1>0, <1>4 DEF SyncDone, Place, LoopOK
  <2>2. UNCHANGED <<scanLine, dot, lastDot, lag>> /\ ToPoll(Place)' = ToPoll(Place)
    BY <1>1, <1>4, <2>1 DEF SyncDone, ppuVars, clockVars
  <2>3. QED
    BY <1>0, <1>3, <2>2
<1>5. CASE EnterNMI
  BY <1>0, <1>2, <1>5 DEF EnterNMI, Running
<1>6. CASE CheckIRQ
  <2>1. CASE CpuTick(EntryCycles, "fetch")
    BY <1>0, <1>2, <1>6, <2>1 DEF CheckIRQ, Running
  <2>2. CASE pc' = "fetch" /\ UNCHANGED <<ppuVars, ret, lag, deadline, dmaLeft, dmaHeld>>
    <3>1. Place = "irq" /\ ToPoll(Place)' = ToPoll("fetch")
      BY <1>1, <1>6, <2>2 DEF CheckIRQ, Place
    <3>2. UNCHANGED <<scanLine, dot, lastDot, lag>>
      BY <2>2 DEF ppuVars, clockVars
    <3>3. \A n \in ToPoll("fetch") : n \in Nat /\ EntryCycles + n \in ToPoll("irq") /\ n <= EntryCycles + n
      BY <1>0
    <3>4. QED
      BY <1>3, <3>1, <3>2, <3>3
  <2>3. QED
    BY <1>6, <2>1, <2>2 DEF CheckIRQ
<1>7. CASE PlainInsn
  <2>1. PICK c \in InsnCycles : CpuTick(c, "poll")
    BY <1>7 DEF PlainInsn
  <2>2. c \in Nat /\ c \in ToPoll("fetch") /\ c + 0 <= c
    BY <1>0
  <2>3. QED
    BY <1>0, <1>2, <1>7, <2>1, <2>2 DEF PlainInsn, Running
<1>8. CASE ReachRegister
  <2>1. PICK k \in AccessCycles : SyncDevices(lag + k, "access")
    BY <1>8 DEF ReachRegister
  <2>2. \A n \in ToPoll("access") : n \in Nat /\ k + n \in ToPoll("fetch") /\ k + n <= k + n
    BY <1>0
  <2>3. QED
    BY <1>0, <1>2, <1>8, <2>1, <2>2 DEF ReachRegister, Running
<1>9. CASE ReadRegister \/ WriteRegister
  <2>1. pc = "access" /\ pc' = "rest" /\ UNCHANGED <<scanLine, dot, lastDot, lag>>
    BY <1>9
    DEF ReadRegister, WriteRegister, StatusRead, CtrlWrite, MaskWrite, clockVars
  <2>2. Place = "access" /\ ToPoll(Place)' = ToPoll("rest")
    BY <1>1, <2>1 DEF Place
  <2>3. \A n \in ToPoll("rest") :
          n \in Nat /\ n + 2 * DmaBytes + 2 \in ToPoll("access") /\ n <= n + 2 * DmaBytes + 2
    BY <1>0
  <2>4. QED
    BY <1>3, <2>1, <2>2, <2>3
<1>10. CASE DmaWrite
  <2>1. /\ Place = "access" /\ Place' = "dma" /\ dmaLeft' = DmaBytes
        /\ UNCHANGED <<scanLine, dot, lastDot, lag>>
    BY <1>10 DEF DmaWrite, Place, ppuVars, clockVars
  <2>2. ToPoll(Place)' = ToPoll("access")
    BY <2>1 DEF ToPoll
  <2>3. \A n \in ToPoll("access") : n \in Nat /\ n <= n
    BY <1>0
  <2>4. QED
    BY <1>3, <2>1, <2>2, <2>3
<1>11. CASE DmaByte
  <2>1. /\ Place = "dma" /\ Place' = "dma" /\ dmaLeft' = dmaLeft - 1
        /\ dot = lastDot /\ dot' = dot + 3 * 2 /\ UNCHANGED <<scanLine, lastDot, lag>>
    BY <1>11 DEF DmaByte, Ticks, Place, AtRest
  <2>2. Owed' = Owed + 3 * 2 /\ RoomToVblank' = RoomToVblank
    BY <1>0, <2>1 DEF Owed, RoomToVblank
  <2>3. ASSUME NEW n \in ToPoll(Place)'
        PROVE  n \in Nat /\ \E b \in ToPoll(Place) : Owed' + 3 * n <= Owed + 3 * b
    <3>1. PICK r \in RestCycles \cup {0} : n = 2 * (dmaLeft - 1) + 2 + r
      BY <2>1, <2>3 DEF ToPoll
    <3>2. r \in ToPoll("rest")
      BY DEF ToPoll
    <3>3. r + 2 * dmaLeft + 2 \in ToPoll("dma") /\ r \in Nat
      BY <1>0, <3>2
    <3>4. QED
      BY <1>0, <2>1, <2>2, <3>1, <3>3
  <2>4. QED
    BY <2>2, <2>3 DEF NoNearer
<1>12. CASE DmaEnd
  <2>1. PICK odd \in {0, 1} : SyncDevices(1 + odd, "rest")
    BY <1>12 DEF DmaEnd
  <2>2. /\ Place = "dma" /\ Place' = "rest" /\ dmaLeft = 0
        /\ dot = lastDot /\ dot' = dot + 3 * (1 + odd) /\ lag' = 0 /\ UNCHANGED <<scanLine, lastDot>>
    BY <1>12, <2>1 DEF DmaEnd, SyncDevices, Ticks, Place, AtRest
  <2>3. Owed' <= Owed + 3 * 2 /\ Owed' \in Int /\ RoomToVblank' = RoomToVblank
    BY <1>0, <2>2 DEF Owed, RoomToVblank
  <2>4. ASSUME NEW n \in ToPoll("rest")
        PROVE  n \in Nat /\ \E b \in ToPoll(Place) : Owed' + 3 * n <= Owed + 3 * b
    <3>1. n \in Nat /\ n + 2 \in ToPoll(Place)
      <4>1. n \in Nat /\ n + 2 * dmaLeft + 2 \in ToPoll("dma")
        BY <1>0, <2>4
      <4>2. QED
        BY <2>2, <4>1
    <3>2. Owed' + 3 * n <= Owed + 3 * (n + 2)
      <4>1. \A a, b \in Int : a <= b + 3 * 2 => a + 3 * n <= b + 3 * (n + 2)
        BY <3>1
      <4>2. QED
        BY <1>0, <2>3, <4>1
    <3>3. QED
      BY <3>1, <3>2
  <2>5. ToPoll(Place)' = ToPoll("rest")
    BY <1>1, <2>2
  <2>6. QED
    BY <2>3, <2>4, <2>5 DEF NoNearer
<1>13. CASE EndInsn
  <2>1. PICK r \in RestCycles : CpuTick(r, "poll")
    BY <1>13 DEF EndInsn
  <2>2. r \in Nat /\ r \in ToPoll("rest") /\ r + 0 <= r
    BY <1>0
  <2>3. QED
    BY <1>0, <1>2, <1>13, <2>1, <2>2 DEF EndInsn, Running
<1>14. QED
  BY <1>4, <1>5, <1>6, <1>7, <1>8, <1>9, <1>10, <1>11, <1>12, <1>13 DEF LoopStep

-----------------------------------------------------------------------------
\* Where the NMI flags can change.
LEMMA LineStepFlags ==
  ASSUME LineStep
  PROVE  /\ ~AtRest /\ nmiEnabled' = nmiEnabled
         /\ \/ UNCHANGED <<nmiSignal, nmiPending>>
            \/ scanLine = VblankLine /\ PassesDot1 /\ EnterVblank
<1>1. CASE VisibleLine \/ PostRender \/ VblankIdle \/ PreRender \/ VblankEnd
  BY <1>1, Zenon DEF VisibleLine, PostRender, VblankIdle, PreRender, VblankEnd, statusVars, regVars
<1>2. CASE VblankStart
  BY <1>2, Zenon DEF VblankStart, SuppressVblank, statusVars, regVars
<1>3. QED
  BY <1>1, <1>2 DEF LineStep

\* A step of the PPU inside a DMA may make that start over.
Restart == pc = "dma" /\ ZeroesOamAddr /\ dmaLeft' = DmaBytes - 1 /\ dmaHeld' = TRUE

LEMMA PpuStepCases ==
  ASSUME PpuStep
  PROVE  /\ LineStep /\ UNCHANGED <<pc, ret, lag, deadline>> /\ Place' = Place
         /\ \/ UNCHANGED <<dmaLeft, dmaHeld>> /\ ~(pc = "dma" /\ ZeroesOamAddr)
            \/ Restart /\ dmaLeft' \in Nat
<1>1. LineStep /\ UNCHANGED <<pc, ret, lag, deadline>>
  BY DEF PpuStep
<1>2. (UNCHANGED <<dmaLeft, dmaHeld>> /\ ~(pc = "dma" /\ ZeroesOamAddr)) \/ Restart
  BY DEF PpuStep, Restart
<1>3. DmaBytes - 1 \in Nat
  BY CpuConstants
<1>4. QED
  BY <1>1, <1>2, <1>3 DEF Restart, Place

\* The loop's own variables stay in their ranges, and cycles are kept back only up to a
\* deadline that the PPU has told.
LEMMA LoopOKStep ==
  ASSUME CpuInv, [CpuNext]_nmiVars
  PROVE  LoopOK' /\ InTime'
<1>0. /\ LoopOK /\ InTime
      /\ lag \in Nat /\ deadline \in Nat /\ dmaLeft \in Nat
  BY DEF CpuInv, LoopInv, LoopOK
<1>a. ~Running => AtRest /\ PpuCyclesToNMI \in Nat
  BY DeadlineLeavesRoom DEF CpuInv, LoopInv, InTime
<1>b. AtRest => PpuCyclesToNMI \in Nat
  BY DeadlineLeavesRoom DEF CpuInv
<1> USE CpuConstants DEF Running, Places
<1>1. ASSUME ~Running, NEW c \in Nat, NEW next \in {"poll", "fetch"},
             CpuTick(c, next)
      PROVE  LoopOK' /\ InTime'
  <2>1. CASE SyncDevices(lag + c, next)
    BY <1>0, <1>1, <2>1 DEF SyncDevices, LoopOK, InTime
  <2>2. CASE /\ c = 0 \/ lag + c < deadline
             /\ lag' = lag + c /\ pc' = next /\ UNCHANGED <<ppuVars, ret, deadline, dmaLeft, dmaHeld>>
    BY <1>0, <1>1, <2>2
    DEF LoopOK, InTime, AtRest, PpuCyclesToNMI, CeilDiv3, ppuVars, clockVars
  <2>3. QED
    BY <1>1, <2>1, <2>2 DEF CpuTick
<1>2. ASSUME AtRest, lag = 0, lag' = 0, UpdateSyncDeadline, UNCHANGED <<scanLine, dot, lastDot>>,
             pc' \in Places \ {"sync", "dma"}, UNCHANGED <<ret, dmaLeft>>
      PROVE  LoopOK' /\ InTime'
  <2>1. PpuCyclesToNMI' = PpuCyclesToNMI /\ PpuCyclesToNMI \in Nat
    BY <1>b, <1>2 DEF PpuCyclesToNMI, CeilDiv3
  <2>2. deadline' \in Nat /\ deadline' <= PpuCyclesToNMI
    BY <1>2, <2>1 DEF UpdateSyncDeadline
  <2>3. QED
    BY <1>0, <1>2, <2>1, <2>2 DEF LoopOK, InTime, AtRest
<1>3. ASSUME ~Running, UNCHANGED <<scanLine, dot, lastDot, ret, lag, deadline, dmaLeft>>,
             pc' \in Places, pc' \in {"access", "rest"} => lag = 0, pc' # "sync", pc' = "dma" => lag = 0
      PROVE  LoopOK' /\ InTime'
  <2>1. PpuCyclesToNMI' = PpuCyclesToNMI
    BY <1>3 DEF PpuCyclesToNMI, CeilDiv3
  <2>2. QED
    BY <1>0, <1>3, <2>1 DEF LoopOK, InTime, AtRest
<1>4. CASE PpuStep
  <2>1. ~AtRest /\ UNCHANGED <<pc, ret, lag, deadline>> /\ dmaLeft' \in Nat
    BY <1>0, <1>4, PpuStepCases, LineStepFlags DEF Restart
  <2>2. QED
    BY <1>0, <2>1 DEF LoopOK, InTime
<1>5. CASE SyncDone
  BY <1>0, <1>2, <1>5 DEF SyncDone, LoopOK, ppuVars, clockVars
<1>6. CASE PollNMI
  BY <1>3, <1>6 DEF PollNMI, CheckNMI, clockVars
<1>7. CASE EnterNMI
  BY <1>1, <1>7 DEF EnterNMI
<1>8. CASE CheckIRQ
  <2>1. CASE CpuTick(EntryCycles, "fetch")
    BY <1>1, <1>8, <2>1 DEF CheckIRQ
  <2>2. CASE pc' = "fetch" /\ UNCHANGED <<ppuVars, ret, lag, deadline, dmaLeft, dmaHeld>>
    BY <1>3, <1>8, <2>2 DEF CheckIRQ, ppuVars, clockVars
  <2>3. QED
    BY <1>8, <2>1, <2>2 DEF CheckIRQ
<1>9. CASE PlainInsn
  BY <1>1, <1>9 DEF PlainInsn
<1>10. CASE ReachRegister
  BY <1>0, <1>10 DEF ReachRegister, SyncDevices, LoopOK, InTime
<1>11. CASE ReadRegister
  BY <1>0, <1>3, <1>11 DEF ReadRegister, StatusRead, clockVars, LoopOK
<1>12. CASE WriteRegister
  <2>1. AtRest /\ UNCHANGED <<scanLine, dot, lastDot>>
    BY <1>12 DEF WriteRegister, CtrlWrite, MaskWrite, clockVars
  <2>2. QED
    BY <1>0, <1>2, <1>12, <2>1 DEF WriteRegister, LoopOK
<1>13. CASE DmaWrite
  BY <1>0, <1>13 DEF DmaWrite, LoopOK, InTime
<1>14. CASE DmaByte
  BY <1>0, <1>14 DEF DmaByte, LoopOK, InTime
<1>15. CASE DmaEnd
  BY <1>0, <1>15 DEF DmaEnd, SyncDevices, LoopOK, InTime
<1>16. CASE EndInsn
  BY <1>1, <1>16 DEF EndInsn
<1>17. CASE UNCHANGED nmiVars
  BY <1>0, <1>17 DEF nmiVars, cpuVars, ppuVars, clockVars, LoopOK, InTime, AtRest, PpuCyclesToNMI, CeilDiv3
<1>18. QED
  BY <1>4, <1>5, <1>6, <1>7, <1>8, <1>9, <1>10, <1>11, <1>12, <1>13, <1>14, <1>15, <1>16, <1>17
  DEF CpuNext

\* What is kept back does not reach the next vblank.
LEMMA LagLeavesRoom ==
  ASSUME CpuInv, ~Running
  PROVE  Owed = 3 * lag /\ 3 * lag <= RoomToVblank
<1>1. AtRest /\ lag \in Nat /\ deadline \in Nat /\ deadline <= PpuCyclesToNMI /\ (lag = 0 \/ lag < deadline)
  BY DEF CpuInv, LoopInv, LoopOK, InTime
<1>2. PpuCyclesToNMI \in Nat /\ \A c \in Nat : c < PpuCyclesToNMI => 3 * c <= RoomToVblank
  BY <1>1, DeadlineLeavesRoom DEF CpuInv
<1>3. RoomToVblank \in Int /\ RoomToVblank > 0
  BY RoomIsPositive DEF CpuInv
<1>4. Owed = 3 * lag
  BY <1>1 DEF Owed, AtRest, CpuInv, PpuInv, TypeOK, ClockOK
<1>5. QED
  BY <1>1, <1>2, <1>3, <1>4

LEMMA SomethingToPoll ==
  /\ \A p : \E n : n \in ToPoll(p)
  /\ EntryCycles \in ToPoll("irq") /\ EntryCycles \in Nat
<1>2. 0 \in InsnLengths /\ EntryCycles \in Nat /\ 0 \in RestCycles \cup {0}
  BY CpuConstants DEF InsnLengths
<1>3. EntryCycles + 0 \in ToPoll("irq") /\ EntryCycles + 0 = EntryCycles
  BY <1>2 DEF ToPoll
<1>4. ASSUME NEW p PROVE \E n : n \in ToPoll(p)
  <2>1. CASE p \in {"irq", "nmi"}
    BY <1>2, <2>1 DEF ToPoll
  <2>2. CASE p = "access"
    <3>1. 2 * DmaBytes + 2 + 0 \in ToPoll(p)
      BY <1>2, <2>2 DEF ToPoll
    <3>2. QED
      BY <3>1
  <2>3. CASE p = "dma"
    <3>1. 2 * dmaLeft + 2 + 0 \in ToPoll(p)
      BY <1>2, <2>3 DEF ToPoll
    <3>2. QED
      BY <3>1
  <2>4. CASE p \notin {"irq", "nmi", "access", "dma"}
    BY <1>2, <2>4 DEF ToPoll
  <2>5. QED
    BY <2>1, <2>2, <2>3, <2>4
<1>5. QED
  BY <1>2, <1>3, <1>4

\* An iteration of the PPU's loop does not come nearer either, unless it makes a DMA start
\* over, and when it begins a vertical blank no request of the last one is left, unless a
\* DMA has started over.
LEMMA PpuStepNearer ==
  ASSUME CpuInv, PpuStep
  PROVE  /\ Place' = Place /\ lag' = lag /\ (~Restart => ToPoll(Place)' = ToPoll(Place))
         /\ Owed' - RoomToVblank' <= Owed - RoomToVblank
         /\ scanLine = VblankLine /\ PassesDot1 =>
              /\ ~Restart
              /\ ~Stalled => ~nmiSignal /\ ~nmiPending
              /\ lag = 0 =>
                   /\ Owed = dot - lastDot /\ RoomToVblank = 2 - lastDot
                   /\ Owed' - RoomToVblank' = dot - FrameDots - 1
<1>0. /\ lag \in Nat /\ dot \in Nat /\ lastDot \in Nat /\ lastDot <= dot
      /\ RoomToVblank \in Int /\ Owed \in Int /\ Owed = dot - lastDot + 3 * lag
      /\ FrameDots \in Nat /\ FrameDots > 0
  <2>1. /\ scanLine \in 0..VblankEndLine /\ lastDot \in 0..(CyclesPerLine - 1)
        /\ dot \in Nat /\ lastDot <= dot /\ lag \in Nat
    BY DEF CpuInv, LoopInv, LoopOK, PpuInv, TypeOK, ClockOK
  <2>2. QED
    BY <2>1, RoomCases, RoomIsPositive, PpuConstants DEF CpuInv, Owed
<1>1. /\ UNCHANGED <<pc, ret, lag>> /\ PpuInv /\ LineStep /\ Place' = Place
      /\ ~Restart => UNCHANGED dmaLeft
  BY PpuStepCases DEF CpuInv
<1>2. ~Restart => ToPoll(Place)' = ToPoll(Place)
  BY <1>1 DEF ToPoll
<1>b. scanLine = VblankLine => ~Restart
  BY PpuConstants DEF Restart, ZeroesOamAddr, VblankLine
<1>3. /\ dot' \in Nat /\ lastDot' \in Nat /\ RoomToVblank' \in Int
  BY CpuPpuStep, RoomIsInt DEF CpuNext
<1> DEFINE o == Owed'  room == RoomToVblank'  left == dot' - lastDot'
<1>4. o = left + 3 * lag /\ left \in Int /\ room \in Int
  BY <1>0, <1>1, <1>3 DEF Owed
<1>a. SUFFICES /\ o - room <= Owed - RoomToVblank
               /\ scanLine = VblankLine /\ PassesDot1 =>
                    /\ ~Stalled => ~nmiSignal /\ ~nmiPending
                    /\ lag = 0 =>
                         /\ Owed = dot - lastDot /\ RoomToVblank = 2 - lastDot
                         /\ o - room = dot - FrameDots - 1
  BY <1>1, <1>2, <1>b
<1>5. CASE ~(scanLine = VblankLine /\ PassesDot1)
  <2>1. left - room <= dot - lastDot - RoomToVblank
    BY <1>1, <1>5, LineStepRoom
  <2> HIDE DEF o, room, left
  <2>2. QED
    BY <1>0, <1>4, <1>5, <2>1
<1>6. CASE scanLine = VblankLine /\ PassesDot1
  <2>1. RoomToVblank = 2 - lastDot /\ left - room = dot - FrameDots - 1 /\ dot >= 2
    BY <1>0, <1>1, <1>6, LineStepRoom DEF PassesDot1
  <2> HIDE DEF o, room, left
  <2>2. o - room <= Owed - RoomToVblank
    BY <1>0, <1>4, <2>1
  <2>3. ASSUME NEW n \in ToPoll(Place), Owed + 3 * n < RoomToVblank PROVE FALSE
    <3>1. n \in Nat
      BY ToPollSums DEF CpuInv, LoopInv
    <3>2. QED
      BY <1>0, <2>1, <2>3, <3>1
  <2>4. ~Stalled => ~nmiSignal
    BY <2>3, SomethingToPoll DEF CpuInv, LoopInv, ServedInTime
  <2>5. ~Stalled => ~nmiPending
    <3>. SUFFICES ASSUME ~Stalled PROVE ~nmiPending
      OBVIOUS
    <3>1. PICK n : n \in ToPoll(Place)
      BY SomethingToPoll
    <3>2. n \in Nat
      BY <3>1, ToPollSums DEF CpuInv, LoopInv
    <3>3. nmiPending => Owed + 3 * (n + EntryCycles) < RoomToVblank
      BY <3>1, SomethingToPoll DEF CpuInv, LoopInv, ServedInTime
    <3>4. Owed + 3 * (n + EntryCycles) < RoomToVblank => Owed + 3 * n < RoomToVblank
      BY <1>0, <3>2, SomethingToPoll
    <3>5. QED
      BY <2>3, <3>1, <3>3, <3>4
  <2>6. lag = 0 => Owed = dot - lastDot /\ o - room = dot - FrameDots - 1
    BY <1>0, <1>4, <2>1
  <2>7. QED
    BY <2>1, <2>2, <2>4, <2>5, <2>6
<1>7. QED
  BY <1>5, <1>6

\* Every iteration but the return to line 0 ends with FinishLine.
LEMMA LineStepFinishes ==
  ASSUME LineStep, ~VblankEnd, dot \in Nat
  PROVE  /\ scanLine # VblankEndLine
         /\ \E d \in Nat : /\ FinishLine(d) /\ (d = dot \/ d = dot + 1)
                           /\ d # dot => scanLine = PreRenderLine /\ dot > OddSkipDot
<1>1. CASE VisibleLine \/ PostRender \/ VblankStart \/ VblankIdle
  <2>1. FinishLine(dot) /\ (scanLine < PostRenderLine \/ scanLine = PostRenderLine
                            \/ scanLine = VblankLine \/ scanLine < PreRenderLine)
    BY <1>1, Zenon DEF VisibleLine, PostRender, VblankStart, VblankIdle
  <2>2. scanLine # VblankEndLine
    BY <2>1, PpuConstants DEF VblankLine, VblankEndLine
  <2>3. QED
    BY <2>1, <2>2
<1>2. CASE PreRender
  <2>1. FinishLine(PreRenderDot) /\ scanLine = PreRenderLine
    BY <1>2, Zenon DEF PreRender
  <2>2. /\ PreRenderDot = dot \/ (PreRenderDot = dot + 1 /\ dot > OddSkipDot)
        /\ PreRenderDot \in Nat /\ scanLine # VblankEndLine
    BY <2>1, PpuConstants DEF PreRenderDot, VblankEndLine
  <2>3. QED
    BY <2>1, <2>2
<1>3. QED
  BY <1>1, <1>2 DEF LineStep

LEMMA FinishLineCases ==
  ASSUME NEW d \in Nat, FinishLine(d)
  PROVE  /\ d < CyclesPerLine => scanLine' = scanLine /\ dot' = d /\ lastDot' = d
         /\ d >= CyclesPerLine => scanLine' = scanLine + 1 /\ dot' = d - CyclesPerLine /\ lastDot' = 0
         /\ d < CyclesPerLine \/ d >= CyclesPerLine
<1>1. CyclesPerLine \in Nat
  BY PpuConstants
<1>2. QED
  BY <1>1 DEF FinishLine

\* A DMA that starts over has as long to go as an instruction that copies straight through.
LEMMA RestartOverrun ==
  ASSUME CpuInv, PpuStep, Restart
  PROVE  OverrunIsShort'
<1>1. /\ UNCHANGED <<pc, ret, lag>> /\ Place' = "dma" /\ lag = 0 /\ LineStep
      /\ pc = "dma" /\ dmaLeft' = DmaBytes - 1 /\ dot - lastDot <= 6
      /\ scanLine < PostRenderLine \/ scanLine = PreRenderLine
  BY PpuStepCases DEF Restart, ZeroesOamAddr, CpuInv, LoopInv, LoopOK, HeldUp, Running, Place
<1>2. /\ scanLine \in 0..VblankEndLine /\ lastDot \in 0..(CyclesPerLine - 1) /\ dot \in Nat
      /\ lastDot <= dot
  BY DEF CpuInv, PpuInv, TypeOK, ClockOK
<1>3. PpuInv'
  BY CpuPpuStep DEF CpuNext
<1>4. /\ scanLine' \in 0..VblankEndLine /\ lastDot' \in 0..(CyclesPerLine - 1) /\ dot' \in Nat
      /\ RoomToVblank' \in Int /\ RoomToVblank' > 0
  <2>1. /\ scanLine' \in 0..VblankEndLine /\ lastDot' \in 0..(CyclesPerLine - 1) /\ dot' \in Nat
    BY <1>3 DEF PpuInv, TypeOK, ClockOK
  <2>2. QED
    BY <1>3, <2>1, RoomStaysPositive, RoomIsInt DEF RoomIsLeft
<1>5. dot' - lastDot' <= RoomToVblank'
  <2>1. PICK d \in Nat : FinishLine(d) /\ (d = dot \/ d = dot + 1)
    <3>1. ~VblankEnd
      BY <1>1, <1>2, PpuConstants DEF VblankEnd, VblankEndLine
    <3>2. QED
      BY <1>1, <1>2, <3>1, LineStepFinishes
  <2>2. CASE d < CyclesPerLine
    <3>1. dot' = d /\ lastDot' = d
      BY <2>1, <2>2, FinishLineCases
    <3>2. QED
      BY <1>4, <3>1
  <2>3. CASE d >= CyclesPerLine
    <3>1. scanLine' = scanLine + 1 /\ dot' = d - CyclesPerLine /\ lastDot' = 0
      BY <2>1, <2>3, FinishLineCases
    <3>2. dot' <= 6
      BY <1>1, <1>2, <2>1, <3>1, PpuConstants
    <3>3. RoomToVblank' >= CyclesPerLine + 2
      <4> DEFINE l == scanLine'
      <4>1. l \in 0..VblankEndLine /\ 0 \in 0..(CyclesPerLine - 1) /\ RoomToVblank' = RoomFrom(l, 0)
        BY <1>4, <3>1, PpuConstants DEF RoomToVblank, RoomFrom
      <4>2. l < VblankLine \/ l = VblankEndLine
        BY <1>1, <1>2, <3>1, PpuConstants DEF VblankLine, VblankEndLine
      <4> HIDE DEF l
      <4>3. /\ l * CyclesPerLine \in Nat /\ VblankLine * CyclesPerLine \in Nat /\ FrameDots \in Nat
            /\ l < VblankLine =>
                 /\ RoomFrom(l, 0) = VblankLine * CyclesPerLine + 2 - (l * CyclesPerLine + 0)
                 /\ l * CyclesPerLine + CyclesPerLine <= VblankLine * CyclesPerLine
        BY <4>1, RoomCases
      <4>4. CASE l < VblankLine
        BY <4>1, <4>3, <4>4, PpuConstants
      <4>5. CASE l = VblankEndLine
        <5>1. /\ l > VblankLine /\ l * CyclesPerLine = FrameDots
              /\ ~(l < PreRenderLine \/ (l = PreRenderLine /\ 0 <= OddSkipDot))
          BY <4>5, PpuConstants DEF VblankEndLine, VblankLine, FrameDots
        <5>2. RoomFrom(l, 0) = VblankLine * CyclesPerLine + 2 - (l * CyclesPerLine + 0) + FrameDots - 0
          BY <4>1, <5>1, RoomCases
        <5>3. 1 * CyclesPerLine <= VblankLine * CyclesPerLine
          BY LinesAreMonotonic, PpuConstants DEF VblankLine
        <5>4. QED
          BY <4>1, <4>3, <5>1, <5>2, <5>3, PpuConstants
      <4>6. QED
        BY <4>2, <4>4, <4>5
    <3>4. QED
      BY <1>4, <3>1, <3>2, <3>3, PpuConstants
  <2>4. QED
    BY <2>1, <2>2, <2>3, FinishLineCases
<1>6. Owed' <= RoomToVblank' /\ Owed' \in Int
  <2>1. lag' = 0 /\ Owed' = dot' - lastDot' + 3 * lag'
    BY <1>1 DEF Owed
  <2>2. lastDot' \in Nat /\ dot' \in Nat
    BY <1>4, PpuConstants
  <2>3. Owed' = dot' - lastDot' /\ Owed' \in Int
    BY <2>1, <2>2
  <2>4. QED
    BY <1>5, <2>3
<1>7. ToPoll("irq")' = ToPoll("irq") /\ LoopOK
  BY DEF ToPoll, CpuInv, LoopInv
<1>8. ASSUME NEW n \in ToPoll(Place)'
      PROVE  \E m \in ToPoll("irq") : Owed' + 3 * n <= RoomToVblank' + 3 * m
  <2>1. PICK t \in RestCycles \cup {0} : n = 2 * (DmaBytes - 1) + 2 + t
    BY <1>1, <1>8 DEF ToPoll
  <2>2. t \in Nat /\ DmaBytes \in Nat /\ EntryCycles \in Nat
    BY CpuConstants
  <2>3. 0 + 2 * DmaBytes + 2 + t \in InsnLengths
    BY DEF InsnLengths
  <2>4. EntryCycles + (0 + 2 * DmaBytes + 2 + t) \in ToPoll("irq")
    BY <2>3 DEF ToPoll
  <2>5. n <= EntryCycles + (0 + 2 * DmaBytes + 2 + t) /\ n \in Nat
    BY <1>1, <2>1, <2>2, CpuConstants
  <2>6. QED
    BY <1>4, <1>6, <2>2, <2>4, <2>5
<1>9. QED
  BY <1>7, <1>8 DEF OverrunIsShort

LEMMA OverrunStep ==
  ASSUME CpuInv, [CpuNext]_nmiVars
  PROVE  OverrunIsShort'
<1>0. /\ LoopOK /\ OverrunIsShort /\ lag \in Nat /\ Owed \in Int /\ RoomToVblank \in Int
  BY RoomIsPositive DEF CpuInv, LoopInv, LoopOK, Owed, PpuInv, TypeOK, ClockOK
<1>1. ToPoll("irq")' = ToPoll("irq")
  BY DEF ToPoll
<1> DEFINE o == Owed'  room == RoomToVblank'
<1>a. o \in Int /\ room \in Int
  BY CpuPpuStep, LoopOKStep, RoomIsInt DEF LoopOK, Owed
<1>6. CASE PpuStep /\ Restart
  BY <1>6, RestartOverrun
<1>2. CASE PpuStep /\ ~Restart
  <2>1. /\ ToPoll(Place)' = ToPoll(Place) /\ o - room <= Owed - RoomToVblank
    BY <1>2, PpuStepNearer
  <2>2. ASSUME NEW n \in ToPoll(Place)
        PROVE  \E m \in ToPoll("irq") : o + 3 * n <= room + 3 * m
    <3>1. PICK m \in ToPoll("irq") : Owed + 3 * n <= RoomToVblank + 3 * m
      BY <1>0 DEF OverrunIsShort
    <3>2. n \in Nat /\ m \in Nat
      BY <1>0, ToPollSums
    <3> HIDE DEF o, room
    <3>3. QED
      BY <1>0, <1>a, <2>1, <3>1, <3>2
  <2>3. QED
    BY <1>1, <2>1, <2>2 DEF OverrunIsShort
<1>3. CASE LoopStep
  <2>1. NoNearer
    BY <1>3, LoopStepNoNearer
  <2>2. ASSUME NEW n \in ToPoll(Place)'
        PROVE  \E m \in ToPoll("irq") : o + 3 * n <= room + 3 * m
    <3>1. PICK b \in ToPoll(Place) : o + 3 * n <= Owed + 3 * b
      BY <2>1, <2>2 DEF NoNearer
    <3>2. PICK m \in ToPoll("irq") : Owed + 3 * b <= RoomToVblank + 3 * m
      BY <1>0, <3>1 DEF OverrunIsShort
    <3>3. b \in Nat /\ m \in Nat
      BY <1>0, ToPollSums
    <3>4. n \in Nat /\ room = RoomToVblank
      BY <2>1, <2>2 DEF NoNearer
    <3> HIDE DEF o, room
    <3>5. QED
      BY <1>0, <1>a, <3>1, <3>2, <3>3, <3>4
  <2>3. QED
    BY <1>1, <2>2 DEF OverrunIsShort
<1>4. CASE PollNMI
  <2>1. ~Running /\ UNCHANGED <<lag, scanLine, dot, lastDot>> /\ Place' \in {"irq", "nmi"}
    BY <1>4 DEF PollNMI, CheckNMI, clockVars, Running, Place
  <2>2. Owed <= RoomToVblank /\ Owed' = Owed /\ RoomToVblank' = RoomToVblank
    BY <2>1, LagLeavesRoom DEF Owed, RoomToVblank
  <2>3. ToPoll(Place)' = ToPoll("irq")
    BY <2>1 DEF ToPoll
  <2>4. \A n \in ToPoll("irq") : n \in Nat
    BY <1>0, ToPollSums
  <2>5. QED
    BY <1>0, <1>1, <2>2, <2>3, <2>4 DEF OverrunIsShort
<1>5. CASE UNCHANGED nmiVars
  <2>1. UNCHANGED <<scanLine, dot, lastDot, pc, ret, lag, dmaLeft>>
    BY <1>5 DEF nmiVars, ppuVars, clockVars, cpuVars
  <2>2. Owed' = Owed /\ RoomToVblank' = RoomToVblank /\ ToPoll(Place)' = ToPoll(Place)
    BY <2>1 DEF Owed, RoomToVblank, ToPoll, Place
  <2>3. QED
    BY <1>0, <1>1, <2>2 DEF OverrunIsShort
<1>7. QED
  BY <1>2, <1>3, <1>4, <1>5, <1>6 DEF CpuNext, LoopStep

LEMMA LoopStepFlags ==
  ASSUME CpuInv, LoopStep
  PROVE  /\ pc' # "nmi" /\ nmiSignal' = nmiSignal
         /\ \/ /\ UNCHANGED <<nmiPending, nmiEnabled>>
               /\ Place \in {"rest", "poll"} => Place' \in {"rest", "poll"}
            \/ pc = "access" /\ pc' = "rest" /\ (StatusRead \/ \E e \in BOOLEAN : CtrlWrite(e))
<1> USE CpuConstants
<1>0. ret \in {"poll", "fetch", "access", "rest"}
  BY DEF CpuInv, LoopInv, LoopOK
<1>1. ASSUME ~Running, NEW c \in Nat, NEW next \in {"poll", "fetch", "access", "rest"},
             CpuTick(c, next) \/ SyncDevices(lag + c, next)
      PROVE  /\ pc' # "nmi" /\ Place' = next
             /\ UNCHANGED <<nmiSignal, nmiPending, nmiEnabled>>
  <2>1. pc' # "nmi"
    BY <1>1 DEF CpuTick, SyncDevices
  <2>2. QED
    BY <1>1, <2>1, CyclesArePassed
<1>2. ASSUME UNCHANGED ppuVars
      PROVE  UNCHANGED <<nmiSignal, nmiPending, nmiEnabled>>
  BY <1>2 DEF ppuVars, statusVars, regVars
<1>3. CASE SyncDone
  BY <1>0, <1>2, <1>3 DEF SyncDone, Place
<1>4. CASE EnterNMI
  BY <1>1, <1>4 DEF EnterNMI, Running, Place
<1>5. CASE CheckIRQ
  BY <1>1, <1>2, <1>5 DEF CheckIRQ, Running, Place
<1>6. CASE PlainInsn
  BY <1>1, <1>6 DEF PlainInsn, Running
<1>7. CASE ReachRegister
  BY <1>1, <1>7 DEF ReachRegister, Running, Place
<1>8. CASE ReadRegister
  <2>1. pc = "access" /\ pc' = "rest" /\ StatusRead
    BY <1>8 DEF ReadRegister
  <2>2. nmiSignal' = nmiSignal
    BY <2>1, Zenon DEF StatusRead
  <2>3. QED
    BY <2>1, <2>2
<1>9. CASE WriteRegister
  <2>1. pc = "access" /\ pc' = "rest"
    BY <1>9 DEF WriteRegister
  <2>2. ASSUME NEW e \in BOOLEAN, CtrlWrite(e) PROVE nmiSignal' = nmiSignal
    BY <2>2, Zenon DEF CtrlWrite
  <2>3. ASSUME NEW e \in BOOLEAN, MaskWrite(e)
        PROVE UNCHANGED <<nmiSignal, nmiPending, nmiEnabled>>
    BY <2>3, Zenon DEF MaskWrite, statusVars
  <2>4. QED
    BY <1>9, <2>1, <2>2, <2>3 DEF WriteRegister, Place
<1>10. CASE DmaWrite
  BY <1>2, <1>10 DEF DmaWrite, Place
<1>11. CASE DmaByte
  <2>1. UNCHANGED <<nmiSignal, nmiPending, nmiEnabled>>
    BY <1>11, Zenon DEF DmaByte, Ticks, statusVars, regVars
  <2>2. QED
    BY <1>11, <2>1 DEF DmaByte, Place
<1>12. CASE DmaEnd
  <2>1. UNCHANGED <<nmiSignal, nmiPending, nmiEnabled>>
    BY <1>12, Zenon DEF DmaEnd, SyncDevices, Ticks, statusVars, regVars
  <2>2. QED
    BY <1>12, <2>1 DEF DmaEnd, SyncDevices, Place
<1>13. CASE EndInsn
  BY <1>1, <1>13 DEF EndInsn, Running
<1>14. QED
  BY <1>3, <1>4, <1>5, <1>6, <1>7, <1>8, <1>9, <1>10, <1>11, <1>12, <1>13 DEF LoopStep

\* Only a step of the PPU makes a DMA start over, and nothing starts one that is held up.
LEMMA LoopStepHeld ==
  ASSUME CpuInv, LoopStep
  PROVE  dmaHeld' = dmaHeld /\ (dmaHeld => Place' \in {"dma", "rest", "poll"})
<1>0. /\ dmaHeld => Place \in {"dma", "rest", "poll"}
      /\ ret \in {"poll", "fetch", "access", "rest"}
  BY DEF CpuInv, LoopInv, LoopOK, HeldUp
<1>1. dmaHeld' = dmaHeld
  BY DEF LoopStep, SyncDone, EnterNMI, CheckIRQ, PlainInsn, ReachRegister, ReadRegister, WriteRegister,
     DmaWrite, DmaByte, DmaEnd, EndInsn, CpuTick, SyncDevices
<1>2. CASE SyncDone
  BY <1>0, <1>2 DEF SyncDone, Place
<1>3. CASE DmaByte \/ DmaEnd \/ EndInsn
  BY <1>3 DEF DmaByte, DmaEnd, EndInsn, CpuTick, SyncDevices, Place
<1>4. CASE pc \in {"nmi", "irq", "fetch", "access"}
  BY <1>0, <1>1, <1>4 DEF Place
<1>5. QED
  BY <1>1, <1>2, <1>3, <1>4 DEF LoopStep, EnterNMI, CheckIRQ, PlainInsn, ReachRegister, ReadRegister,
     WriteRegister, DmaWrite

\* A $2000 write leaves one request at most: it can raise one only by setting the enable
\* bit, and then none is armed.
LEMMA CtrlWriteFlags ==
  ASSUME OneRequest, HeldUp, pc = "access", NEW e \in BOOLEAN, CtrlWrite(e), nmiEnabled \in BOOLEAN
  PROVE  /\ ~(nmiSignal /\ nmiPending')
         /\ nmiPending' => nmiEnabled'
         /\ nmiPending' => nmiPending \/ VblankAtCtrl
<1>1. /\ nmiPending' = IF e = nmiEnabled THEN nmiPending ELSE e /\ VblankAtCtrl
      /\ nmiEnabled' = e
  BY DEF CtrlWrite
<1>2. ~(nmiSignal /\ nmiPending) /\ (nmiPending => nmiEnabled)
  BY DEF OneRequest, HeldUp, Place
<1>3. nmiSignal => nmiEnabled
  BY DEF OneRequest, Place
<1>4. CASE e = nmiEnabled
  BY <1>1, <1>2, <1>4
<1>5. CASE e # nmiEnabled
  <2>1. nmiPending' => e /\ VblankAtCtrl
    BY <1>1, <1>5
  <2>2. e => ~nmiEnabled
    BY <1>5
  <2>3. QED
    BY <1>1, <1>3, <2>1, <2>2
<1>6. QED
  BY <1>4, <1>5

LEMMA OneRequestStep ==
  ASSUME CpuInv, [CpuNext]_nmiVars
  PROVE  OneRequest'
<1>0. /\ OneRequest /\ dot \in Nat /\ nmiEnabled \in BOOLEAN
      /\ nmiSignal \in BOOLEAN /\ nmiPending \in BOOLEAN
  BY DEF CpuInv, LoopInv, PpuInv, TypeOK, ClockOK, FlagsOK
<1>1. CASE PpuStep
  <2>1. /\ pc' = pc /\ Place' = Place /\ pc # "nmi" /\ LineStep
        /\ dmaHeld \in BOOLEAN /\ dmaHeld' \in BOOLEAN /\ (dmaHeld => dmaHeld')
        /\ scanLine = VblankLine => dmaHeld' = dmaHeld
    <3>1. pc # "nmi" /\ dmaHeld \in BOOLEAN
      BY <1>1, PpuStepCases, LineStepFlags DEF CpuInv, LoopInv, InTime, Running, HeldUp
    <3>2. scanLine = VblankLine => ~Restart
      BY PpuConstants DEF Restart, ZeroesOamAddr, VblankLine
    <3>3. QED
      BY <1>1, <3>1, <3>2, PpuStepCases DEF Restart
  <2>2. CASE UNCHANGED <<nmiSignal, nmiPending>>
    BY <1>0, <2>1, <2>2, LineStepFlags DEF OneRequest
  <2>3. CASE scanLine = VblankLine /\ PassesDot1 /\ EnterVblank
    <3>1. nmiEnabled' = nmiEnabled
      BY <2>1, LineStepFlags
    <3>2. CASE ~Stalled
      <4>1. ~nmiSignal /\ ~nmiPending
        BY <1>1, <2>3, <3>2, PpuStepNearer
      <4>2. /\ nmiSignal' => nmiEnabled /\ dot > 3
            /\ nmiPending' => nmiEnabled /\ dot <= 3
        BY <2>3, <4>1, Zenon DEF EnterVblank
      <4>3. ~(dot > 3 /\ dot <= 3)
        BY <1>0
      <4>4. QED
        BY <2>1, <3>1, <4>2, <4>3, Zenon DEF OneRequest
    <3>3. CASE Stalled
      <4>1. dmaHeld' /\ Place = "dma" /\ pc = "dma"
        BY <2>1, <3>3 DEF Stalled, Place
      <4>2. /\ nmiSignal => nmiEnabled
            /\ nmiPending => nmiEnabled
        BY <1>0, <4>1 DEF OneRequest
      <4>3. /\ nmiSignal' => nmiSignal \/ nmiEnabled
            /\ nmiPending' => nmiPending \/ nmiEnabled
        BY <2>3, Zenon DEF EnterVblank
      <4>4. QED
        BY <2>1, <3>1, <4>1, <4>2, <4>3, Zenon DEF OneRequest
    <3>4. QED
      BY <3>2, <3>3
  <2>4. QED
    BY <2>1, <2>2, <2>3, LineStepFlags
<1>2. CASE LoopStep
  <2>0. dmaHeld' = dmaHeld /\ dmaHeld \in BOOLEAN /\ (dmaHeld => Place \in {"dma", "rest", "poll"})
    BY <1>2, LoopStepHeld DEF CpuInv, LoopInv, HeldUp
  <2>1. CASE /\ UNCHANGED <<nmiPending, nmiEnabled>>
             /\ Place \in {"rest", "poll"} => Place' \in {"rest", "poll"}
    BY <1>0, <1>2, <2>0, <2>1, LoopStepFlags DEF OneRequest
  <2>2. CASE pc = "access" /\ pc' = "rest" /\ StatusRead
    <3>1. nmiPending' => nmiPending
      BY <2>2, Zenon DEF StatusRead
    <3>2. nmiSignal' = nmiSignal /\ nmiEnabled' = nmiEnabled
      BY <2>2, Zenon DEF StatusRead, regVars
    <3>3. QED
      BY <1>0, <2>0, <2>2, <3>1, <3>2 DEF OneRequest, Place
  <2>3. ASSUME pc = "access", pc' = "rest", NEW e \in BOOLEAN, CtrlWrite(e) PROVE OneRequest'
    <3>1. nmiSignal' = nmiSignal
      BY <1>2, LoopStepFlags
    <3>2. /\ ~(nmiSignal /\ nmiPending') /\ (nmiPending' => nmiEnabled')
      BY <1>0, <2>3, CtrlWriteFlags DEF CpuInv, LoopInv
    <3>3. Place' = "rest"
      BY <2>3 DEF Place
    <3>4. QED
      BY <2>3, <3>1, <3>2, <3>3 DEF OneRequest
  <2>4. QED
    BY <1>2, <2>1, <2>2, <2>3, LoopStepFlags
<1>3. CASE PollNMI
  <2>1. /\ nmiPending' = FALSE /\ nmiSignal' = nmiPending /\ nmiEnabled' = nmiEnabled
        /\ pc' = IF nmiSignal THEN "nmi" ELSE "irq"
    BY <1>3, Zenon DEF PollNMI, CheckNMI, NmiFires, regVars
  <2>2. QED
    BY <1>0, <2>1 DEF OneRequest
<1>4. CASE UNCHANGED nmiVars
  BY <1>0, <1>4 DEF nmiVars, ppuVars, statusVars, regVars, cpuVars, OneRequest, Place
<1>5. QED
  BY <1>1, <1>2, <1>3, <1>4 DEF CpuNext, LoopStep

LEMMA FrameBounds ==
  ASSUME LoopOK
  PROVE  /\ \A n, m \in ToPoll("irq") :
              n \in Nat /\ m \in Nat /\ 3 * (n + m) + CyclesPerLine <= FrameDots
         /\ \A n \in ToPoll("rest"), m \in ToPoll("irq") :
              n \in Nat /\ m \in Nat /\ 6 + 3 * (n + m) <= VblankLine * CyclesPerLine
<1> USE CpuConstants
<1>1. /\ \A n \in ToPoll("irq") : n \in Nat /\ \E i \in InsnLengths : n = EntryCycles + i
      /\ \A n \in ToPoll("rest") : n \in Nat /\ n \in RestCycles \cup {0}
      /\ \A i \in InsnLengths : i \in Nat
  BY ToPollSums DEF ToPoll, InsnLengths
<1>2. FrameDots = PreRenderLine * CyclesPerLine + CyclesPerLine /\ PreRenderLine * CyclesPerLine \in Nat
  BY LinesAreMonotonic, PpuConstants DEF FrameDots, VblankEndLine
<1>3. ASSUME NEW n \in ToPoll("irq"), NEW m \in ToPoll("irq")
      PROVE  3 * (n + m) + CyclesPerLine <= FrameDots
  <2>1. PICK i \in InsnLengths, j \in InsnLengths : n = EntryCycles + i /\ m = EntryCycles + j
    BY <1>1
  <2>2. 3 * (EntryCycles + i + EntryCycles + j) <= PreRenderLine * CyclesPerLine
    BY FrameIsLong
  <2>3. i \in Nat /\ j \in Nat /\ n + m = EntryCycles + i + EntryCycles + j
    BY <1>1, <2>1
  <2>4. QED
    BY <1>2, <2>1, <2>2, <2>3, PpuConstants
<1>4. ASSUME NEW n \in ToPoll("rest"), NEW m \in ToPoll("irq")
      PROVE  6 + 3 * (n + m) <= VblankLine * CyclesPerLine
  <2>1. PICK j \in InsnLengths : m = EntryCycles + j
    BY <1>1
  <2>2. 3 * (2 + n + EntryCycles + j) <= VblankLine * CyclesPerLine
    BY <1>1, FrameIsLong
  <2>3. n \in Nat /\ j \in Nat /\ 6 + 3 * (n + m) = 3 * (2 + n + EntryCycles + j)
    BY <1>1, <2>1
  <2>4. QED
    BY <2>2, <2>3
<1>5. QED
  BY <1>1, <1>3, <1>4

\* From its vblank to the end of the pre-render line a frame has all of its picture before it.
AfterVblank ==
  \/ scanLine = VblankLine /\ lastDot > 1
  \/ VblankLine < scanLine /\ scanLine <= PreRenderLine

LEMMA BlankIsFar ==
  ASSUME PpuInv, AfterVblank
  PROVE  RoomToVblank > VblankLine * CyclesPerLine
<1>1. /\ scanLine \in 0..VblankEndLine /\ lastDot \in 0..(CyclesPerLine - 1)
      /\ VblankLine * CyclesPerLine \in Nat
      /\ scanLine * CyclesPerLine \in Nat /\ FrameDots \in Nat
  BY RoomCases DEF PpuInv, TypeOK, ClockOK
<1>2. CASE scanLine = VblankLine /\ lastDot > 1
  BY <1>1, <1>2, RoomCases, PpuConstants DEF RoomToVblank
<1>3. CASE VblankLine < scanLine /\ scanLine <= PreRenderLine
  <2>1. FrameDots = PreRenderLine * CyclesPerLine + CyclesPerLine /\ PreRenderLine * CyclesPerLine \in Nat
    BY LinesAreMonotonic, PpuConstants DEF FrameDots, VblankEndLine
  <2>2. scanLine * CyclesPerLine <= PreRenderLine * CyclesPerLine
    BY <1>1, <1>3, LinesAreMonotonic, PpuConstants
  <2>3. RoomToVblank >= VblankLine * CyclesPerLine + 2 - (scanLine * CyclesPerLine + lastDot) + FrameDots - 1
    BY <1>1, <1>3, RoomCases DEF RoomToVblank
  <2>4. QED
    BY <1>1, <2>1, <2>2, <2>3, RoomIsPositive, PpuConstants
<1>4. QED
  BY <1>2, <1>3 DEF AfterVblank

\* A $2000 write that sees the vblank flag comes then.
LEMMA CtrlSeesBlank ==
  ASSUME PpuInv, AtRest, VblankAtCtrl
  PROVE  AfterVblank
<1>1. InBlank
  BY DEF VblankAtCtrl, PpuInv, Windows, VblankFlagInBlank
<1>2. VblankLine < PreRenderLine
  BY PpuConstants DEF VblankLine
<1>3. scanLine < PreRenderLine => scanLine <= PreRenderLine
  BY PpuConstants DEF PpuInv, TypeOK, ClockOK, VblankEndLine
<1>4. QED
  BY <1>1, <1>2, <1>3, PpuConstants DEF InBlank, AfterVblank

\* And so does the end of a DMA that was held up.
LEMMA HeldDmaEnds ==
  ASSUME CpuInv, Stalled, AtRest, dmaLeft = 0
  PROVE  AfterVblank
<1>1. /\ scanLine \in 0..VblankEndLine /\ lastDot \in 0..(CyclesPerLine - 1) /\ dot = lastDot
  BY DEF CpuInv, PpuInv, TypeOK, ClockOK, AtRest
<1>2. CopyEnd = dot
  BY <1>1 DEF CopyEnd
<1>3. CopyLeft \in Int /\ CopyLeft >= CyclesPerLine + 2
  BY DmaIsLong, CpuConstants, PpuConstants DEF CopyLeft
<1>4. /\ scanLine < PostRenderLine \/ scanLine = VblankEndLine => CopyEnd >= CopyLeft
      /\ scanLine = PostRenderLine => CopyEnd >= CopyLeft
      /\ scanLine = VblankLine => CopyEnd >= CopyLeft - CyclesPerLine
  BY DEF CpuInv, LoopInv, HeldUp, HeldOn
<1>5. /\ ~(scanLine < PostRenderLine) /\ scanLine # VblankEndLine /\ scanLine # PostRenderLine
      /\ scanLine = VblankLine => lastDot > 1
  BY <1>1, <1>2, <1>3, <1>4, PpuConstants
<1>6. QED
  BY <1>1, <1>5, PpuConstants DEF AfterVblank, VblankLine, VblankEndLine

\* The six dots of a byte reach into the next line at most.
LEMMA DmaStepIsShort ==
  ASSUME PpuInv, LineStep, dot - lastDot <= 6
  PROVE  dot' - lastDot' <= 6
<1>1. /\ lastDot \in 0..(CyclesPerLine - 1) /\ dot \in Nat /\ lastDot <= dot
  BY DEF PpuInv, TypeOK, ClockOK
<1>2. CASE VblankEnd
  BY <1>1, <1>2 DEF VblankEnd
<1>3. CASE ~VblankEnd
  <2>1. PICK d \in {dot, dot + 1} : FinishLine(d)
    BY <1>3 DEF LineStep, VisibleLine, PostRender, VblankStart, VblankIdle, PreRender, PreRenderDot
  <2>2. QED
    BY <1>1, <2>1, PpuConstants DEF FinishLine
<1>4. QED
  BY <1>2, <1>3

\* A held DMA stays ahead of the picture: line by line.
LEMMA HeldOnStep ==
  ASSUME CpuInv, PpuStep, pc = "dma", Stalled'
  PROVE  HeldOn'
<1>0. /\ scanLine \in 0..VblankEndLine /\ lastDot \in 0..(CyclesPerLine - 1) /\ dot \in Nat
      /\ lastDot <= dot /\ dmaLeft \in Nat /\ dmaHeld \in BOOLEAN
      /\ rendering \in BOOLEAN
  BY DEF CpuInv, LoopInv, LoopOK, PpuInv, TypeOK, ClockOK, FlagsOK, HeldUp
<1>1. /\ CopyLeft \in Int /\ CopyLeft >= CyclesPerLine + 2 /\ CopyLeft' = CopyLeft
      /\ CopyLeft = 6 * (DmaBytes - 1) + OamZeroBegin + 1 - CyclesPerLine
      /\ OamZeroBegin \in Nat /\ OamZeroEnd \in Nat /\ OddSkipDot \in Nat /\ DmaBytes \in Nat
      /\ OamZeroBegin <= OamZeroEnd /\ OamZeroEnd < OddSkipDot /\ OddSkipDot + 1 < CyclesPerLine
      /\ CyclesPerLine \in Nat /\ CyclesPerLine > 4
  BY DmaIsLong, CpuConstants, PpuConstants DEF CopyLeft
<1>2. /\ PostRenderLine \in Nat /\ PreRenderLine \in Nat /\ PreRenderLine > PostRenderLine + 2
      /\ VblankLine = PostRenderLine + 1 /\ VblankEndLine = PreRenderLine + 1
  BY PpuConstants DEF VblankLine, VblankEndLine
<1>3. /\ LineStep /\ rendering' = rendering
      /\ (UNCHANGED <<dmaLeft, dmaHeld>> /\ ~ZeroesOamAddr) \/ (Restart /\ dmaLeft' \in Nat)
  <2>1. LineStep => rendering' = rendering
    BY Zenon DEF LineStep, VisibleLine, PostRender, VblankStart, VblankIdle, PreRender, VblankEnd, regVars
  <2>2. QED
    BY <2>1, PpuStepCases
<1>4. UNCHANGED <<dmaLeft, dmaHeld>> => HeldOn
  BY DEF CpuInv, LoopInv, HeldUp, Stalled
<1>5. rendering
  BY <1>3, <1>4 DEF HeldOn, Restart, ZeroesOamAddr
\* The step that makes the DMA start over.
<1>6. CASE Restart
  <2>1. /\ dmaLeft' = DmaBytes - 1 /\ dot > OamZeroBegin
        /\ scanLine < PostRenderLine \/ scanLine = PreRenderLine
    BY <1>6 DEF Restart, ZeroesOamAddr
  <2>2. PICK d \in Nat : FinishLine(d) /\ d >= dot
    <3>1. ~VblankEnd
      BY <1>0, <1>2, <2>1 DEF VblankEnd
    <3>2. QED
      BY <1>0, <1>3, <3>1, LineStepFinishes
  <2>3. CASE d < CyclesPerLine
    <3>1. scanLine' = scanLine /\ dot' = d /\ CopyEnd' = d + 6 * (DmaBytes - 1)
      BY <2>1, <2>2, <2>3, <1>1 DEF FinishLine, CopyEnd
    <3>2. CopyEnd' >= CopyLeft + CyclesPerLine /\ CopyEnd' >= CopyLeft /\ CopyEnd' \in Int
      BY <1>0, <1>1, <2>1, <2>2, <3>1
    <3>3. scanLine' # VblankLine
      BY <1>0, <1>2, <2>1, <3>1
    <3>4. QED
      BY <1>1, <1>3, <1>5, <3>2, <3>3 DEF HeldOn, VblankLine
  <2>4. CASE d >= CyclesPerLine
    <3>1. scanLine' = scanLine + 1 /\ lastDot' = 0 /\ CopyEnd' = d - CyclesPerLine + 6 * (DmaBytes - 1)
      BY <1>1, <2>1, <2>2, <2>4 DEF FinishLine, CopyEnd
    <3>2. CopyEnd' >= CopyLeft /\ ~(lastDot' > OamZeroBegin)
      BY <1>1, <2>2, <2>4, <3>1
    <3>3. scanLine' # VblankLine
      BY <1>0, <1>2, <2>1, <3>1
    <3>4. QED
      BY <1>1, <1>3, <1>5, <3>2, <3>3 DEF HeldOn, VblankLine
  <2>5. QED
    BY <1>1, <2>2, <2>3, <2>4
\* Any other.
<1>7. CASE ~ZeroesOamAddr /\ UNCHANGED <<dmaLeft, dmaHeld>>
  <2>1. /\ scanLine < PostRenderLine \/ scanLine = VblankEndLine => CopyEnd >= CopyLeft
        /\ scanLine < PostRenderLine \/ scanLine = PreRenderLine =>
             (lastDot > OamZeroBegin => CopyEnd >= CopyLeft + CyclesPerLine)
        /\ scanLine = PostRenderLine => CopyEnd >= CopyLeft
        /\ scanLine = VblankLine => CopyEnd >= CopyLeft - CyclesPerLine
    BY <1>4, <1>7 DEF HeldOn
  <2>2. CopyEnd = dot + 6 * dmaLeft /\ CopyEnd' = dot' + 6 * dmaLeft
    BY <1>7 DEF CopyEnd
  <2>3. /\ scanLine < PostRenderLine \/ scanLine = PreRenderLine =>
             (lastDot <= OamZeroBegin => dot <= OamZeroBegin)
    BY <1>0, <1>1, <1>5, <1>7 DEF ZeroesOamAddr
  <2>4. CASE VblankEnd
    <3>1. scanLine = VblankEndLine /\ scanLine' = 0 /\ lastDot' = lastDot /\ CopyEnd' = CopyEnd /\ lastDot = 0
      BY <2>2, <2>4 DEF VblankEnd, CpuInv, PpuInv, TypeOK, ClockOK
    <3>2. 0 < PostRenderLine /\ ~(lastDot' > OamZeroBegin) /\ 0 # VblankLine /\ 0 # PostRenderLine
      BY <1>1, <1>2, <3>1, PpuConstants
    <3>3. QED
      BY <1>1, <1>3, <1>5, <2>1, <3>1, <3>2 DEF HeldOn, VblankLine
  <2>5. CASE ~VblankEnd
    <3>1. PICK d \in Nat :
            FinishLine(d) /\ d >= dot /\ (scanLine # PreRenderLine => d = dot)
            /\ (dot <= OamZeroBegin => d = dot) /\ scanLine # VblankEndLine
      BY <1>0, <1>1, <1>3, <2>5, LineStepFinishes
    <3>2. CASE d < CyclesPerLine
      <4>1. scanLine' = scanLine /\ dot' = d /\ lastDot' = d
        BY <3>1, <3>2, FinishLineCases
      <4>2. CopyEnd' >= CopyEnd /\ CopyEnd' \in Int /\ CopyEnd \in Int
        BY <1>0, <2>2, <3>1, <4>1
      <4>3. scanLine < PostRenderLine \/ scanLine = PreRenderLine =>
              (lastDot' > OamZeroBegin => lastDot > OamZeroBegin)
        BY <1>0, <1>1, <2>3, <3>1, <4>1
      <4>4. QED
        BY <1>1, <1>3, <1>5, <2>1, <4>1, <4>2, <4>3 DEF HeldOn, VblankLine, VblankEndLine
    <3>3. CASE d >= CyclesPerLine
      <4>1. scanLine' = scanLine + 1 /\ lastDot' = 0 /\ CopyEnd' = d - CyclesPerLine + 6 * dmaLeft
        BY <2>2, <3>1, <3>3 DEF FinishLine
      <4>2. CopyEnd' >= CopyEnd - CyclesPerLine /\ CopyEnd' \in Int /\ CopyEnd \in Int
        BY <1>0, <1>1, <2>2, <3>1, <4>1
      <4>3. scanLine < PostRenderLine \/ scanLine = PreRenderLine => CopyEnd' >= CopyLeft
        <5>1. scanLine < PostRenderLine \/ scanLine = PreRenderLine => lastDot > OamZeroBegin
          BY <1>0, <1>1, <2>3, <3>1, <3>3
        <5>2. QED
          BY <1>1, <2>1, <4>2, <5>1
      <4>4. ~(lastDot' > OamZeroBegin)
        BY <1>1, <4>1
      <4>5. /\ scanLine' < PostRenderLine \/ scanLine' = VblankEndLine =>
                  scanLine < PostRenderLine \/ scanLine = PreRenderLine
            /\ scanLine' = PostRenderLine => scanLine < PostRenderLine
            /\ scanLine' = VblankLine => scanLine = PostRenderLine
        BY <1>0, <1>2, <4>1
      <4>6. scanLine = PostRenderLine => CopyEnd' >= CopyLeft - CyclesPerLine
        BY <1>1, <2>1, <4>2
      <4>7. QED
        BY <1>3, <1>5, <1>1, <4>3, <4>4, <4>5, <4>6 DEF HeldOn, VblankLine, VblankEndLine
    <3>4. QED
      BY <1>1, <3>1, <3>2, <3>3
  <2>6. QED
    BY <2>4, <2>5
<1>8. QED
  BY <1>3, <1>6, <1>7

LEMMA HeldUpStep ==
  ASSUME CpuInv, [CpuNext]_nmiVars
  PROVE  HeldUp'
<1>0. /\ scanLine \in 0..VblankEndLine /\ lastDot \in 0..(CyclesPerLine - 1) /\ dot \in Nat
      /\ lastDot <= dot /\ dmaLeft \in Nat /\ LoopOK /\ HeldUp /\ dmaHeld \in BOOLEAN
      /\ rendering \in BOOLEAN /\ lag \in Nat
  BY DEF CpuInv, LoopInv, LoopOK, PpuInv, TypeOK, ClockOK, FlagsOK, HeldUp
<1>1. CopyLeft \in Int /\ CopyLeft >= CyclesPerLine + 2
  BY DmaIsLong, CpuConstants, PpuConstants DEF CopyLeft
<1>2. CASE PpuStep
  <2>1. /\ LineStep /\ pc' = pc /\ Place' = Place /\ dmaHeld' \in BOOLEAN
        /\ (UNCHANGED <<dmaLeft, dmaHeld>> /\ ~(pc = "dma" /\ ZeroesOamAddr)) \/ Restart
    BY <1>0, <1>2, PpuStepCases DEF Restart
  <2>2. dmaHeld' => Place' \in {"dma", "rest", "poll"}
    BY <1>0, <2>1 DEF HeldUp, Restart, Place
  <2>3. CASE pc # "dma"
    BY <2>1, <2>2, <2>3 DEF HeldUp, Stalled
  <2>4. CASE pc = "dma"
    <3>1. dot - lastDot <= 6 /\ Place = "dma"
      BY <1>0, <2>4 DEF HeldUp, Place
    <3>2. dot' - lastDot' <= 6
      BY <1>0, <2>1, <2>4, <3>1, DmaStepIsShort DEF CpuInv
    <3>3. ASSUME Stalled' PROVE HeldOn'
      BY <1>2, <2>4, <3>3, HeldOnStep
    <3>4. QED
      BY <2>1, <2>2, <3>2, <3>3 DEF HeldUp, HeldOn
  <2>5. QED
    BY <2>3, <2>4
<1>3. CASE LoopStep
  <2>1. dmaHeld' = dmaHeld /\ (dmaHeld => Place' \in {"dma", "rest", "poll"})
    BY <1>3, LoopStepHeld
  <2>2. CASE DmaByte
    <3>1. /\ pc = "dma" /\ pc' = "dma" /\ dmaLeft' = dmaLeft - 1 /\ dot = lastDot /\ dot' = dot + 3 * 2
          /\ UNCHANGED <<scanLine, lastDot, rendering>>
      BY <2>2 DEF DmaByte, Ticks, AtRest, regVars
    <3>2. CopyEnd' = CopyEnd /\ (Stalled' => Stalled)
      BY <1>0, <2>1, <3>1 DEF CopyEnd, Stalled
    <3>3. dot' - lastDot' <= 6
      BY <1>0, <3>1
    <3>4. Stalled' => HeldOn'
      BY <1>0, <3>1, <3>2 DEF HeldUp, HeldOn, CopyLeft
    <3>5. QED
      BY <1>0, <2>1, <3>3, <3>4 DEF HeldUp, HeldOn
  <2>3. CASE DmaWrite
    <3>1. pc' = "dma" /\ UNCHANGED <<dot, lastDot>> /\ dot = lastDot
      BY <1>0, <2>3 DEF DmaWrite, ppuVars, clockVars, CpuInv, LoopInv, InTime, Running, AtRest
    <3>2. ~dmaHeld
      BY <1>0, <2>3 DEF DmaWrite, HeldUp, Place
    <3>3. QED
      BY <1>0, <2>1, <3>1, <3>2 DEF HeldUp, Stalled
  <2>4. CASE ~DmaByte /\ ~DmaWrite
    <3>1. pc' # "dma"
      BY <1>0, <1>3, <2>4 DEF LoopStep, SyncDone, EnterNMI, CheckIRQ, PlainInsn, ReachRegister, ReadRegister,
         WriteRegister, DmaEnd, EndInsn, CpuTick, SyncDevices, LoopOK
    <3>2. QED
      BY <1>0, <2>1, <3>1 DEF HeldUp, Stalled
  <2>5. QED
    BY <2>2, <2>3, <2>4
<1>4. CASE PollNMI
  <2>1. dmaHeld' = FALSE /\ pc' # "dma"
    BY <1>4 DEF PollNMI
  <2>2. QED
    BY <2>1 DEF HeldUp, Stalled
<1>5. CASE UNCHANGED nmiVars
  BY <1>0, <1>5 DEF nmiVars, ppuVars, clockVars, regVars, cpuVars, HeldUp, HeldOn, Stalled, CopyEnd, CopyLeft, Place
<1>6. QED
  BY <1>2, <1>3, <1>4, <1>5 DEF CpuNext, LoopStep

LEMMA ServedStep ==
  ASSUME CpuInv, [CpuNext]_nmiVars
  PROVE  ServedInTime'
<1>0. /\ LoopOK /\ OverrunIsShort /\ OneRequest /\ ServedInTime
      /\ lag \in Nat /\ dot \in Nat /\ lastDot \in Nat
      /\ Owed \in Int /\ RoomToVblank \in Int /\ FrameDots \in Nat
  <2>1. /\ scanLine \in 0..VblankEndLine /\ lastDot \in 0..(CyclesPerLine - 1)
        /\ dot \in Nat /\ lag \in Nat
    BY DEF CpuInv, LoopInv, LoopOK, PpuInv, TypeOK, ClockOK
  <2>2. QED
    BY <2>1, RoomCases, RoomIsPositive DEF CpuInv, LoopInv, Owed
<1>1. ToPoll("irq")' = ToPoll("irq") /\ \A m \in ToPoll("irq") : m \in Nat
  BY <1>0, ToPollSums DEF ToPoll
<1> DEFINE o == Owed'  room == RoomToVblank'
<1>a. o \in Int /\ room \in Int
  BY CpuPpuStep, LoopOKStep, RoomIsInt DEF LoopOK, Owed
\* A step that raises nothing and comes no nearer keeps the promise.
<1>2. ASSUME ~Stalled, nmiSignal' => nmiSignal, nmiPending' => nmiPending,
             \A n \in ToPoll(Place)' :
               n \in Nat /\ \E b \in ToPoll(Place) : o + 3 * n - room <= Owed + 3 * b - RoomToVblank
      PROVE  ServedInTime'
  <2>1. ASSUME nmiSignal', NEW n \in ToPoll(Place)' PROVE o + 3 * n < room
    <3>1. PICK b \in ToPoll(Place) : o + 3 * n - room <= Owed + 3 * b - RoomToVblank
      BY <1>2, <2>1
    <3>2. n \in Nat /\ b \in Nat /\ Owed + 3 * b < RoomToVblank
      BY <1>0, <1>2, <2>1, <3>1, ToPollSums DEF ServedInTime
    <3> HIDE DEF o, room
    <3>3. QED
      BY <1>0, <1>a, <3>1, <3>2
  <2>2. ASSUME nmiPending', NEW n \in ToPoll(Place)', NEW m \in ToPoll("irq")
        PROVE  o + 3 * (n + m) < room
    <3>1. PICK b \in ToPoll(Place) : o + 3 * n - room <= Owed + 3 * b - RoomToVblank
      BY <1>2, <2>2
    <3>2. n \in Nat /\ b \in Nat /\ m \in Nat /\ Owed + 3 * (b + m) < RoomToVblank
      BY <1>0, <1>2, <2>2, <3>1, ToPollSums DEF ServedInTime
    <3> HIDE DEF o, room
    <3>3. QED
      BY <1>0, <1>a, <3>1, <3>2
  <2>3. QED
    BY <1>1, <2>1, <2>2 DEF ServedInTime
<1>7. CASE Stalled'
  BY <1>7 DEF ServedInTime
<1>3. CASE PpuStep /\ ~Stalled'
  <2>0. ~Restart /\ ~Stalled
    <3>1. ~Restart
      BY <1>3, PpuStepCases DEF Restart, Stalled
    <3>2. pc' = pc /\ dmaHeld' = dmaHeld
      BY <1>3, <3>1, PpuStepCases
    <3>3. QED
      BY <1>3, <3>1, <3>2, Zenon DEF Stalled
  <2>1. /\ ToPoll(Place)' = ToPoll(Place) /\ o - room <= Owed - RoomToVblank
    BY <1>3, <2>0, PpuStepNearer
  <2>2. CASE UNCHANGED <<nmiSignal, nmiPending>>
    <3>1. ASSUME NEW n \in ToPoll(Place)
          PROVE  n \in Nat /\ o + 3 * n - room <= Owed + 3 * n - RoomToVblank
      <4>1. n \in Nat
        BY <1>0, ToPollSums
      <4> HIDE DEF o, room
      <4>2. QED
        BY <1>0, <1>a, <2>1, <4>1
    <3>2. QED
      BY <1>2, <2>0, <2>1, <2>2, <3>1
  <2>3. CASE scanLine = VblankLine /\ PassesDot1
    <3>1. lag = 0
      BY <1>3, PpuStepCases, LineStepFlags DEF CpuInv, LoopInv, InTime, LoopOK
    <3>2. /\ Owed = dot - lastDot /\ RoomToVblank = 2 - lastDot
          /\ o - room = dot - FrameDots - 1
      BY <1>3, <2>3, <3>1, PpuStepNearer
    <3>3. ASSUME NEW n \in ToPoll(Place), NEW k \in ToPoll("irq") \cup {0} PROVE o + 3 * (n + k) < room
      <4>1. PICK m \in ToPoll("irq") : Owed + 3 * n <= RoomToVblank + 3 * m
        BY <1>0 DEF OverrunIsShort
      <4>2. n \in Nat /\ m \in Nat /\ k \in Nat /\ 3 * (m + k) + CyclesPerLine <= FrameDots
        <5>1. n \in Nat /\ m \in Nat
          BY <1>0, ToPollSums
        <5>2. 3 * (m + m) + CyclesPerLine <= FrameDots
          BY <1>0, <4>1, FrameBounds
        <5>3. CASE k = 0
          BY <1>0, <5>1, <5>2, <5>3, PpuConstants
        <5>4. CASE k \in ToPoll("irq")
          BY <1>0, <4>1, <5>1, <5>4, FrameBounds
        <5>5. QED
          BY <5>1, <5>3, <5>4
      <4> HIDE DEF o, room
      <4>3. QED
        BY <1>0, <1>a, <3>2, <4>1, <4>2, PpuConstants
    <3>4. \A n \in ToPoll(Place) : o + 3 * n < room
      <4>1. \A n \in ToPoll(Place) : n \in Nat /\ n + 0 = n
        BY <1>0, ToPollSums
      <4>2. QED
        BY <3>3, <4>1
    <3>5. QED
      BY <1>1, <2>1, <3>3, <3>4 DEF ServedInTime
  <2>4. QED
    BY <1>3, <2>2, <2>3, PpuStepCases, LineStepFlags
\* The end of a DMA that was held up.
<1>8. CASE Stalled /\ ~Stalled' /\ LoopStep
  <2>1. DmaEnd
    <3>1. dmaHeld' = dmaHeld /\ pc = "dma"
      BY <1>8, LoopStepHeld DEF Stalled
    <3>2. pc' # "dma"
      BY <1>8, <3>1 DEF Stalled
    <3>3. QED
      BY <1>8, <3>1, <3>2 DEF LoopStep, SyncDone, EnterNMI, CheckIRQ, PlainInsn, ReachRegister, ReadRegister,
         WriteRegister, DmaWrite, DmaByte, EndInsn
  <2>2. PICK odd \in {0, 1} : SyncDevices(1 + odd, "rest")
    BY <2>1 DEF DmaEnd
  <2>3. /\ AtRest /\ dmaLeft = 0 /\ Place' = "rest" /\ lag' = 0 /\ UNCHANGED <<scanLine, lastDot>>
        /\ dot' = dot + 3 * (1 + odd)
    BY <2>1, <2>2 DEF DmaEnd, SyncDevices, Ticks, Place
  <2>4. room = RoomToVblank /\ o <= 6 /\ ToPoll(Place)' = ToPoll("rest")
    <3>1. o = 3 * (1 + odd) + 3 * 0
      BY <1>0, <2>3 DEF Owed, AtRest
    <3>2. QED
      BY <2>3, <3>1 DEF RoomToVblank, ToPoll
  <2>5. RoomToVblank > VblankLine * CyclesPerLine /\ VblankLine * CyclesPerLine \in Nat
    <3>1. 0 \in 0..VblankEndLine /\ 0 \in 0..(CyclesPerLine - 1)
      BY PpuConstants DEF VblankEndLine
    <3>2. QED
      BY <1>8, <2>3, <3>1, HeldDmaEnds, BlankIsFar, RoomCases DEF CpuInv
  <2>6. ASSUME NEW n \in ToPoll("rest"), NEW m \in ToPoll("irq")
        PROVE  o + 3 * (n + m) < room /\ o + 3 * n < room
    <3>1. n \in Nat /\ m \in Nat /\ 6 + 3 * (n + m) <= VblankLine * CyclesPerLine
      BY <1>0, FrameBounds
    <3> HIDE DEF o, room
    <3>2. QED
      BY <1>0, <1>a, <2>4, <2>5, <3>1
  <2>7. \A n \in ToPoll("rest") : o + 3 * n < room
    BY <2>6, SomethingToPoll
  <2>8. QED
    BY <1>1, <2>4, <2>6, <2>7 DEF ServedInTime
<1>4. CASE LoopStep /\ ~Stalled
  <2>1. NoNearer /\ nmiSignal' = nmiSignal
    BY <1>4, LoopStepNoNearer, LoopStepFlags
  <2>2. ASSUME nmiPending' => nmiPending PROVE ServedInTime'
    <3>1. ASSUME NEW n \in ToPoll(Place)'
          PROVE  n \in Nat /\ \E b \in ToPoll(Place) : o + 3 * n - room <= Owed + 3 * b - RoomToVblank
      <4>1. PICK b \in ToPoll(Place) : o + 3 * n <= Owed + 3 * b
        BY <2>1, <3>1 DEF NoNearer
      <4>2. n \in Nat /\ b \in Nat /\ room = RoomToVblank
        BY <1>0, <2>1, <3>1, <4>1, ToPollSums DEF NoNearer
      <4> HIDE DEF o, room
      <4>3. QED
        BY <1>0, <1>a, <4>1, <4>2
    <3>2. QED
      BY <1>2, <1>4, <2>1, <2>2, <3>1
  <2>3. CASE UNCHANGED <<nmiPending, nmiEnabled>> \/ StatusRead
    <3>1. nmiPending' => nmiPending
      BY <2>3, Zenon DEF StatusRead
    <3>2. QED
      BY <2>2, <3>1
  <2>4. ASSUME pc = "access", pc' = "rest", NEW e \in BOOLEAN, CtrlWrite(e),
               nmiPending', ~nmiPending
        PROVE  ServedInTime'
    <3>1. AtRest /\ VblankAtCtrl
      <4>1. OneRequest /\ nmiEnabled \in BOOLEAN
        BY DEF CpuInv, LoopInv, PpuInv, TypeOK, FlagsOK
      <4>2. VblankAtCtrl
        BY <2>4, <4>1, CtrlWriteFlags DEF CpuInv, LoopInv
      <4>3. QED
        BY <2>4, <4>2 DEF CtrlWrite
    <3>2. RoomToVblank > VblankLine * CyclesPerLine /\ VblankLine * CyclesPerLine \in Nat
      <4>1. 0 \in 0..VblankEndLine /\ 0 \in 0..(CyclesPerLine - 1)
        BY PpuConstants DEF VblankEndLine
      <4>2. QED
        BY <3>1, <4>1, CtrlSeesBlank, BlankIsFar, RoomCases DEF CpuInv
    <3>3. Owed = 0
      BY <1>0, <2>4, <3>1 DEF Owed, AtRest, LoopOK
    <3>4. o = 0 /\ room = RoomToVblank /\ ToPoll(Place)' = ToPoll("rest")
      <4>1. Place' = "rest" /\ UNCHANGED <<scanLine, dot, lastDot, lag>>
        BY <1>4, <2>4 DEF Place, CtrlWrite, clockVars, LoopStep, SyncDone, EnterNMI, CheckIRQ,
           PlainInsn, ReachRegister, ReadRegister, WriteRegister, DmaWrite, DmaByte, DmaEnd, EndInsn
      <4>2. QED
        BY <3>3, <4>1 DEF Owed, RoomToVblank, ToPoll
    <3>5. ~nmiSignal
      <4>1. OneRequest /\ HeldUp /\ nmiEnabled \in BOOLEAN
        BY DEF CpuInv, LoopInv, PpuInv, TypeOK, FlagsOK
      <4>2. QED
        BY <2>4, <4>1, CtrlWriteFlags
    <3>6. ASSUME NEW n \in ToPoll("rest"), NEW m \in ToPoll("irq") PROVE o + 3 * (n + m) < room
      <4>1. n \in Nat /\ m \in Nat /\ 6 + 3 * (n + m) <= VblankLine * CyclesPerLine
        BY <1>0, FrameBounds
      <4> HIDE DEF o, room
      <4>2. QED
        BY <1>0, <3>2, <3>4, <4>1
    <3>7. QED
      BY <1>1, <2>1, <3>4, <3>5, <3>6 DEF ServedInTime
  <2>5. QED
    BY <1>4, <2>2, <2>3, <2>4, LoopStepFlags
<1>5. CASE PollNMI
  <2>1. /\ nmiPending' = FALSE /\ nmiSignal' = nmiPending
        /\ Place = "poll" /\ UNCHANGED <<scanLine, dot, lastDot, lag>>
        /\ Place' = IF nmiSignal THEN "nmi" ELSE "irq"
    BY <1>5 DEF PollNMI, CheckNMI, NmiFires, clockVars, Place
  <2>0. ~Stalled
    BY <1>5 DEF PollNMI, Stalled
  <2>2. ASSUME nmiPending, NEW m \in ToPoll("irq") PROVE Owed + 3 * m < RoomToVblank
    <3>1. 0 \in ToPoll(Place)
      BY <1>0, <2>1, ToPollSums
    <3>2. Owed + 3 * (0 + m) < RoomToVblank
      BY <1>0, <2>0, <2>2, <3>1 DEF ServedInTime
    <3>3. QED
      BY <1>1, <2>2, <3>2
  <2>3. ToPoll(Place)' = ToPoll("irq") /\ Owed' = Owed /\ RoomToVblank' = RoomToVblank
    BY <2>1 DEF ToPoll, Owed, RoomToVblank
  <2>4. QED
    BY <2>1, <2>2, <2>3 DEF ServedInTime
<1>6. CASE UNCHANGED nmiVars
  <2>1. UNCHANGED <<scanLine, dot, lastDot, pc, ret, lag, dmaLeft, dmaHeld, nmiSignal, nmiPending>>
    BY <1>6 DEF nmiVars, ppuVars, clockVars, statusVars, cpuVars
  <2>2. Owed' = Owed /\ RoomToVblank' = RoomToVblank /\ ToPoll(Place)' = ToPoll(Place)
    BY <2>1 DEF Owed, RoomToVblank, ToPoll, Place
  <2>3. QED
    BY <1>0, <1>1, <2>1, <2>2 DEF ServedInTime, Stalled
<1>9. QED
  BY <1>3, <1>4, <1>5, <1>6, <1>7, <1>8 DEF CpuNext, LoopStep

-----------------------------------------------------------------------------
\* The inductive invariant of the main loop over the PPU: it keeps back only cycles up
\* to the deadline, and serves each request before the next vblank; a DMA that rendering
\* holds up is the exception, and it lasts into that vblank (cpu.c 114-147, 387-431, ppu.c
\* 447-454, render.c 502-579).
THEOREM CpuInvariant == CpuSpec => []CpuInv
<1>1. CpuInv /\ [CpuNext]_nmiVars => CpuInv'
  BY CpuPpuStep, LoopOKStep, HeldUpStep, OverrunStep, OneRequestStep, ServedStep DEF CpuInv, LoopInv
<1>2. QED
  BY <1>1, CpuInitInv, PTL DEF CpuSpec

\* NeverOverdue of every reachable state: for every geometry of the frame, every table of
\* instructions and whatever the APU says of its interrupts, the cycles kept back at a
\* poll end before dot 2 of the vblank line (cpu.c 114-147, ppu.c 129-142).
THEOREM NeverOverdueTheorem == CpuSpec => []NeverOverdue
<1>1. CpuInv => NeverOverdue
  <2> SUFFICES ASSUME CpuInv, pc = "poll" PROVE 3 * lag <= DotsToVblank
    BY DEF NeverOverdue
  <2>1. 3 * lag <= RoomToVblank /\ lag \in Nat
    BY LagLeavesRoom DEF Running, CpuInv, LoopInv, LoopOK
  <2>2. RoomToVblank <= DotsToVblank /\ RoomToVblank \in Int
    BY RoomBelowDistance, RoomIsPositive DEF CpuInv
  <2>3. DotsToVblank \in Int
    <3>1. /\ scanLine \in 0..VblankEndLine /\ lastDot \in 0..(CyclesPerLine - 1)
      BY DEF CpuInv, PpuInv, TypeOK, ClockOK
    <3>2. /\ scanLine * CyclesPerLine \in Nat /\ VblankLine * CyclesPerLine \in Nat /\ FrameDots \in Nat
      BY <3>1, RoomCases
    <3>3. QED
      BY <3>1, <3>2 DEF DotsToVblank, SkipAhead
  <2>4. QED
    BY <2>1, <2>2, <2>3
<1>2. QED
  BY <1>1, CpuInvariant, PTL

\* Every step of the console is a step of the NMI line or leaves it alone.
LEMMA NmiLineStep ==
  ASSUME CpuInv, CpuInv', [CpuNext]_nmiVars
  PROVE  [Line!LineNext]_(Line!lineVars)
<1> USE DEF Line!LineNext, Line!lineVars, Line!Hold, Line!Raise, Line!Collide, Line!Withdraw, Line!Poll, Line!Enter
<1>0. /\ nmiSignal \in BOOLEAN /\ nmiPending \in BOOLEAN /\ nmiEnabled \in BOOLEAN
      /\ nmiSignal' \in BOOLEAN /\ nmiPending' \in BOOLEAN
      /\ dmaHeld \in BOOLEAN /\ dmaHeld' \in BOOLEAN
      /\ OneRequest /\ (nmiSignal /\ nmiPending => dmaHeld) /\ (nmiSignal' /\ nmiPending' => dmaHeld')
  BY DEF CpuInv, LoopInv, PpuInv, TypeOK, FlagsOK, HeldUp, OneRequest
<1>1. CASE PpuStep
  <2>1. pc' = pc /\ pc # "nmi" /\ (dmaHeld' = dmaHeld \/ (Restart /\ dmaHeld'))
    BY <1>1, PpuStepCases, LineStepFlags DEF CpuInv, LoopInv, InTime, Running, Restart
  <2>2. CASE UNCHANGED <<nmiSignal, nmiPending>>
    BY <1>0, <2>1, <2>2
  <2>3. CASE scanLine = VblankLine /\ PassesDot1 /\ EnterVblank
    <3>1. dmaHeld' = dmaHeld /\ (~Stalled => ~nmiSignal /\ ~nmiPending)
      BY <1>1, <2>1, <2>3, PpuStepNearer
    <3>2. (nmiSignal => nmiSignal') /\ (nmiPending => nmiPending')
      BY <2>3, Zenon DEF EnterVblank
    <3>3. CASE ~nmiSignal /\ ~nmiPending
      <4>1. ~(nmiSignal' /\ nmiPending')
        <5>1. /\ nmiSignal' => dot > 3
              /\ nmiPending' => dot <= 3
          BY <2>3, <3>3, Zenon DEF EnterVblank
        <5>2. ~(dot > 3 /\ dot <= 3)
          BY DEF CpuInv, PpuInv, TypeOK, ClockOK
        <5>3. QED
          BY <5>1, <5>2
      <4>2. QED
        BY <1>0, <2>1, <3>1, <3>3, <4>1
    <3>4. CASE nmiSignal \/ nmiPending
      <4>1. dmaHeld
        BY <3>1, <3>4 DEF Stalled
      <4>2. QED
        BY <1>0, <2>1, <3>1, <3>2, <3>4, <4>1
    <3>5. QED
      BY <1>0, <3>3, <3>4
  <2>4. QED
    BY <1>1, <2>2, <2>3, PpuStepCases, LineStepFlags
<1>2. CASE LoopStep
  <2>1. pc' # "nmi" /\ nmiSignal' = nmiSignal /\ dmaHeld' = dmaHeld
    BY <1>2, LoopStepFlags, LoopStepHeld
  <2>2. CASE UNCHANGED nmiPending
    BY <1>0, <2>1, <2>2
  <2>3. CASE pc = "access" /\ (StatusRead \/ \E e \in BOOLEAN : CtrlWrite(e))
    <3>1. ~dmaHeld
      BY <2>3 DEF CpuInv, LoopInv, HeldUp, Place
    <3>2. StatusRead => (nmiPending' => nmiPending)
      BY Zenon DEF StatusRead
    <3>3. ~(nmiSignal /\ nmiPending) /\ ~(nmiSignal' /\ nmiPending')
      BY <1>0, <2>1, <3>1
    <3>4. QED
      BY <1>0, <2>1, <2>3, <3>1, <3>3
  <2>4. QED
    BY <1>2, <2>2, <2>3, LoopStepFlags
<1>3. CASE PollNMI
  <2>1. /\ nmiPending' = FALSE /\ nmiSignal' = nmiPending /\ dmaHeld' = FALSE
        /\ pc = "poll" /\ pc' = IF nmiSignal THEN "nmi" ELSE "irq"
    BY <1>3 DEF PollNMI, CheckNMI, NmiFires
  <2>2. QED
    BY <1>0, <2>1
<1>4. CASE UNCHANGED nmiVars
  BY <1>4 DEF nmiVars, ppuVars, statusVars, cpuVars
<1>5. QED
  BY <1>1, <1>2, <1>3, <1>4 DEF CpuNext, LoopStep

\* A vblank begins with no request waiting, or in a DMA that was held up.
LEMMA VblankMeetsNone ==
  ASSUME CpuInv, [CpuNext]_nmiVars, ~vblank, vblank', nmiSignal \/ nmiPending
  PROVE  dmaHeld
<1>1. PpuStep
  <2>1. CASE UNCHANGED vblank
    BY <2>1
  <2>2. CASE StatusRead \/ \E e \in BOOLEAN : CtrlWrite(e)
    BY <2>2, Zenon DEF StatusRead, CtrlWrite, VblankAtCtrl
  <2>3. ASSUME NEW e \in BOOLEAN, MaskWrite(e) PROVE UNCHANGED vblank
    BY <2>3, Zenon DEF MaskWrite, statusVars
  <2>4. ASSUME NEW n, Ticks(n) PROVE UNCHANGED vblank
    BY <2>4, Zenon DEF Ticks, statusVars
  <2>5. UNCHANGED ppuVars => UNCHANGED vblank
    BY Zenon DEF ppuVars, statusVars
  <2>6. CheckNMI => UNCHANGED vblank
    BY Zenon DEF CheckNMI
  <2>7. ASSUME NEW c, NEW next, CpuTick(c, next) \/ SyncDevices(c, next) PROVE UNCHANGED vblank
    BY <2>4, <2>5, <2>7, Zenon DEF CpuTick, SyncDevices
  <2>8. CASE SyncDone \/ PollNMI \/ EnterNMI \/ CheckIRQ \/ PlainInsn \/ ReachRegister \/ ReadRegister
               \/ WriteRegister \/ DmaWrite \/ DmaByte \/ DmaEnd \/ EndInsn
    BY <2>1, <2>2, <2>3, <2>4, <2>5, <2>6, <2>7, <2>8, Zenon
    DEF SyncDone, PollNMI, EnterNMI, CheckIRQ, PlainInsn, ReachRegister, ReadRegister, WriteRegister,
        DmaWrite, DmaByte, DmaEnd, EndInsn
  <2>9. UNCHANGED nmiVars => UNCHANGED vblank
    BY <2>5, Zenon DEF nmiVars
  <2>10. QED
    BY <2>1, <2>8, <2>9, Zenon DEF CpuNext
<1>2. scanLine = VblankLine /\ PassesDot1
  <2>1. LineStep
    BY <1>1, PpuStepCases
  <2>2. ASSUME VisibleLine \/ PostRender \/ VblankIdle \/ VblankEnd PROVE UNCHANGED vblank
    BY <2>2, Zenon DEF VisibleLine, PostRender, VblankIdle, VblankEnd, statusVars
  <2>3. PreRender => (vblank' => vblank)
    BY Zenon DEF PreRender
  <2>4. VblankStart => (UNCHANGED vblank \/ (scanLine = VblankLine /\ PassesDot1))
    BY Zenon DEF VblankStart, SuppressVblank, statusVars
  <2>5. QED
    BY <2>1, <2>2, <2>3, <2>4, Zenon DEF LineStep
<1>3. Stalled
  BY <1>1, <1>2, PpuStepNearer
<1>4. QED
  BY <1>3 DEF Stalled

\* CpuMainLoop and the PPU implement NmiLine: a request is lost to a $2002 read or a $2000
\* write only while it is one poll old, an older one is served by the next poll, and there
\* is never more than one, nor does a vblank find one waiting, unless a DMA has been held
\* up (cpu.c 387-424, ppu.c 51-68 and 91-127, 258-276, 447-454).
THEOREM NmiLineTheorem == CpuSpec => NmiLineSpec
<1>1. CpuInit => Line!LineInit
  BY DEF CpuInit, PpuInit, Line!LineInit
<1>2. CpuInv /\ CpuInv' /\ [CpuNext]_nmiVars => [Line!LineNext]_(Line!lineVars)
  BY NmiLineStep
<1>3. CpuInv /\ [CpuNext]_nmiVars => [~vblank /\ vblank' /\ (nmiSignal \/ nmiPending) => dmaHeld]_nmiVars
  BY VblankMeetsNone
<1>4. QED
  BY <1>1, <1>2, <1>3, CpuInvariant, PTL DEF CpuSpec, NmiLineSpec, Line!LineSpec

-----------------------------------------------------------------------------
(***************************************************************************)
(* The twin of PpuBatching.  A spot is where a PPU has got to, with what   *)
(* the registers and the flags say there; req is whether an NMI is         *)
(* outstanding, in a calm batch.  Between the two PPUs lies the way from   *)
(* the twin to the batched one, dot by dot: a function r from the number   *)
(* of dots to a spot.  A line handler of the batched PPU, whose n dots are *)
(* n single ones as long as the line lasts, makes it longer, and one of    *)
(* the twin, which is given three dots at a time, shorter; when no cycle   *)
(* is owed the two are at the same spot.                                   *)
(***************************************************************************)
Spot ==
  [line |-> scanLine, pos |-> lastDot, odd |-> oddFrame, vblank |-> vblank, readRC |-> readRC,
   due |-> frameDue, req |-> calm /\ Requested, calm |-> calm, enabled |-> nmiEnabled,
   rendering |-> rendering]
TwinSpot ==
  [line |-> tScanLine, pos |-> tLastDot, odd |-> tOddFrame, vblank |-> tVblank, readRC |-> tReadRC,
   due |-> tFrameDue, req |-> calm /\ TwinRequested, calm |-> calm, enabled |-> tNmiEnabled,
   rendering |-> tRendering]

SpotOK(s) ==
  /\ s.line \in 0..VblankEndLine /\ s.pos \in 0..(CyclesPerLine - 1)
  /\ s.line = VblankEndLine => s.pos = 0
  /\ s.due => s.line < PostRenderLine \/ (s.line = PostRenderLine /\ s.pos = 0)
  /\ s.odd \in BOOLEAN /\ s.vblank \in BOOLEAN /\ s.readRC \in BOOLEAN /\ s.due \in BOOLEAN
  /\ s.req \in BOOLEAN /\ s.calm \in BOOLEAN /\ s.enabled \in BOOLEAN /\ s.rendering \in BOOLEAN

\* n dots on: the odd frame's skip, dot 1 of a line, the vblank.
Skips(s, n) ==
  s.line = PreRenderLine /\ s.odd /\ s.rendering /\ s.pos <= OddSkipDot /\ s.pos + n > OddSkipDot
Reached(s, n) == s.pos + n + (IF Skips(s, n) THEN 1 ELSE 0)
Passes(s, n) == s.pos <= 1 /\ s.pos + n > 1
Begins(s, n) == s.line = VblankLine /\ Passes(s, n)

\* The flags n dots on, at a place that they do not depend on.
Marked(s, n, line, pos) ==
  [line |-> line, pos |-> pos, odd |-> s.odd,
   vblank |-> (s.vblank \/ (Begins(s, n) /\ ~s.readRC)) /\ ~(s.line = PreRenderLine /\ Passes(s, n)),
   readRC |-> s.readRC /\ ~Begins(s, n),
   due |-> s.due /\ ~(s.line = PostRenderLine /\ s.pos = 0),
   req |-> s.req \/ (s.calm /\ s.enabled /\ Begins(s, n) /\ ~s.readRC),
   calm |-> s.calm, enabled |-> s.enabled, rendering |-> s.rendering]

\* A line handler that is given n dots uses them up or goes to the end of the line.
Handled(s, n) ==
  IF Reached(s, n) >= CyclesPerLine THEN Marked(s, n, s.line + 1, 0)
  ELSE Marked(s, n, s.line, Reached(s, n))
DotsLeft(s, n) == IF Reached(s, n) >= CyclesPerLine THEN Reached(s, n) - CyclesPerLine ELSE 0

LEMMA SameBool == \A a, b \in BOOLEAN : (a <=> b) => a = b
OBVIOUS

LEMMA HandledSpot ==
  ASSUME SpotOK(Spot), dot \in Nat, lastDot <= dot, LineStep, scanLine # VblankEndLine,
         calm' = calm
  PROVE  /\ Spot' = Handled(Spot, dot - lastDot)
         /\ dot' - lastDot' = DotsLeft(Spot, dot - lastDot)
         /\ dot > lastDot
<1> DEFINE n == dot - lastDot
<1>1. /\ Spot.line = scanLine /\ Spot.pos = lastDot /\ Spot.odd = oddFrame /\ Spot.vblank = vblank
      /\ Spot.readRC = readRC /\ Spot.due = frameDue /\ Spot.req = (calm /\ Requested)
      /\ Spot.calm = calm /\ Spot.enabled = nmiEnabled /\ Spot.rendering = rendering
  BY DEF Spot
<1>0. /\ scanLine \in 0..VblankEndLine /\ dot \in Nat /\ lastDot \in Nat /\ dot > lastDot
      /\ oddFrame \in BOOLEAN /\ vblank \in BOOLEAN /\ readRC \in BOOLEAN /\ frameDue \in BOOLEAN
      /\ nmiEnabled \in BOOLEAN /\ rendering \in BOOLEAN /\ calm \in BOOLEAN
  <2>1. ~AtRest
    BY DEF LineStep, VisibleLine, PostRender, VblankStart, VblankIdle, PreRender, VblankEnd
  <2>2. lastDot # dot
    BY <2>1, Zenon DEF AtRest
  <2>. QED BY <1>1, <2>2, PpuConstants DEF SpotOK
<1>2. n \in Nat \ {0} /\ lastDot + n = dot
  BY <1>0
<1> HIDE DEF n
<1> DEFINE skips == scanLine = PreRenderLine /\ oddFrame /\ rendering /\ lastDot <= OddSkipDot
                      /\ dot > OddSkipDot
           to == dot + (IF skips THEN 1 ELSE 0)
           begins == scanLine = VblankLine /\ PassesDot1
<1>3. Skips(Spot, n) = skips /\ Reached(Spot, n) = to /\ Passes(Spot, n) = PassesDot1
      /\ Begins(Spot, n) = begins
  BY <1>1, <1>2 DEF Skips, Reached, Passes, PassesDot1, Begins
<1> DEFINE vb == (vblank \/ (begins /\ ~readRC)) /\ ~(scanLine = PreRenderLine /\ PassesDot1)
           rc == readRC /\ ~begins
           du == frameDue /\ ~(scanLine = PostRenderLine /\ lastDot = 0)
           rq == Requested \/ (nmiEnabled /\ begins /\ ~readRC)
<1>4. /\ FinishLine(to) /\ UNCHANGED <<oddFrame, nmiEnabled, rendering>>
      /\ (vblank' <=> vb) /\ (readRC' <=> rc) /\ (frameDue' <=> du) /\ (Requested' <=> rq)
  <2>1. /\ PostRenderLine # VblankLine /\ PostRenderLine # PreRenderLine /\ VblankLine # PreRenderLine
    BY PpuConstants DEF VblankLine
  <2>2. ~skips => to = dot
    BY <1>0
  <2>3. CASE VisibleLine \/ VblankIdle
    <3>1. ~(scanLine = PostRenderLine) /\ ~(scanLine = VblankLine) /\ ~(scanLine = PreRenderLine)
      BY <1>0, <2>3, PpuConstants DEF VisibleLine, VblankIdle, VblankLine
    <3>2. to = dot
      BY <2>2, <3>1, Zenon
    <3>3. /\ FinishLine(dot) /\ UNCHANGED <<oddFrame, nmiEnabled, rendering>>
          /\ UNCHANGED <<vblank, readRC, nmiPending, nmiSignal, frameDue>>
      BY <2>3 DEF VisibleLine, VblankIdle, statusVars, regVars
    <3> HIDE DEF to
    <3>. QED BY <3>1, <3>2, <3>3, Zenon DEF Requested
  <2>4. CASE PostRender
    <3>1. scanLine = PostRenderLine /\ ~(scanLine = VblankLine) /\ ~(scanLine = PreRenderLine)
      BY <2>1, <2>4 DEF PostRender
    <3>2. to = dot
      BY <2>2, <3>1, Zenon
    <3>3. /\ FinishLine(dot) /\ UNCHANGED <<oddFrame, nmiEnabled, rendering>>
          /\ UNCHANGED <<vblank, readRC, nmiPending, nmiSignal>>
          /\ frameDue' = IF lastDot = 0 THEN FALSE ELSE frameDue
      BY <2>4 DEF PostRender, statusVars, regVars
    <3> HIDE DEF to
    <3>. QED BY <3>1, <3>2, <3>3, Zenon DEF Requested
  <2>5. CASE VblankStart
    <3>1. scanLine = VblankLine /\ ~(scanLine = PostRenderLine) /\ ~(scanLine = PreRenderLine)
      BY <2>1, <2>5 DEF VblankStart
    <3>2. to = dot
      BY <2>2, <3>1, Zenon
    <3>3. /\ FinishLine(dot) /\ UNCHANGED <<oddFrame, nmiEnabled, rendering, frameDue>>
      BY <2>5 DEF VblankStart, regVars
    <3> HIDE DEF to
    <3>4. dot > 3 <=> ~(dot <= 3)
      BY <1>0
    <3>5. CASE PassesDot1 /\ ~readRC /\ EnterVblank
      BY <3>1, <3>2, <3>3, <3>4, <3>5, Zenon DEF EnterVblank, Requested
    <3>6. CASE PassesDot1 /\ readRC /\ SuppressVblank
      BY <3>1, <3>2, <3>3, <3>6, Zenon DEF SuppressVblank, Requested
    <3>7. CASE ~PassesDot1 /\ UNCHANGED statusVars
      <4>1. UNCHANGED <<vblank, readRC, nmiPending, nmiSignal>>
        BY <3>7 DEF statusVars
      <4>. QED BY <3>1, <3>2, <3>3, <3>7, <4>1, Zenon DEF Requested
    <3>. QED BY <2>5, <3>5, <3>6, <3>7 DEF VblankStart
  <2>6. CASE PreRender
    <3>1. scanLine = PreRenderLine /\ ~(scanLine = PostRenderLine) /\ ~(scanLine = VblankLine)
      BY <2>1, <2>6 DEF PreRender
    <3>2. to = PreRenderDot
      BY <1>0, <3>1 DEF PreRenderDot
    <3>3. /\ FinishLine(PreRenderDot) /\ UNCHANGED <<oddFrame, nmiEnabled, rendering, frameDue>>
          /\ UNCHANGED <<readRC, nmiPending, nmiSignal>> /\ vblank' = (vblank /\ ~PassesDot1)
      BY <2>6, Zenon DEF PreRender, regVars
    <3> HIDE DEF to
    <3>. QED BY <3>1, <3>2, <3>3, Zenon DEF Requested
  <2>7. ~VblankEnd
    BY DEF VblankEnd
  <2>. QED BY <2>3, <2>4, <2>5, <2>6, <2>7 DEF LineStep
<1>5. vblank' = vb /\ readRC' = rc /\ frameDue' = du
      /\ (calm /\ Requested)' = ((calm /\ Requested) \/ (calm /\ nmiEnabled /\ begins /\ ~readRC))
  <2>1. vblank' \in BOOLEAN /\ readRC' \in BOOLEAN /\ frameDue' \in BOOLEAN
    BY <1>0, Zenon DEF LineStep, VisibleLine, PostRender, VblankStart, VblankIdle, PreRender,
         VblankEnd, EnterVblank, SuppressVblank, statusVars
  <2>2. vb \in BOOLEAN /\ rc \in BOOLEAN /\ du \in BOOLEAN
    BY Zenon
  <2>3. vblank' = vb /\ readRC' = rc /\ frameDue' = du
    BY <1>4, <2>1, <2>2, SameBool, Zenon
  <2> DEFINE a == (calm /\ Requested)'
             b == (calm /\ Requested) \/ (calm /\ nmiEnabled /\ begins /\ ~readRC)
  <2>4. a <=> b
    BY <1>4, Zenon
  <2>5. a \in BOOLEAN /\ b \in BOOLEAN
    BY Zenon
  <2>6. a = b
    BY <2>4, <2>5, SameBool, Zenon
  <2>. QED BY <2>3, <2>6, Zenon
<1>6. /\ scanLine' = IF to >= CyclesPerLine THEN scanLine + 1 ELSE scanLine
      /\ lastDot' = IF to >= CyclesPerLine THEN 0 ELSE to
      /\ dot' = IF to >= CyclesPerLine THEN to - CyclesPerLine ELSE to
  BY <1>4 DEF FinishLine
<1> HIDE DEF skips, to, begins
<1>7. Spot' = IF to >= CyclesPerLine THEN Marked(Spot, n, scanLine + 1, 0)
              ELSE Marked(Spot, n, scanLine, to)
  <2>1. \A l, p : Marked(Spot, n, l, p) =
         [line |-> l, pos |-> p, odd |-> oddFrame, vblank |-> vb, readRC |-> rc, due |-> du,
          req |-> (calm /\ Requested) \/ (calm /\ nmiEnabled /\ begins /\ ~readRC), calm |-> calm,
          enabled |-> nmiEnabled, rendering |-> rendering]
    BY <1>1, <1>3, Zenon DEF Marked
  <2>2. Spot' = [line |-> scanLine', pos |-> lastDot', odd |-> oddFrame, vblank |-> vb, readRC |-> rc,
          due |-> du,
          req |-> (calm /\ Requested) \/ (calm /\ nmiEnabled /\ begins /\ ~readRC), calm |-> calm,
          enabled |-> nmiEnabled, rendering |-> rendering]
    BY <1>4, <1>5, Zenon DEF Spot
  <2> DEFINE re == (calm /\ Requested) \/ (calm /\ nmiEnabled /\ begins /\ ~readRC)
  <2> HIDE DEF vb, rc, du, re
  <2>3. CASE to >= CyclesPerLine
    <3>1. scanLine' = scanLine + 1 /\ lastDot' = 0
      BY <1>6, <2>3
    <3>. QED BY <2>1, <2>2, <2>3, <3>1, Zenon
  <2>4. CASE ~(to >= CyclesPerLine)
    <3>1. scanLine' = scanLine /\ lastDot' = to
      BY <1>6, <2>4
    <3>. QED BY <2>1, <2>2, <2>4, <3>1, Zenon
  <2>. QED BY <2>3, <2>4
<1>8. Spot' = Handled(Spot, n)
  BY <1>1, <1>3, <1>7, Zenon DEF Handled
<1>9. dot' - lastDot' = DotsLeft(Spot, n)
  <2>1. to \in Nat
    BY <1>0 DEF to
  <2>. QED BY <1>3, <1>6, <2>1, PpuConstants DEF DotsLeft
<1>. QED BY <1>0, <1>8, <1>9 DEF n

\* The same of the twin.
LEMMA TwinHandledSpot ==
  ASSUME SpotOK(TwinSpot), tDot \in Nat, tLastDot <= tDot, Twin!LineStep, tScanLine # VblankEndLine,
         calm' = calm
  PROVE  /\ TwinSpot' = Handled(TwinSpot, tDot - tLastDot)
         /\ tDot' - tLastDot' = DotsLeft(TwinSpot, tDot - tLastDot)
         /\ tDot > tLastDot
<1> DEFINE n == tDot - tLastDot
<1>1. /\ TwinSpot.line = tScanLine /\ TwinSpot.pos = tLastDot /\ TwinSpot.odd = tOddFrame
         /\ TwinSpot.vblank = tVblank
      /\ TwinSpot.readRC = tReadRC /\ TwinSpot.due = tFrameDue /\ TwinSpot.req = (calm /\ TwinRequested)
      /\ TwinSpot.calm = calm /\ TwinSpot.enabled = tNmiEnabled /\ TwinSpot.rendering = tRendering
  BY DEF TwinSpot
<1>0. /\ tScanLine \in 0..VblankEndLine /\ tDot \in Nat /\ tLastDot \in Nat /\ tDot > tLastDot
      /\ tOddFrame \in BOOLEAN /\ tVblank \in BOOLEAN /\ tReadRC \in BOOLEAN /\ tFrameDue \in BOOLEAN
      /\ tNmiEnabled \in BOOLEAN /\ tRendering \in BOOLEAN /\ calm \in BOOLEAN
  <2>1. ~Twin!AtRest
    BY DEF Twin!LineStep, Twin!VisibleLine, Twin!PostRender, Twin!VblankStart, Twin!VblankIdle,
           Twin!PreRender, Twin!VblankEnd
  <2>2. tLastDot # tDot
    BY <2>1, Zenon DEF Twin!AtRest
  <2>. QED BY <1>1, <2>2, PpuConstants DEF SpotOK
<1>2. n \in Nat \ {0} /\ tLastDot + n = tDot
  BY <1>0
<1> HIDE DEF n
<1> DEFINE skips == tScanLine = PreRenderLine /\ tOddFrame /\ tRendering /\ tLastDot <= OddSkipDot
                      /\ tDot > OddSkipDot
           to == tDot + (IF skips THEN 1 ELSE 0)
           begins == tScanLine = VblankLine /\ Twin!PassesDot1
<1>3. Skips(TwinSpot, n) = skips /\ Reached(TwinSpot, n) = to /\ Passes(TwinSpot, n) = Twin!PassesDot1
      /\ Begins(TwinSpot, n) = begins
  BY <1>1, <1>2 DEF Skips, Reached, Passes, Twin!PassesDot1, Begins
<1> DEFINE vb == (tVblank \/ (begins /\ ~tReadRC)) /\ ~(tScanLine = PreRenderLine /\ Twin!PassesDot1)
           rc == tReadRC /\ ~begins
           du == tFrameDue /\ ~(tScanLine = PostRenderLine /\ tLastDot = 0)
           rq == TwinRequested \/ (tNmiEnabled /\ begins /\ ~tReadRC)
<1>4. /\ Twin!FinishLine(to) /\ UNCHANGED <<tOddFrame, tNmiEnabled, tRendering>>
      /\ (tVblank' <=> vb) /\ (tReadRC' <=> rc) /\ (tFrameDue' <=> du) /\ (TwinRequested' <=> rq)
  <2>0. Twin!VblankLine = VblankLine /\ Twin!VblankEndLine = VblankEndLine
    BY DEF Twin!VblankLine, VblankLine, Twin!VblankEndLine, VblankEndLine
  <2>1. /\ PostRenderLine # VblankLine /\ PostRenderLine # PreRenderLine /\ VblankLine # PreRenderLine
    BY PpuConstants DEF VblankLine
  <2>2. ~skips => to = tDot
    BY <1>0
  <2>3. CASE Twin!VisibleLine \/ Twin!VblankIdle
    <3>1. ~(tScanLine = PostRenderLine) /\ ~(tScanLine = VblankLine) /\ ~(tScanLine = PreRenderLine)
      BY <1>0, <2>0, <2>3, PpuConstants DEF Twin!VisibleLine, Twin!VblankIdle, VblankLine
    <3>2. to = tDot
      BY <2>2, <3>1, Zenon
    <3>3. /\ Twin!FinishLine(tDot) /\ UNCHANGED <<tOddFrame, tNmiEnabled, tRendering>>
          /\ UNCHANGED <<tVblank, tReadRC, tNmiPending, tNmiSignal, tFrameDue>>
      BY <2>3 DEF Twin!VisibleLine, Twin!VblankIdle, Twin!statusVars, Twin!regVars
    <3> HIDE DEF to
    <3>. QED BY <3>1, <3>2, <3>3, Zenon DEF TwinRequested
  <2>4. CASE Twin!PostRender
    <3>1. tScanLine = PostRenderLine /\ ~(tScanLine = VblankLine) /\ ~(tScanLine = PreRenderLine)
      BY <2>1, <2>4 DEF Twin!PostRender
    <3>2. to = tDot
      BY <2>2, <3>1, Zenon
    <3>3. /\ Twin!FinishLine(tDot) /\ UNCHANGED <<tOddFrame, tNmiEnabled, tRendering>>
          /\ UNCHANGED <<tVblank, tReadRC, tNmiPending, tNmiSignal>>
          /\ tFrameDue' = IF tLastDot = 0 THEN FALSE ELSE tFrameDue
      BY <2>4 DEF Twin!PostRender, Twin!statusVars, Twin!regVars
    <3> HIDE DEF to
    <3>. QED BY <3>1, <3>2, <3>3, Zenon DEF TwinRequested
  <2>5. CASE Twin!VblankStart
    <3>1. tScanLine = VblankLine /\ ~(tScanLine = PostRenderLine) /\ ~(tScanLine = PreRenderLine)
      BY <2>0, <2>1, <2>5 DEF Twin!VblankStart
    <3>2. to = tDot
      BY <2>2, <3>1, Zenon
    <3>3. /\ Twin!FinishLine(tDot) /\ UNCHANGED <<tOddFrame, tNmiEnabled, tRendering, tFrameDue>>
      BY <2>5 DEF Twin!VblankStart, Twin!regVars
    <3> HIDE DEF to
    <3>4. tDot > 3 <=> ~(tDot <= 3)
      BY <1>0
    <3>5. CASE Twin!PassesDot1 /\ ~tReadRC /\ Twin!EnterVblank
      BY <3>1, <3>2, <3>3, <3>4, <3>5, Zenon DEF Twin!EnterVblank, TwinRequested
    <3>6. CASE Twin!PassesDot1 /\ tReadRC /\ Twin!SuppressVblank
      BY <3>1, <3>2, <3>3, <3>6, Zenon DEF Twin!SuppressVblank, TwinRequested
    <3>7. CASE ~Twin!PassesDot1 /\ UNCHANGED Twin!statusVars
      <4>1. UNCHANGED <<tVblank, tReadRC, tNmiPending, tNmiSignal>>
        BY <3>7 DEF Twin!statusVars
      <4>. QED BY <3>1, <3>2, <3>3, <3>7, <4>1, Zenon DEF TwinRequested
    <3>. QED BY <2>5, <3>5, <3>6, <3>7 DEF Twin!VblankStart
  <2>6. CASE Twin!PreRender
    <3>1. tScanLine = PreRenderLine /\ ~(tScanLine = PostRenderLine) /\ ~(tScanLine = VblankLine)
      BY <2>1, <2>6 DEF Twin!PreRender
    <3>2. to = Twin!PreRenderDot
      BY <1>0, <3>1 DEF Twin!PreRenderDot
    <3>3. /\ Twin!FinishLine(Twin!PreRenderDot)
             /\ UNCHANGED <<tOddFrame, tNmiEnabled, tRendering, tFrameDue>>
          /\ UNCHANGED <<tReadRC, tNmiPending, tNmiSignal>> /\ tVblank' = (tVblank /\ ~Twin!PassesDot1)
      BY <2>6, Zenon DEF Twin!PreRender, Twin!regVars
    <3> HIDE DEF to
    <3>. QED BY <3>1, <3>2, <3>3, Zenon DEF TwinRequested
  <2>7. ~Twin!VblankEnd
    BY <2>0 DEF Twin!VblankEnd
  <2>. QED BY <2>3, <2>4, <2>5, <2>6, <2>7 DEF Twin!LineStep
<1>5. tVblank' = vb /\ tReadRC' = rc /\ tFrameDue' = du
      /\ (calm /\ TwinRequested)' = ((calm /\ TwinRequested) \/ (calm /\ tNmiEnabled /\ begins
         /\ ~tReadRC))
  <2>1. tVblank' \in BOOLEAN /\ tReadRC' \in BOOLEAN /\ tFrameDue' \in BOOLEAN
    BY <1>0, Zenon DEF Twin!LineStep, Twin!VisibleLine, Twin!PostRender, Twin!VblankStart,
                       Twin!VblankIdle, Twin!PreRender,
         Twin!VblankEnd, Twin!EnterVblank, Twin!SuppressVblank, Twin!statusVars
  <2>2. vb \in BOOLEAN /\ rc \in BOOLEAN /\ du \in BOOLEAN
    BY Zenon
  <2>3. tVblank' = vb /\ tReadRC' = rc /\ tFrameDue' = du
    BY <1>4, <2>1, <2>2, SameBool, Zenon
  <2> DEFINE a == (calm /\ TwinRequested)'
             b == (calm /\ TwinRequested) \/ (calm /\ tNmiEnabled /\ begins /\ ~tReadRC)
  <2>4. a <=> b
    BY <1>4, Zenon
  <2>5. a \in BOOLEAN /\ b \in BOOLEAN
    BY Zenon
  <2>6. a = b
    BY <2>4, <2>5, SameBool, Zenon
  <2>. QED BY <2>3, <2>6, Zenon
<1>6. /\ tScanLine' = IF to >= CyclesPerLine THEN tScanLine + 1 ELSE tScanLine
      /\ tLastDot' = IF to >= CyclesPerLine THEN 0 ELSE to
      /\ tDot' = IF to >= CyclesPerLine THEN to - CyclesPerLine ELSE to
  BY <1>4 DEF Twin!FinishLine
<1> HIDE DEF skips, to, begins
<1>7. TwinSpot' = IF to >= CyclesPerLine THEN Marked(TwinSpot, n, tScanLine + 1, 0)
              ELSE Marked(TwinSpot, n, tScanLine, to)
  <2>1. \A l, p : Marked(TwinSpot, n, l, p) =
         [line |-> l, pos |-> p, odd |-> tOddFrame, vblank |-> vb, readRC |-> rc, due |-> du,
          req |-> (calm /\ TwinRequested) \/ (calm /\ tNmiEnabled /\ begins /\ ~tReadRC), calm |-> calm,
          enabled |-> tNmiEnabled, rendering |-> tRendering]
    BY <1>1, <1>3, Zenon DEF Marked
  <2>2. TwinSpot' = [line |-> tScanLine', pos |-> tLastDot', odd |-> tOddFrame, vblank |-> vb,
          readRC |-> rc,
          due |-> du,
          req |-> (calm /\ TwinRequested) \/ (calm /\ tNmiEnabled /\ begins /\ ~tReadRC), calm |-> calm,
          enabled |-> tNmiEnabled, rendering |-> tRendering]
    BY <1>4, <1>5, Zenon DEF TwinSpot
  <2> DEFINE re == (calm /\ TwinRequested) \/ (calm /\ tNmiEnabled /\ begins /\ ~tReadRC)
  <2> HIDE DEF vb, rc, du, re
  <2>3. CASE to >= CyclesPerLine
    <3>1. tScanLine' = tScanLine + 1 /\ tLastDot' = 0
      BY <1>6, <2>3
    <3>. QED BY <2>1, <2>2, <2>3, <3>1, Zenon
  <2>4. CASE ~(to >= CyclesPerLine)
    <3>1. tScanLine' = tScanLine /\ tLastDot' = to
      BY <1>6, <2>4
    <3>. QED BY <2>1, <2>2, <2>4, <3>1, Zenon
  <2>. QED BY <2>3, <2>4
<1>8. TwinSpot' = Handled(TwinSpot, n)
  BY <1>1, <1>3, <1>7, Zenon DEF Handled
<1>9. tDot' - tLastDot' = DotsLeft(TwinSpot, n)
  <2>1. to \in Nat
    BY <1>0 DEF to
  <2>. QED BY <1>3, <1>6, <2>1, PpuConstants DEF DotsLeft
<1>. QED BY <1>0, <1>8, <1>9 DEF n

-----------------------------------------------------------------------------
\* Line 262 is dot 0 of line 0: a spot is the same before and after VblankEnd.
Normal(s) ==
  IF s.line # VblankEndLine THEN s
  ELSE [line |-> 0, pos |-> s.pos, odd |-> ~s.odd, vblank |-> s.vblank, readRC |-> s.readRC,
        due |-> TRUE, req |-> s.req, calm |-> s.calm, enabled |-> s.enabled,
        rendering |-> s.rendering]

\* n dots on, within a line.
After(s, n) == Normal(Handled(s, n))

\* The dots to the end of the line.
Room(s) ==
  CyclesPerLine - s.pos
    - (IF s.line = PreRenderLine /\ s.odd /\ s.rendering /\ s.pos <= OddSkipDot THEN 1 ELSE 0)

\* What a handler uses of the dots it is given, it could have been given.
LEMMA HandledDots ==
  ASSUME NEW s, SpotOK(s), NEW n \in Nat \ {0}
  PROVE  LET k == n - DotsLeft(s, n)
         IN  /\ k \in 1..Room(s) /\ k <= n
             /\ Handled(s, n) = Handled(s, k)
<1> DEFINE k == n - DotsLeft(s, n)
           p == s.pos
           odd == s.line = PreRenderLine /\ s.odd /\ s.rendering /\ s.pos <= OddSkipDot
           x == IF Skips(s, n) THEN 1 ELSE 0
<1>1. p \in 0..(CyclesPerLine - 1) /\ CyclesPerLine \in Nat /\ CyclesPerLine > 4
      /\ OddSkipDot \in Nat /\ 1 < OddSkipDot /\ OddSkipDot + 1 < CyclesPerLine
  BY PpuConstants DEF SpotOK
<1>2. /\ \A i \in Nat : Skips(s, i) <=> odd /\ p + i > OddSkipDot
      /\ odd => p <= OddSkipDot
      /\ Room(s) = CyclesPerLine - p - (IF odd THEN 1 ELSE 0)
      /\ \A i : Reached(s, i) = p + i + (IF Skips(s, i) THEN 1 ELSE 0)
      /\ \A i : Passes(s, i) <=> p <= 1 /\ p + i > 1
  BY Zenon DEF Skips, Room, Reached, Passes
<1> HIDE DEF odd, p
<1>3. CASE Reached(s, n) < CyclesPerLine
  <2>1. DotsLeft(s, n) = 0 /\ k = n
    BY <1>1, <1>2, <1>3 DEF DotsLeft
  <2>2. n <= Room(s) /\ Room(s) \in Int
    BY <1>1, <1>2, <1>3
  <2>. QED BY <2>1, <2>2
<1>4. CASE ~(Reached(s, n) < CyclesPerLine)
  <2>1. Reached(s, n) = p + n + x /\ x \in {0, 1} /\ Reached(s, n) >= CyclesPerLine
    BY <1>1, <1>2, <1>4
  <2>2. k = CyclesPerLine - p - x
    BY <1>1, <2>1 DEF DotsLeft
  <2>3. x = IF odd THEN 1 ELSE 0
    BY <1>1, <1>2, <2>1
  <2>4. k = Room(s) /\ k \in 1..Room(s) /\ k <= n
    BY <1>1, <1>2, <2>1, <2>2, <2>3
  <2> HIDE DEF k, x
  <2>5. Skips(s, k) <=> Skips(s, n)
    BY <1>1, <1>2, <2>2, <2>3, <2>4
  <2>6. Passes(s, k) <=> Passes(s, n)
    BY <1>1, <1>2, <2>2, <2>3, <2>4
  <2>7. Reached(s, k) = CyclesPerLine
    BY <1>1, <1>2, <2>2, <2>3, <2>4, <2>5
  <2>8. \A l, q : Marked(s, k, l, q) = Marked(s, n, l, q)
    <3>1. Begins(s, k) = Begins(s, n) /\ Passes(s, k) = Passes(s, n)
      BY <2>6 DEF Begins, Passes
    <3>. QED BY <3>1, Zenon DEF Marked
  <2>9. Handled(s, k) = Handled(s, n)
    BY <1>1, <2>1, <2>7, <2>8 DEF Handled
  <2>. QED BY <2>4, <2>9 DEF k
<1>. QED BY <1>1, <1>2, <1>3, <1>4

\* A line that is not left at j dots is at that place of it.
LEMMA WithinLine ==
  ASSUME NEW s, SpotOK(s), s.line # VblankEndLine, NEW j \in Nat \ {0}, j < Room(s)
  PROVE  LET q == After(s, j)
         IN  /\ q = Marked(s, j, s.line, Reached(s, j))
             /\ Reached(s, j) \in 0..(CyclesPerLine - 1)
<1>1. /\ s.pos \in 0..(CyclesPerLine - 1) /\ CyclesPerLine \in Nat /\ CyclesPerLine > 4
      /\ Reached(s, j) = s.pos + j + (IF Skips(s, j) THEN 1 ELSE 0)
      /\ Skips(s, j) => s.line = PreRenderLine /\ s.odd /\ s.rendering /\ s.pos <= OddSkipDot
  BY PpuConstants DEF SpotOK, Reached, Skips
<1>2. Reached(s, j) < CyclesPerLine /\ Reached(s, j) \in Nat
  BY <1>1 DEF Room
<1>3. Handled(s, j) = Marked(s, j, s.line, Reached(s, j))
  BY <1>2, PpuConstants DEF Handled
<1>4. Marked(s, j, s.line, Reached(s, j)).line = s.line
  BY DEF Marked
<1>5. After(s, j) = Marked(s, j, s.line, Reached(s, j))
  BY <1>3, <1>4, Zenon DEF After, Normal
<1>. QED BY <1>2, <1>5, PpuConstants

\* j + 1 dots are j and one more, as long as the line lasts.
LEMMA OneMore ==
  ASSUME NEW s, SpotOK(s), s.line # VblankEndLine, NEW j \in Nat \ {0}, j + 1 <= Room(s)
  PROVE  After(After(s, j), 1) = After(s, j + 1)
<1> DEFINE q == After(s, j)  p == s.pos  c == Reached(s, j)
           odd == s.line = PreRenderLine /\ s.odd /\ s.rendering
<1>0. Room(s) \in Int
  BY PpuConstants DEF Room, SpotOK
<1>1. /\ p \in 0..(CyclesPerLine - 1) /\ CyclesPerLine \in Nat /\ CyclesPerLine > 4
      /\ OddSkipDot \in Nat /\ 1 < OddSkipDot
  BY PpuConstants DEF SpotOK
<1>2. q = Marked(s, j, s.line, c) /\ c \in 0..(CyclesPerLine - 1)
  BY <1>0, WithinLine
<1> HIDE DEF q
<1>3. /\ q.line = s.line /\ q.pos = c /\ q.odd = s.odd /\ q.calm = s.calm
      /\ q.enabled = s.enabled /\ q.rendering = s.rendering
      /\ q.readRC = (s.readRC /\ ~Begins(s, j))
      /\ q.vblank = ((s.vblank \/ (Begins(s, j) /\ ~s.readRC))
                       /\ ~(s.line = PreRenderLine /\ Passes(s, j)))
      /\ q.due = (s.due /\ ~(s.line = PostRenderLine /\ s.pos = 0))
      /\ q.req = (s.req \/ (s.calm /\ s.enabled /\ Begins(s, j) /\ ~s.readRC))
  BY <1>2, Zenon DEF Marked
<1>4. /\ \A i \in Nat : Skips(s, i) <=> odd /\ p <= OddSkipDot /\ p + i > OddSkipDot
      /\ Skips(q, 1) <=> odd /\ c <= OddSkipDot /\ c + 1 > OddSkipDot
      /\ c = p + j + (IF Skips(s, j) THEN 1 ELSE 0)
      /\ Reached(q, 1) = c + 1 + (IF Skips(q, 1) THEN 1 ELSE 0)
      /\ Reached(s, j + 1) = p + (j + 1) + (IF Skips(s, j + 1) THEN 1 ELSE 0)
      /\ \A i : Passes(s, i) <=> p <= 1 /\ p + i > 1
      /\ Passes(q, 1) <=> c <= 1 /\ c + 1 > 1
  BY <1>3, Zenon DEF Skips, Reached, Passes
<1> HIDE DEF odd, p, c
<1>5. Reached(q, 1) = Reached(s, j + 1)
  <2>1. CASE Skips(s, j)
    BY <1>1, <1>2, <1>4, <2>1
  <2>2. CASE ~Skips(s, j)
    BY <1>1, <1>2, <1>4, <2>2
  <2>. QED BY <2>1, <2>2
<1>6. /\ Passes(s, j + 1) <=> Passes(s, j) \/ Passes(q, 1)
      /\ ~(Passes(s, j) /\ Passes(q, 1))
  <2>1. c = p + j \/ c = p + j + 1
    BY <1>1, <1>4
  <2>2. Skips(s, j) => p + j > 1
    BY <1>1, <1>4
  <2>. QED BY <1>1, <1>2, <1>4, <2>1, <2>2
<1>7. c > 0
  BY <1>1, <1>2, <1>4
<1> DEFINE b1 == Begins(s, j)  b2 == Begins(q, 1)  b == Begins(s, j + 1)
           pre1 == s.line = PreRenderLine /\ Passes(s, j)
           pre2 == q.line = PreRenderLine /\ Passes(q, 1)
           pre == s.line = PreRenderLine /\ Passes(s, j + 1)
<1>8. (b <=> b1 \/ b2) /\ ~(b1 /\ b2) /\ (pre <=> pre1 \/ pre2) /\ ~(b /\ (pre1 \/ pre2))
  <2>1. VblankLine # PreRenderLine
    BY PpuConstants DEF VblankLine
  <2> DEFINE v == s.line = VblankLine  r == s.line = PreRenderLine
             p1 == Passes(s, j)  p2 == Passes(q, 1)  p3 == Passes(s, j + 1)
  <2>2. /\ (b1 <=> v /\ p1) /\ (b2 <=> v /\ p2) /\ (b <=> v /\ p3)
        /\ (pre1 <=> r /\ p1) /\ (pre2 <=> r /\ p2) /\ (pre <=> r /\ p3)
    BY <1>3, Zenon DEF Begins
  <2>3. (p3 <=> p1 \/ p2) /\ ~(p1 /\ p2) /\ ~(v /\ r)
    BY <1>6, <2>1, Zenon
  <2> HIDE DEF v, r, p1, p2, p3, b1, b2, b, pre1, pre2, pre
  <2>. QED BY <2>2, <2>3, Zenon
<1> HIDE DEF b1, b2, b, pre1, pre2, pre
<1>9. ASSUME NEW l, NEW r PROVE Marked(q, 1, l, r) = Marked(s, j + 1, l, r)
  <2>1. ((q.vblank \/ (b2 /\ ~q.readRC)) /\ ~pre2) = ((s.vblank \/ (b /\ ~s.readRC)) /\ ~pre)
    <3>1. q.vblank = ((s.vblank \/ (b1 /\ ~s.readRC)) /\ ~pre1) /\ q.readRC = (s.readRC /\ ~b1)
      BY <1>3, Zenon DEF b1, pre1
    <3>2. ((q.vblank \/ (b2 /\ ~q.readRC)) /\ ~pre2) <=> ((s.vblank \/ (b /\ ~s.readRC)) /\ ~pre)
      BY <1>8, <3>1, Zenon
    <3>. QED BY <3>2, SameBool, Zenon
  <2>2. (q.readRC /\ ~b2) = (s.readRC /\ ~b)
    <3>1. (q.readRC /\ ~b2) <=> (s.readRC /\ ~b)
      BY <1>3, <1>8, Zenon DEF b1
    <3>. QED BY <3>1, SameBool, Zenon
  <2>3. (q.due /\ ~(q.line = PostRenderLine /\ q.pos = 0))
          = (s.due /\ ~(s.line = PostRenderLine /\ s.pos = 0))
    <3>1. ~(q.pos = 0)
      BY <1>2, <1>3, <1>7
    <3>2. (q.due /\ ~(q.line = PostRenderLine /\ q.pos = 0))
            <=> (s.due /\ ~(s.line = PostRenderLine /\ s.pos = 0))
      BY <1>3, <3>1, Zenon
    <3>. QED BY <3>2, SameBool, Zenon
  <2>4. (q.req \/ (q.calm /\ q.enabled /\ b2 /\ ~q.readRC))
          = (s.req \/ (s.calm /\ s.enabled /\ b /\ ~s.readRC))
    <3>1. (q.req \/ (q.calm /\ q.enabled /\ b2 /\ ~q.readRC))
            <=> (s.req \/ (s.calm /\ s.enabled /\ b /\ ~s.readRC))
      BY <1>3, <1>8, Zenon DEF b1
    <3>. QED BY <3>1, SameBool, Zenon
  <2>. QED BY <1>3, <2>1, <2>2, <2>3, <2>4, Zenon DEF Marked, b2, b, pre2, pre
<1>10. Handled(q, 1) = Handled(s, j + 1)
  BY <1>3, <1>5, <1>9, Zenon DEF Handled
<1>. QED BY <1>10, Zenon DEF After, q

\* What a line handler leaves is a spot again, and not the beginning of line 0.
LEMMA HandledOK ==
  ASSUME NEW s, SpotOK(s), s.line # VblankEndLine, NEW n \in Nat \ {0}
  PROVE  /\ SpotOK(Handled(s, n)) /\ ~(Handled(s, n).line = 0 /\ Handled(s, n).pos = 0)
         /\ DotsLeft(s, n) \in Nat
<1> DEFINE to == Reached(s, n)  h == Handled(s, n)
<1>1. /\ s.line \in 0..PreRenderLine /\ s.pos \in 0..(CyclesPerLine - 1)
      /\ CyclesPerLine \in Nat /\ PreRenderLine \in Nat /\ PostRenderLine \in Nat
      /\ VblankEndLine = PreRenderLine + 1 /\ CyclesPerLine > 4
      /\ PreRenderLine > PostRenderLine + 2 /\ PostRenderLine > 0
  BY PpuConstants DEF SpotOK, VblankEndLine
<1>2. to \in Nat \ {0} /\ to > s.pos
  BY <1>1 DEF Reached
<1>3. PICK l \in 0..VblankEndLine, p \in 0..(CyclesPerLine - 1) : h = Marked(s, n, l, p)
                    /\ ((l = s.line /\ p > s.pos) \/ (l = s.line + 1 /\ p = 0))
  <2>1. CASE to >= CyclesPerLine
    <3>1. s.line + 1 \in 0..VblankEndLine /\ 0 \in 0..(CyclesPerLine - 1)
      BY <1>1
    <3>2. h = Marked(s, n, s.line + 1, 0)
      BY <2>1 DEF Handled
    <3>. QED BY <3>1, <3>2, Zenon
  <2>2. CASE ~(to >= CyclesPerLine)
    <3>1. s.line \in 0..VblankEndLine /\ to \in 0..(CyclesPerLine - 1)
      BY <1>1, <1>2, <2>2
    <3>2. h = Marked(s, n, s.line, to)
      BY <2>2 DEF Handled
    <3>3. to > s.pos
      BY <1>2
    <3> HIDE DEF to, h
    <3>4. \E q \in 0..(CyclesPerLine - 1) : h = Marked(s, n, s.line, q) /\ q > s.pos
      BY <3>1, <3>2, <3>3, Zenon
    <3>. QED BY <3>1, <3>4, Zenon
  <2>. QED BY <2>1, <2>2
<1> HIDE DEF to, h
<1>4. /\ h.line = l /\ h.pos = p /\ h.odd = s.odd /\ h.calm = s.calm /\ h.enabled = s.enabled
      /\ h.rendering = s.rendering /\ h.due = (s.due /\ ~(s.line = PostRenderLine /\ s.pos = 0))
      /\ h.vblank \in BOOLEAN /\ h.readRC \in BOOLEAN /\ h.req \in BOOLEAN /\ h.due \in BOOLEAN
  BY <1>3, Zenon DEF Marked
<1>5. h.line = VblankEndLine => h.pos = 0
  BY <1>1, <1>3, <1>4
<1>6. ~(h.line = 0 /\ h.pos = 0)
  BY <1>1, <1>3, <1>4
<1>7. h.due => h.line < PostRenderLine \/ (h.line = PostRenderLine /\ h.pos = 0)
  <2>1. h.due => s.due /\ ~(s.line = PostRenderLine /\ s.pos = 0)
    BY <1>4, Zenon
  <2>2. s.due => s.line < PostRenderLine \/ (s.line = PostRenderLine /\ s.pos = 0)
    BY DEF SpotOK
  <2>3. s.line < PostRenderLine => h.line < PostRenderLine \/ (h.line = PostRenderLine /\ h.pos = 0)
    BY <1>1, <1>3, <1>4
  <2>. QED BY <2>1, <2>2, <2>3, Zenon
<1>8. SpotOK(h)
  BY <1>3, <1>4, <1>5, <1>7, Zenon DEF SpotOK
<1>9. DotsLeft(s, n) \in Nat
  BY <1>1, <1>2 DEF DotsLeft, to
<1>. QED BY <1>6, <1>8, <1>9 DEF h

-----------------------------------------------------------------------------
\* m dots lie between the spots `from' and `to'.
Way(r, m, from, to) ==
  /\ r[0] = from /\ r[m] = to
  /\ \A i \in 0..(m - 1) : r[i + 1] = After(r[i], 1)

LEMMA LongerWay ==
  ASSUME NEW r, NEW m \in Nat, NEW from, NEW to, SpotOK(to), to.line # VblankEndLine,
         NEW n \in 1..Room(to), Way(r, m, from, to)
  PROVE  \E q : Way(q, m + n, from, After(to, n))
<1> DEFINE q == [i \in 0..(m + n) |-> IF i <= m THEN r[i] ELSE After(to, i - m)]
<1>0. Room(to) \in Int /\ n \in Nat \ {0} /\ n <= Room(to)
  BY PpuConstants DEF Room, SpotOK
<1>1. \A i \in 0..(m + n) : q[i] = IF i <= m THEN r[i] ELSE After(to, i - m)
  OBVIOUS
<1>3. r[0] = from /\ r[m] = to /\ \A i \in 0..(m - 1) : r[i + 1] = After(r[i], 1)
  BY DEF Way
<1> HIDE DEF q
<1>4. q[0] = from
  BY <1>0, <1>1, <1>3
<1>5. q[m + n] = After(to, n)
  <2>1. m + n \in 0..(m + n) /\ ~(m + n <= m) /\ (m + n) - m = n
    BY <1>0
  <2>. QED BY <1>1, <2>1, Zenon
<1>6. ASSUME NEW i \in 0..((m + n) - 1) PROVE q[i + 1] = After(q[i], 1)
  <2>1. i \in 0..(m + n) /\ i + 1 \in 0..(m + n) /\ i \in Nat
    BY <1>0
  <2>2. CASE i < m
    <3>1. i \in 0..(m - 1) /\ i <= m /\ i + 1 <= m
      BY <2>1, <2>2
    <3>. QED BY <1>1, <1>3, <2>1, <3>1, Zenon
  <2>3. CASE i = m
    <3>1. i <= m /\ ~(i + 1 <= m) /\ (i + 1) - m = 1
      BY <2>1, <2>3
    <3>. QED BY <1>1, <1>3, <2>1, <2>3, <3>1, Zenon
  <2>4. CASE i > m
    <3> DEFINE k == i - m
    <3>1. k \in Nat \ {0} /\ k + 1 <= Room(to) /\ (i + 1) - m = k + 1 /\ ~(i <= m) /\ ~(i + 1 <= m)
      BY <1>0, <2>1, <2>4
    <3>2. q[i] = After(to, k) /\ q[i + 1] = After(to, k + 1)
      BY <1>1, <2>1, <3>1, Zenon
    <3> HIDE DEF k
    <3>. QED BY <3>1, <3>2, OneMore
  <2>. QED BY <2>1, <2>2, <2>3, <2>4
<1>7. Way(q, m + n, from, After(to, n))
  BY <1>4, <1>5, <1>6, Zenon DEF Way
<1>. QED BY <1>7

\* A CPU cycle is three dots, and a line handler of the twin uses up at most those.
LEMMA ShorterWay ==
  ASSUME NEW r, NEW m \in Nat, NEW from, NEW to, SpotOK(from), from.line # VblankEndLine,
         NEW k \in 1..Room(from), k <= 3, k <= m, Way(r, m, from, to)
  PROVE  \E q : Way(q, m - k, After(from, k), to)
<1> DEFINE q == [i \in 0..(m - k) |-> r[i + k]]
<1>0. Room(from) \in Int /\ k \in 1..3 /\ k <= Room(from)
  BY PpuConstants DEF Room, SpotOK
<1>1. \A i \in 0..(m - k) : q[i] = r[i + k]
  OBVIOUS
<1>2. r[0] = from /\ r[m] = to /\ \A i \in 0..(m - 1) : r[i + 1] = After(r[i], 1)
  BY DEF Way
<1> HIDE DEF q
<1>3. r[k] = After(from, k)
  <2>1. r[1] = After(from, 1)
    <3>1. 0 \in 0..(m - 1) /\ 0 + 1 = 1
      BY <1>0
    <3>. QED BY <1>2, <3>1
  <2>2. k >= 2 => r[2] = After(from, 2)
    <3> SUFFICES ASSUME k >= 2 PROVE r[2] = After(from, 2)
      OBVIOUS
    <3>1. 1 \in 0..(m - 1) /\ 1 + 1 = 2
      BY <1>0
    <3>2. r[2] = After(r[1], 1)
      BY <1>2, <3>1
    <3>3. After(After(from, 1), 1) = After(from, 1 + 1)
      BY <1>0, <3>1, OneMore
    <3>. QED BY <2>1, <3>1, <3>2, <3>3
  <2>3. k >= 3 => r[3] = After(from, 3)
    <3> SUFFICES ASSUME k >= 3 PROVE r[3] = After(from, 3)
      OBVIOUS
    <3>1. 2 \in 0..(m - 1) /\ 2 + 1 = 3
      BY <1>0
    <3>2. r[3] = After(r[2], 1)
      BY <1>2, <3>1
    <3>3. After(After(from, 2), 1) = After(from, 2 + 1)
      BY <1>0, <3>1, OneMore
    <3>. QED BY <1>0, <2>2, <3>1, <3>2, <3>3
  <2>. QED BY <1>0, <2>1, <2>2, <2>3
<1>4. q[0] = After(from, k)
  <2>1. 0 \in 0..(m - k) /\ 0 + k = k
    BY <1>0
  <2>. QED BY <1>1, <1>3, <2>1
<1>5. q[m - k] = to
  <2>1. m - k \in 0..(m - k) /\ (m - k) + k = m
    BY <1>0
  <2>. QED BY <1>1, <1>2, <2>1
<1>6. ASSUME NEW i \in 0..((m - k) - 1) PROVE q[i + 1] = After(q[i], 1)
  <2>1. i \in 0..(m - k) /\ i + 1 \in 0..(m - k) /\ i + k \in 0..(m - 1) /\ (i + 1) + k = (i + k) + 1
    BY <1>0
  <2>. QED BY <1>1, <1>2, <2>1, Zenon
<1>7. Way(q, m - k, After(from, k), to)
  BY <1>4, <1>5, <1>6, Zenon DEF Way
<1>. QED BY <1>7

-----------------------------------------------------------------------------
\* The dots that the twin is behind: those of the cycles it is owed and those it has been
\* given, less those the batched PPU has not run yet.
Behind == 3 * owed + (tDot - tLastDot) - (dot - lastDot)

TwinInv ==
  /\ owed \in Nat /\ calm \in BOOLEAN
  /\ SpotOK(TwinSpot) /\ tDot \in Nat /\ tLastDot <= tDot /\ tDot - tLastDot <= 3
  /\ lastDot < dot => tLastDot = tDot
  /\ dot - lastDot <= 3 * owed
  /\ (scanLine = 0 /\ lastDot = 0) => dot > 0
  /\ (tScanLine = 0 /\ tLastDot = 0) => tDot > 0
  /\ \E r : Way(r, Behind, Normal(TwinSpot), Normal(Spot))

LEMMA SpotFields ==
  /\ Spot.line = scanLine /\ Spot.pos = lastDot /\ Spot.odd = oddFrame /\ Spot.vblank = vblank
  /\ Spot.readRC = readRC /\ Spot.due = frameDue /\ Spot.req = (calm /\ Requested)
  /\ Spot.calm = calm /\ Spot.enabled = nmiEnabled /\ Spot.rendering = rendering
  /\ TwinSpot.line = tScanLine /\ TwinSpot.pos = tLastDot /\ TwinSpot.odd = tOddFrame
  /\ TwinSpot.vblank = tVblank /\ TwinSpot.readRC = tReadRC /\ TwinSpot.due = tFrameDue
  /\ TwinSpot.req = (calm /\ TwinRequested) /\ TwinSpot.calm = calm
  /\ TwinSpot.enabled = tNmiEnabled /\ TwinSpot.rendering = tRendering
BY DEF Spot, TwinSpot

LEMMA SpotIsOK ==
  ASSUME PpuInv, calm \in BOOLEAN
  PROVE  SpotOK(Spot)
<1>1. TypeOK /\ ShownOncePerFrame
  BY DEF PpuInv, Windows
<1>2. /\ scanLine \in 0..VblankEndLine /\ lastDot \in 0..(CyclesPerLine - 1)
      /\ scanLine = VblankEndLine => lastDot = 0
      /\ frameDue => scanLine < PostRenderLine \/ (scanLine = PostRenderLine /\ lastDot = 0)
      /\ oddFrame \in BOOLEAN /\ vblank \in BOOLEAN /\ readRC \in BOOLEAN /\ frameDue \in BOOLEAN
      /\ nmiEnabled \in BOOLEAN /\ rendering \in BOOLEAN
  BY <1>1 DEF TypeOK, ClockOK, FlagsOK, ShownOncePerFrame
<1>3. (calm /\ Requested) \in BOOLEAN
  BY Zenon
<1>. QED BY <1>2, <1>3, SpotFields, Zenon DEF SpotOK

\* From a spot to itself.
LEMMA NoWay ==
  ASSUME NEW a, NEW b, a = b
  PROVE  \E r : Way(r, 0, a, b)
<1>1. Way([i \in {0} |-> a], 0, a, b)
  BY DEF Way
<1>. QED BY <1>1, Zenon

LEMMA TwinInit ==
  ASSUME BatchInit
  PROVE  TwinInv
<1>1. /\ scanLine = PreRenderLine - 1 /\ dot = 0 /\ lastDot = 0 /\ oddFrame = FALSE /\ vblank = TRUE
      /\ readRC = FALSE /\ nmiPending = FALSE /\ nmiSignal = FALSE /\ nmiEnabled = FALSE
      /\ rendering = FALSE /\ frameDue = FALSE
      /\ tScanLine = PreRenderLine - 1 /\ tDot = 0 /\ tLastDot = 0 /\ tOddFrame = FALSE
      /\ tVblank = TRUE /\ tReadRC = FALSE /\ tNmiPending = FALSE /\ tNmiSignal = FALSE
      /\ tNmiEnabled = FALSE /\ tRendering = FALSE /\ tFrameDue = FALSE
      /\ owed = 0 /\ calm = FALSE
  BY DEF BatchInit, PpuInit, Twin!PpuInit
<1>2. (calm /\ Requested) = FALSE /\ (calm /\ TwinRequested) = FALSE
  BY <1>1, Zenon
<1>3. TwinSpot = Spot
  BY <1>1, <1>2 DEF TwinSpot, Spot
<1>4. SpotOK(TwinSpot)
  <2>1. /\ PreRenderLine - 1 \in 0..VblankEndLine /\ PreRenderLine - 1 # VblankEndLine
        /\ 0 \in 0..(CyclesPerLine - 1)
    BY PpuConstants DEF VblankEndLine
  <2>. QED BY <1>1, <1>2, <2>1, SpotFields DEF SpotOK
<1>5. Behind = 0 /\ tScanLine # 0 /\ scanLine # 0
  BY <1>1, PpuConstants DEF Behind
<1>6. \E r : Way(r, Behind, Normal(TwinSpot), Normal(Spot))
  BY <1>3, <1>5, NoWay
<1>7. /\ owed \in Nat /\ calm \in BOOLEAN /\ tDot \in Nat /\ tLastDot <= tDot /\ tDot - tLastDot <= 3
      /\ (lastDot < dot => tLastDot = tDot) /\ dot - lastDot <= 3 * owed
  <2>1. lastDot = 0 /\ dot = 0 /\ tLastDot = 0 /\ tDot = 0 /\ owed = 0
    BY <1>1
  <2>2. calm \in BOOLEAN
    BY <1>1, Zenon
  <2>. QED BY <2>1, <2>2
<1>. QED BY <1>4, <1>5, <1>6, <1>7, Zenon DEF TwinInv

\* With every cycle served there is no way left, and nothing that the CPU can read differs.
LEMMA SameInStep ==
  ASSUME TwinInv, SpotOK(Spot), InStep
  PROVE  /\ tScanLine = scanLine /\ tDot = dot /\ tLastDot = lastDot /\ tOddFrame = oddFrame
         /\ tVblank = vblank /\ tReadRC = readRC /\ tFrameDue = frameDue
         /\ tNmiEnabled = nmiEnabled /\ tRendering = rendering
         /\ (calm /\ TwinRequested) = (calm /\ Requested)
         /\ owed = 0 /\ lastDot = dot
<1>1. PICK r : Way(r, Behind, Normal(TwinSpot), Normal(Spot))
  BY Zenon DEF TwinInv
<1>2. lastDot = dot /\ tLastDot = tDot /\ owed = 0
  BY DEF InStep, AtRest, Twin!AtRest
<1>3. Behind = 0
  <2>1. dot \in Int /\ tDot \in Int
    BY <1>2, SpotFields, PpuConstants DEF SpotOK, TwinInv
  <2>. QED BY <1>2, <2>1 DEF Behind
<1>4. Normal(TwinSpot) = Normal(Spot)
  BY <1>1, <1>3 DEF Way
<1>5. TwinSpot = Spot
  <2>1. CASE Spot.line # VblankEndLine /\ TwinSpot.line # VblankEndLine
    BY <1>4, <2>1 DEF Normal
  <2>2. CASE Spot.line = VblankEndLine /\ TwinSpot.line # VblankEndLine
    <3>1. Normal(Spot).line = 0 /\ Normal(Spot).pos = 0 /\ Normal(TwinSpot) = TwinSpot
      BY <2>2 DEF Normal, SpotOK
    <3>2. tScanLine = 0 /\ tLastDot = 0
      BY <1>4, <3>1, SpotFields
    <3>. QED BY <1>2, <3>2 DEF TwinInv
  <2>3. CASE Spot.line # VblankEndLine /\ TwinSpot.line = VblankEndLine
    <3>1. Normal(TwinSpot).line = 0 /\ Normal(TwinSpot).pos = 0 /\ Normal(Spot) = Spot
      BY <2>3 DEF Normal, SpotOK, TwinInv
    <3>2. scanLine = 0 /\ lastDot = 0
      BY <1>4, <3>1, SpotFields
    <3>. QED BY <1>2, <3>2 DEF TwinInv
  <2>4. CASE Spot.line = VblankEndLine /\ TwinSpot.line = VblankEndLine
    <3>1. \A s : s.line = VblankEndLine =>
            /\ Normal(s).pos = s.pos /\ Normal(s).odd = ~s.odd /\ Normal(s).vblank = s.vblank
            /\ Normal(s).readRC = s.readRC /\ Normal(s).req = s.req /\ Normal(s).calm = s.calm
            /\ Normal(s).enabled = s.enabled /\ Normal(s).rendering = s.rendering
      BY DEF Normal
    <3>2. /\ tLastDot = lastDot /\ (~tOddFrame) = (~oddFrame) /\ tVblank = vblank
          /\ tReadRC = readRC /\ (calm /\ TwinRequested) = (calm /\ Requested)
          /\ tNmiEnabled = nmiEnabled /\ tRendering = rendering
      BY <1>4, <2>4, <3>1, SpotFields
    <3>3. tOddFrame \in BOOLEAN /\ oddFrame \in BOOLEAN /\ tFrameDue \in BOOLEAN /\ frameDue \in BOOLEAN
      BY SpotFields DEF SpotOK, TwinInv
    <3>4. tOddFrame = oddFrame
      BY <3>2, <3>3
    <3>5. ~tFrameDue /\ ~frameDue
      <4>1. /\ \A s : SpotOK(s) /\ s.line = VblankEndLine => ~s.due
        BY PpuConstants DEF SpotOK, VblankEndLine
      <4>2. ~Spot.due /\ ~TwinSpot.due
        BY <2>4, <4>1, Zenon DEF TwinInv
      <4>. QED BY <4>2, SpotFields, Zenon
    <3>6. tFrameDue = frameDue
      BY <3>3, <3>5
    <3>7. tScanLine = scanLine
      BY <2>4, SpotFields
    <3>. QED BY <3>2, <3>4, <3>6, <3>7, Zenon DEF Spot, TwinSpot
  <2>. QED BY <2>1, <2>2, <2>3, <2>4
<1>6. /\ tScanLine = scanLine /\ tLastDot = lastDot /\ tOddFrame = oddFrame
      /\ tVblank = vblank /\ tReadRC = readRC /\ tFrameDue = frameDue
      /\ tNmiEnabled = nmiEnabled /\ tRendering = rendering
      /\ (calm /\ TwinRequested) = (calm /\ Requested)
  BY <1>5, SpotFields, Zenon
<1>. QED BY <1>2, <1>6, Zenon

\* Cycles are handed out: nothing moves.
LEMMA TwinIdle ==
  ASSUME TwinInv, PpuInv,
         \/ \E n \in Batches : CpuBatch(n)
         \/ TwinCycle
         \/ UNCHANGED batchVars
  PROVE  TwinInv'
<1>0. SpotOK(Spot) /\ owed \in Nat /\ dot \in Nat /\ lastDot \in Nat /\ tDot \in Nat /\ tLastDot \in Nat
      /\ lastDot <= dot
  <2>1. calm \in BOOLEAN /\ SpotOK(TwinSpot) /\ owed \in Nat /\ tDot \in Nat
    BY DEF TwinInv
  <2>2. tLastDot \in Nat
    BY <2>1, SpotFields, PpuConstants DEF SpotOK
  <2>3. dot \in Nat /\ lastDot \in Nat /\ lastDot <= dot
    BY PpuConstants DEF PpuInv, TypeOK, ClockOK
  <2>. QED BY <2>1, <2>2, <2>3, SpotIsOK
<1>1. /\ UNCHANGED <<scanLine, lastDot, oddFrame, vblank, readRC, frameDue, nmiEnabled, rendering,
                     nmiPending, nmiSignal>>
      /\ UNCHANGED <<tScanLine, tLastDot, tOddFrame, tVblank, tReadRC, tFrameDue, tNmiEnabled,
                     tRendering, tNmiPending, tNmiSignal>>
  BY DEF CpuBatch, TwinCycle, Ticks, Twin!Ticks, batchVars, ppuVars, twinVars, clockVars, statusVars,
         regVars, Twin!statusVars, Twin!regVars
<1>2. /\ owed' \in Nat /\ calm' \in BOOLEAN
      /\ tDot' \in Nat /\ tLastDot' <= tDot' /\ tDot' - tLastDot' <= 3
      /\ lastDot' < dot' => tLastDot' = tDot'
      /\ dot' - lastDot' <= 3 * owed'
      /\ dot' \in Nat /\ dot' >= dot /\ tDot' >= tDot
      /\ Behind' = Behind
  <2>1. CASE \E n \in Batches : CpuBatch(n)
    <3>1. PICK n \in Batches : CpuBatch(n)
      BY <2>1
    <3>2. /\ lastDot = dot /\ tLastDot = tDot /\ owed = 0 /\ owed' = n /\ dot' = dot + 3 * n
             /\ tDot' = tDot
          /\ n \in Nat \ {0}
      BY <3>1, PpuConstants DEF CpuBatch, InStep, AtRest, Twin!AtRest, Ticks, twinVars
    <3>3. calm' \in BOOLEAN
      BY <3>1, Zenon DEF CpuBatch
    <3>. QED BY <1>0, <1>1, <3>2, <3>3 DEF Behind
  <2>2. CASE TwinCycle
    <3>1. /\ lastDot = dot /\ tLastDot = tDot /\ owed > 0 /\ owed' = owed - 1 /\ tDot' = tDot + 3 * 1
          /\ dot' = dot /\ calm' = calm
      BY <2>2 DEF TwinCycle, AtRest, Twin!Ticks, Twin!AtRest, ppuVars, clockVars
    <3>2. calm \in BOOLEAN
      BY DEF TwinInv
    <3>. QED BY <1>0, <1>1, <3>1, <3>2 DEF Behind
  <2>3. CASE UNCHANGED batchVars
    <3>1. UNCHANGED <<owed, calm, dot, tDot>>
      BY <2>3 DEF batchVars, ppuVars, twinVars, clockVars
    <3>. QED BY <1>0, <1>1, <3>1 DEF Behind, TwinInv
  <2>. QED BY <2>1, <2>2, <2>3
\* A batch begins with nothing outstanding in either, or is not watched.
<1>3. /\ (calm /\ Requested)' \in BOOLEAN /\ (calm /\ TwinRequested)' \in BOOLEAN
      /\ \/ UNCHANGED <<calm, Requested, TwinRequested>>
         \/ InStep /\ (calm /\ Requested)' = FALSE /\ (calm /\ TwinRequested)' = FALSE
  <2>1. UNCHANGED <<Requested, TwinRequested>>
    BY <1>1 DEF Requested, TwinRequested
  <2>2. CASE UNCHANGED calm
    BY <2>1, <2>2, Zenon
  <2>3. CASE \E n \in Batches : CpuBatch(n)
    BY <2>1, <2>3, Zenon DEF CpuBatch
  <2>4. CASE TwinCycle \/ UNCHANGED batchVars
    BY <2>2, <2>4 DEF TwinCycle, batchVars
  <2>. QED BY <2>3, <2>4
<1>4. SpotOK(TwinSpot')
  <2>1. /\ TwinSpot'.line = tScanLine' /\ TwinSpot'.pos = tLastDot' /\ TwinSpot'.odd = tOddFrame'
        /\ TwinSpot'.vblank = tVblank' /\ TwinSpot'.readRC = tReadRC' /\ TwinSpot'.due = tFrameDue'
        /\ TwinSpot'.req = (calm /\ TwinRequested)' /\ TwinSpot'.calm = calm'
        /\ TwinSpot'.enabled = tNmiEnabled' /\ TwinSpot'.rendering = tRendering'
    BY DEF TwinSpot
  <2>2. SpotOK(TwinSpot)
    BY DEF TwinInv
  <2>. QED BY <1>1, <1>2, <1>3, <2>1, <2>2, SpotFields, Zenon DEF SpotOK
<1>5. \E r : Way(r, Behind', Normal(TwinSpot'), Normal(Spot'))
  <2>1. CASE UNCHANGED <<calm, Requested, TwinRequested>>
    <3>1. Spot' = Spot /\ TwinSpot' = TwinSpot
      BY <1>1, <2>1 DEF Spot, TwinSpot
    <3>. QED BY <1>2, <3>1 DEF TwinInv
  <2>2. CASE InStep /\ (calm /\ Requested)' = FALSE /\ (calm /\ TwinRequested)' = FALSE
    <3>1. /\ tScanLine = scanLine /\ tDot = dot /\ tLastDot = lastDot /\ tOddFrame = oddFrame
          /\ tVblank = vblank /\ tReadRC = readRC /\ tFrameDue = frameDue
          /\ tNmiEnabled = nmiEnabled /\ tRendering = rendering /\ owed = 0 /\ lastDot = dot
      BY <1>0, <2>2, SameInStep
    <3>2. Spot' = TwinSpot'
      BY <1>1, <2>2, <3>1, Zenon DEF Spot, TwinSpot
    <3>3. Behind' = 0
      BY <1>0, <1>2, <3>1 DEF Behind
    <3>. QED BY <3>2, <3>3, NoWay
  <2>. QED BY <1>3, <2>1, <2>2
<1>6. /\ (scanLine' = 0 /\ lastDot' = 0) => dot' > 0
      /\ (tScanLine' = 0 /\ tLastDot' = 0) => tDot' > 0
  <2>1. /\ (scanLine = 0 /\ lastDot = 0) => dot > 0
        /\ (tScanLine = 0 /\ tLastDot = 0) => tDot > 0
    BY DEF TwinInv
  <2>. QED BY <1>0, <1>1, <1>2, <2>1
<1>. QED BY <1>2, <1>4, <1>5, <1>6 DEF TwinInv

\* A line handler makes the way longer.
LEMMA PpuMoves ==
  ASSUME TwinInv, PpuInv, BatchStep
  PROVE  TwinInv'
<1>1. PICK r : Way(r, Behind, Normal(TwinSpot), Normal(Spot))
  BY Zenon DEF TwinInv
<1>2. LineStep /\ UNCHANGED <<owed, calm>> /\ UNCHANGED <<tScanLine, tDot, tLastDot>>
      /\ TwinSpot' = TwinSpot
  BY DEF BatchStep, twinVars, TwinSpot, TwinRequested
<1>3. SpotOK(Spot) /\ owed \in Nat /\ calm \in BOOLEAN /\ tDot \in Nat /\ tLastDot <= tDot
      /\ dot \in Nat /\ lastDot \in Nat /\ lastDot < dot
  <2>1. calm \in BOOLEAN /\ owed \in Nat /\ tDot \in Nat /\ tLastDot <= tDot
    BY DEF TwinInv
  <2>2. dot \in Nat /\ lastDot \in Nat /\ lastDot <= dot
    BY PpuConstants DEF PpuInv, TypeOK, ClockOK
  <2>3. lastDot # dot
    BY <1>2 DEF LineStep, VisibleLine, PostRender, VblankStart, VblankIdle, PreRender, VblankEnd, AtRest
  <2>. QED BY <2>1, <2>2, <2>3, SpotIsOK
<1>4. tLastDot = tDot /\ dot - lastDot <= 3 * owed
  BY <1>3 DEF TwinInv
<1>5. /\ dot' - lastDot' >= 0 /\ dot' - lastDot' <= 3 * owed
      /\ (scanLine' = 0 /\ lastDot' = 0) => dot' > 0
      /\ \E q : Way(q, Behind', Normal(TwinSpot), Normal(Spot'))
  <2>1. CASE scanLine = VblankEndLine
    <3>1. VblankEnd
      <4>1. /\ ~(scanLine < PostRenderLine) /\ scanLine # PostRenderLine /\ scanLine # VblankLine
            /\ ~(scanLine < PreRenderLine) /\ scanLine # PreRenderLine
        BY <2>1, PpuConstants DEF VblankEndLine, VblankLine
      <4>. QED BY <1>2, <4>1, Zenon
           DEF LineStep, VisibleLine, PostRender, VblankStart, VblankIdle, PreRender
    <3>2. /\ scanLine' = 0 /\ oddFrame' = ~oddFrame /\ frameDue' = TRUE
          /\ UNCHANGED <<dot, lastDot, vblank, readRC, nmiPending, nmiSignal, nmiEnabled, rendering>>
      BY <3>1 DEF VblankEnd, statusVars, regVars
    <3>3. Requested' = Requested /\ calm' = calm
      BY <1>2, <3>2 DEF Requested
    <3>4. Normal(Spot) = [line |-> 0, pos |-> lastDot, odd |-> ~oddFrame, vblank |-> vblank,
                          readRC |-> readRC, due |-> TRUE, req |-> (calm /\ Requested), calm |-> calm,
                          enabled |-> nmiEnabled, rendering |-> rendering]
      BY <2>1, SpotFields, Zenon DEF Normal
    <3>5. Spot' = [line |-> 0, pos |-> lastDot, odd |-> ~oddFrame, vblank |-> vblank,
                   readRC |-> readRC, due |-> TRUE, req |-> (calm /\ Requested), calm |-> calm,
                   enabled |-> nmiEnabled, rendering |-> rendering]
      BY <3>2, <3>3, Zenon DEF Spot
    <3>6. Spot'.line = 0 /\ 0 # VblankEndLine
      BY <3>5, PpuConstants DEF VblankEndLine
    <3>7. Normal(Spot') = Normal(Spot)
      BY <3>4, <3>5, <3>6, Zenon DEF Normal
    <3>8. Behind' = Behind /\ dot' > 0 /\ dot' - lastDot' >= 0 /\ dot' - lastDot' <= 3 * owed
      BY <1>2, <1>3, <1>4, <3>2 DEF Behind
    <3>. QED BY <1>1, <3>7, <3>8
  <2>2. CASE scanLine # VblankEndLine
    <3> DEFINE n == dot - lastDot  left == DotsLeft(Spot, n)  k == n - left
    <3>1. /\ Spot' = Handled(Spot, n) /\ dot' - lastDot' = left
          /\ n \in Nat \ {0}
      BY <1>2, <1>3, <2>2, HandledSpot
    <3>2. Spot.line # VblankEndLine
      BY <2>2, SpotFields
    <3>3. k \in 1..Room(Spot) /\ k <= n /\ Handled(Spot, n) = Handled(Spot, k)
      BY <1>3, <3>1, HandledDots
    <3>4. ~(Spot'.line = 0 /\ Spot'.pos = 0) /\ left \in Nat
      BY <1>3, <3>1, <3>2, HandledOK
    <3>5. ~(scanLine' = 0 /\ lastDot' = 0)
      BY <3>4 DEF Spot
    <3>6. Normal(Spot') = After(Spot, k) /\ Normal(Spot) = Spot
      BY <3>1, <3>2, <3>3, Zenon DEF After, Normal
    <3>7. Behind \in Nat /\ Behind' = Behind + k
      <4>1. n \in Nat /\ left \in Nat /\ n = dot - lastDot /\ left = dot' - lastDot' /\ k = n - left
        BY <3>1, <3>4
      <4>2. Behind = 3 * owed - n /\ Behind' = 3 * owed - left
        <5> HIDE DEF n, left
        <5>. QED BY <1>2, <1>3, <1>4, <4>1 DEF Behind
      <4> HIDE DEF n, left, k
      <4>. QED BY <1>3, <1>4, <4>1, <4>2
    <3> HIDE DEF n, left
    <3>8. Way(r, Behind, Normal(TwinSpot), Spot)
      BY <1>1, <3>6
    <3>9. \E q : Way(q, Behind + k, Normal(TwinSpot), After(Spot, k))
      <4> HIDE DEF k
      <4>. QED BY <1>3, <3>2, <3>3, <3>7, <3>8, LongerWay
    <3>10. left <= n
      BY <3>1, <3>3, <3>4 DEF n
    <3>. QED BY <1>3, <1>4, <3>1, <3>4, <3>5, <3>6, <3>7, <3>9, <3>10 DEF n
  <2>. QED BY <2>1, <2>2
<1>6. SpotOK(TwinSpot') /\ \E q : Way(q, Behind', Normal(TwinSpot'), Normal(Spot'))
  BY <1>2, <1>5 DEF TwinInv
<1>. QED BY <1>2, <1>3, <1>4, <1>5, <1>6 DEF TwinInv

\* A line handler of the twin makes it shorter.
LEMMA TwinMoves ==
  ASSUME TwinInv, PpuInv, TwinStep
  PROVE  TwinInv'
<1>1. PICK r : Way(r, Behind, Normal(TwinSpot), Normal(Spot))
  BY Zenon DEF TwinInv
<1>2. /\ Twin!LineStep /\ UNCHANGED <<owed, calm>> /\ UNCHANGED <<scanLine, dot, lastDot>>
      /\ Spot' = Spot /\ lastDot = dot
  BY DEF TwinStep, ppuVars, clockVars, statusVars, regVars, Spot, Requested, AtRest
<1>3. /\ SpotOK(TwinSpot) /\ owed \in Nat /\ calm \in BOOLEAN /\ tDot \in Nat /\ tLastDot \in Nat
      /\ tLastDot < tDot /\ tDot - tLastDot <= 3 /\ dot \in Nat
  <2>1. /\ SpotOK(TwinSpot) /\ calm \in BOOLEAN /\ owed \in Nat /\ tDot \in Nat /\ tLastDot <= tDot
        /\ tDot - tLastDot <= 3
    BY DEF TwinInv
  <2>2. tLastDot \in Nat
    BY <2>1, SpotFields, PpuConstants DEF SpotOK
  <2>3. tLastDot # tDot
    BY <1>2 DEF Twin!LineStep, Twin!VisibleLine, Twin!PostRender, Twin!VblankStart, Twin!VblankIdle,
                Twin!PreRender, Twin!VblankEnd, Twin!AtRest
  <2>4. dot \in Nat
    BY DEF PpuInv, TypeOK, ClockOK
  <2>. QED BY <2>1, <2>2, <2>3, <2>4
<1>4. /\ SpotOK(TwinSpot') /\ tDot' \in Nat /\ tLastDot' <= tDot' /\ tDot' - tLastDot' <= 3
      /\ (tScanLine' = 0 /\ tLastDot' = 0) => tDot' > 0
      /\ \E q : Way(q, Behind', Normal(TwinSpot'), Normal(Spot))
  <2>1. CASE tScanLine = VblankEndLine
    <3>1. Twin!VblankEnd
      <4>1. /\ ~(tScanLine < PostRenderLine) /\ tScanLine # PostRenderLine
               /\ tScanLine # Twin!VblankLine
            /\ ~(tScanLine < PreRenderLine) /\ tScanLine # PreRenderLine
        BY <2>1, PpuConstants DEF VblankEndLine, Twin!VblankLine
      <4>. QED BY <1>2, <4>1, Zenon
           DEF Twin!LineStep, Twin!VisibleLine, Twin!PostRender, Twin!VblankStart, Twin!VblankIdle,
               Twin!PreRender
    <3>2. /\ tScanLine' = 0 /\ tOddFrame' = ~tOddFrame /\ tFrameDue' = TRUE
          /\ UNCHANGED <<tDot, tLastDot, tVblank, tReadRC, tNmiPending, tNmiSignal, tNmiEnabled,
                         tRendering>>
      BY <3>1 DEF Twin!VblankEnd, Twin!statusVars, Twin!regVars
    <3>3. TwinRequested' = TwinRequested /\ calm' = calm
      BY <1>2, <3>2 DEF TwinRequested
    <3>4. Normal(TwinSpot) =
            [line |-> 0, pos |-> tLastDot, odd |-> ~tOddFrame, vblank |-> tVblank,
             readRC |-> tReadRC, due |-> TRUE, req |-> (calm /\ TwinRequested), calm |-> calm,
             enabled |-> tNmiEnabled, rendering |-> tRendering]
      BY <2>1, SpotFields, Zenon DEF Normal
    <3>5. TwinSpot' =
            [line |-> 0, pos |-> tLastDot, odd |-> ~tOddFrame, vblank |-> tVblank,
             readRC |-> tReadRC, due |-> TRUE, req |-> (calm /\ TwinRequested), calm |-> calm,
             enabled |-> tNmiEnabled, rendering |-> tRendering]
      BY <3>2, <3>3, Zenon DEF TwinSpot
    <3>6. TwinSpot'.line = 0 /\ 0 # VblankEndLine /\ 0 < PostRenderLine /\ 0 \in 0..VblankEndLine
      BY <3>5, PpuConstants DEF VblankEndLine
    <3>7. Normal(TwinSpot') = Normal(TwinSpot)
      BY <3>4, <3>5, <3>6, Zenon DEF Normal
    <3>8. Behind' = Behind /\ tDot' > 0 /\ tDot' \in Nat /\ tLastDot' <= tDot' /\ tDot' - tLastDot' <= 3
      BY <1>2, <1>3, <3>2 DEF Behind
    <3>9. SpotOK(TwinSpot')
      <4>1. /\ TwinSpot'.pos = TwinSpot.pos /\ TwinSpot'.odd = ~TwinSpot.odd
            /\ TwinSpot'.vblank = TwinSpot.vblank /\ TwinSpot'.readRC = TwinSpot.readRC
            /\ TwinSpot'.due = TRUE /\ TwinSpot'.req = TwinSpot.req /\ TwinSpot'.calm = TwinSpot.calm
            /\ TwinSpot'.enabled = TwinSpot.enabled /\ TwinSpot'.rendering = TwinSpot.rendering
        BY <3>5, SpotFields, Zenon
      <4>. QED BY <1>3, <3>6, <4>1, Zenon DEF SpotOK
    <3>. QED BY <1>1, <3>7, <3>8, <3>9
  <2>2. CASE tScanLine # VblankEndLine
    <3> DEFINE n == tDot - tLastDot  left == DotsLeft(TwinSpot, n)  k == n - left
    <3>1. /\ TwinSpot' = Handled(TwinSpot, n) /\ tDot' - tLastDot' = left
          /\ n \in Nat \ {0}
      BY <1>2, <1>3, <2>2, TwinHandledSpot
    <3>2. TwinSpot.line # VblankEndLine
      BY <2>2, SpotFields
    <3>3. k \in 1..Room(TwinSpot) /\ k <= n /\ Handled(TwinSpot, n) = Handled(TwinSpot, k)
      BY <1>3, <3>1, HandledDots
    <3>4. SpotOK(TwinSpot') /\ ~(TwinSpot'.line = 0 /\ TwinSpot'.pos = 0) /\ left \in Nat
      BY <1>3, <3>1, <3>2, HandledOK
    <3>5. ~(tScanLine' = 0 /\ tLastDot' = 0) /\ TwinSpot'.pos = tLastDot'
      BY <3>4 DEF TwinSpot
    <3>6. Normal(TwinSpot') = After(TwinSpot, k) /\ Normal(TwinSpot) = TwinSpot
      BY <3>1, <3>2, <3>3, Zenon DEF After, Normal
    <3>7. tLastDot' \in Nat
      BY <3>4, <3>5, PpuConstants DEF SpotOK
    <3>8. tDot' = tLastDot' + left
      <4>1. tDot' \in Int
        <5>1. Twin!FinishLine(tDot) \/ Twin!FinishLine(Twin!PreRenderDot)
          BY <1>2, <2>2, Zenon DEF Twin!LineStep, Twin!VisibleLine, Twin!PostRender, Twin!VblankStart,
               Twin!VblankIdle, Twin!PreRender, Twin!VblankEnd, VblankEndLine, Twin!VblankEndLine
        <5>. QED BY <1>3, <5>1, PpuConstants DEF Twin!FinishLine, Twin!PreRenderDot
      <4>2. tDot' - tLastDot' = left /\ left \in Nat /\ tLastDot' \in Nat
        BY <3>1, <3>4, <3>7
      <4>. QED BY <4>1, <4>2
    <3>9. left <= n /\ n = tDot - tLastDot /\ k = n - left /\ k \in Nat
      BY <3>1, <3>3, <3>4
    <3> HIDE DEF n, left
    <3>10. /\ Behind = 3 * owed + n /\ Behind' = 3 * owed + left /\ k <= 3 /\ n <= 3
      BY <1>2, <1>3, <3>1, <3>8, <3>7, <3>4, <3>9 DEF Behind
    <3> HIDE DEF k
    <3>11. Behind \in Nat /\ Behind' = Behind - k /\ k <= Behind
      BY <1>3, <3>1, <3>4, <3>9, <3>10
    <3>12. Way(r, Behind, TwinSpot, Normal(Spot))
      BY <1>1, <3>6
    <3>13. \E q : Way(q, Behind - k, After(TwinSpot, k), Normal(Spot))
      BY <1>3, <3>2, <3>3, <3>10, <3>11, <3>12, ShorterWay
    <3>14. tDot' \in Nat /\ tLastDot' <= tDot' /\ tDot' - tLastDot' <= 3
      <4>1. left \in Nat /\ left <= n /\ n \in Nat /\ n <= 3 /\ tLastDot' \in Nat
            /\ tDot' = tLastDot' + left
        BY <3>1, <3>4, <3>7, <3>8, <3>9, <3>10
      <4>2. \A a, b, c \in Nat : b <= c /\ c <= 3 => a + b \in Nat /\ a <= a + b /\ (a + b) - a <= 3
        OBVIOUS
      <4>. QED BY <4>1, <4>2, Zenon
    <3>. QED BY <3>4, <3>5, <3>6, <3>11, <3>13, <3>14
  <2>. QED BY <2>1, <2>2
<1>5. \E q : Way(q, Behind', Normal(TwinSpot'), Normal(Spot'))
  BY <1>2, <1>4
<1>6. /\ (lastDot' < dot' => tLastDot' = tDot') /\ dot' - lastDot' <= 3 * owed'
      /\ ((scanLine' = 0 /\ lastDot' = 0) => dot' > 0)
  <2>1. (scanLine = 0 /\ lastDot = 0) => dot > 0
    BY DEF TwinInv
  <2>. QED BY <1>2, <1>3, <2>1
<1>. QED BY <1>2, <1>3, <1>4, <1>5, <1>6 DEF TwinInv

\* A register access does the same to both.
LEMMA BothAccessed ==
  ASSUME TwinInv, PpuInv, Access
  PROVE  TwinInv'
<1>0. /\ SpotOK(Spot) /\ InStep /\ calm' = FALSE /\ owed' = owed
      /\ SpotOK(TwinSpot) /\ dot \in Nat /\ calm \in BOOLEAN
      /\ ((scanLine = 0 /\ lastDot = 0) => dot > 0)
  <2>1. calm \in BOOLEAN /\ SpotOK(TwinSpot) /\ ((scanLine = 0 /\ lastDot = 0) => dot > 0)
    BY DEF TwinInv
  <2>2. dot \in Nat
    BY DEF PpuInv, TypeOK, ClockOK
  <2>. QED BY <2>1, <2>2, SpotIsOK DEF Access
<1>1. /\ tScanLine = scanLine /\ tDot = dot /\ tLastDot = lastDot /\ tOddFrame = oddFrame
      /\ tVblank = vblank /\ tReadRC = readRC /\ tFrameDue = frameDue
      /\ tNmiEnabled = nmiEnabled /\ tRendering = rendering /\ owed = 0 /\ lastDot = dot
  BY <1>0, SameInStep
<1>2. /\ UNCHANGED <<scanLine, dot, lastDot, oddFrame, frameDue>>
      /\ UNCHANGED <<tScanLine, tDot, tLastDot, tOddFrame, tFrameDue>>
      /\ tVblank' = vblank' /\ tReadRC' = readRC' /\ tNmiEnabled' = nmiEnabled'
      /\ tRendering' = rendering'
      /\ tVblank' \in BOOLEAN /\ tReadRC' \in BOOLEAN /\ tNmiEnabled' \in BOOLEAN
      /\ tRendering' \in BOOLEAN
  <2>0. Twin!VblankLine = VblankLine
    BY DEF Twin!VblankLine, VblankLine
  <2>b. /\ tVblank \in BOOLEAN /\ tReadRC \in BOOLEAN /\ tNmiEnabled \in BOOLEAN
           /\ tRendering \in BOOLEAN
    BY <1>0, SpotFields, Zenon DEF SpotOK
  <2>1. CASE StatusRead /\ Twin!StatusRead
    <3>1. /\ UNCHANGED <<scanLine, dot, lastDot, oddFrame, frameDue, nmiEnabled, rendering>>
          /\ UNCHANGED <<tScanLine, tDot, tLastDot, tOddFrame, tFrameDue, tNmiEnabled, tRendering>>
      BY <2>1 DEF StatusRead, Twin!StatusRead, clockVars, regVars, Twin!clockVars, Twin!regVars
    <3>2. /\ vblank' = FALSE /\ readRC' = (readRC \/ (scanLine = VblankLine /\ dot = 1))
          /\ tVblank' = FALSE /\ tReadRC' = (tReadRC \/ (tScanLine = Twin!VblankLine /\ tDot = 1))
      BY <2>1, Zenon DEF StatusRead, Twin!StatusRead
    <3>. QED BY <1>1, <2>0, <2>b, <3>1, <3>2, Zenon
  <2>2. CASE \E e \in BOOLEAN : CtrlWrite(e) /\ Twin!CtrlWrite(e)
    <3>0. PICK e \in BOOLEAN : CtrlWrite(e) /\ Twin!CtrlWrite(e)
      BY <2>2, Zenon
    <3>1. /\ UNCHANGED <<scanLine, dot, lastDot, oddFrame, frameDue, readRC, rendering>>
          /\ UNCHANGED <<tScanLine, tDot, tLastDot, tOddFrame, tFrameDue, tReadRC, tRendering>>
      BY <3>0 DEF CtrlWrite, Twin!CtrlWrite, clockVars, Twin!clockVars
    <3>2. /\ vblank' = (vblank /\ ~(scanLine = PreRenderLine /\ dot = 1)) /\ nmiEnabled' = e
          /\ tVblank' = (tVblank /\ ~(tScanLine = PreRenderLine /\ tDot = 1)) /\ tNmiEnabled' = e
      BY <3>0, Zenon DEF CtrlWrite, Twin!CtrlWrite, VblankAtCtrl, Twin!VblankAtCtrl
    <3>. QED BY <1>1, <2>b, <3>1, <3>2, Zenon
  <2>3. CASE \E e \in BOOLEAN : MaskWrite(e) /\ Twin!MaskWrite(e)
    <3>0. PICK e \in BOOLEAN : MaskWrite(e) /\ Twin!MaskWrite(e)
      BY <2>3, Zenon
    <3>1. /\ UNCHANGED <<scanLine, dot, lastDot, oddFrame, frameDue, vblank, readRC, nmiEnabled>>
         
             /\ UNCHANGED <<tScanLine, tDot, tLastDot, tOddFrame, tFrameDue, tVblank, tReadRC, tNmiEnabled>>
          /\ rendering' = e /\ tRendering' = e
      BY <3>0 DEF MaskWrite, Twin!MaskWrite, clockVars, Twin!clockVars, statusVars, Twin!statusVars
    <3>. QED BY <1>1, <2>b, <3>1, Zenon
  <2>4. CASE CheckNMI /\ Twin!CheckNMI
    <3>1.
             /\ UNCHANGED <<scanLine, dot, lastDot, oddFrame, frameDue, vblank, readRC, nmiEnabled, rendering>>
          /\ UNCHANGED <<tScanLine, tDot, tLastDot, tOddFrame, tFrameDue, tVblank, tReadRC, tNmiEnabled,
                         tRendering>>
      BY <2>4 DEF CheckNMI, Twin!CheckNMI, clockVars, Twin!clockVars, regVars, Twin!regVars
    <3>. QED BY <1>1, <2>b, <3>1, Zenon
  <2>. QED BY <2>1, <2>2, <2>3, <2>4 DEF Access
<1>3. (calm /\ Requested)' = FALSE /\ (calm /\ TwinRequested)' = FALSE
  BY <1>0, Zenon
<1>4. Spot' = TwinSpot'
  BY <1>1, <1>2, <1>3, Zenon DEF Spot, TwinSpot
<1>5. SpotOK(TwinSpot')
  <2>1. /\ TwinSpot'.line = TwinSpot.line /\ TwinSpot'.pos = TwinSpot.pos
           /\ TwinSpot'.odd = TwinSpot.odd
        /\ TwinSpot'.due = TwinSpot.due
    BY <1>2, SpotFields, Zenon DEF TwinSpot
  <2>2. /\ TwinSpot'.vblank = tVblank' /\ TwinSpot'.readRC = tReadRC'
        /\ TwinSpot'.req = (calm /\ TwinRequested)' /\ TwinSpot'.calm = calm'
        /\ TwinSpot'.enabled = tNmiEnabled' /\ TwinSpot'.rendering = tRendering'
    BY Zenon DEF TwinSpot
  <2>3. /\ TwinSpot'.vblank \in BOOLEAN /\ TwinSpot'.readRC \in BOOLEAN /\ TwinSpot'.req \in BOOLEAN
        /\ TwinSpot'.calm \in BOOLEAN /\ TwinSpot'.enabled \in BOOLEAN
           /\ TwinSpot'.rendering \in BOOLEAN
    BY <1>0, <1>2, <1>3, <2>2, Zenon
  <2>. QED BY <1>0, <2>1, <2>3, Zenon DEF SpotOK
<1>6. Behind' = 0
  BY <1>0, <1>1, <1>2 DEF Behind
<1>7. \E q : Way(q, Behind', Normal(TwinSpot'), Normal(Spot'))
  BY <1>4, <1>6, NoWay
<1>8. /\ owed' \in Nat /\ tDot' \in Nat /\ tLastDot' <= tDot' /\ tDot' - tLastDot' <= 3
      /\ (lastDot' < dot' => tLastDot' = tDot') /\ dot' - lastDot' <= 3 * owed'
      /\ ((scanLine' = 0 /\ lastDot' = 0) => dot' > 0)
      /\ ((tScanLine' = 0 /\ tLastDot' = 0) => tDot' > 0)
  BY <1>0, <1>1, <1>2
<1>9. calm' \in BOOLEAN
  BY <1>0, Zenon
<1>. QED BY <1>5, <1>7, <1>8, <1>9, Zenon DEF TwinInv

\* Run in batches, the PPU is the one of PpuSpec.
THEOREM BatchImplementsPpu == BatchSpec => PpuSpec
<1>1. BatchInit => PpuInit
  BY DEF BatchInit
<1>2. [BatchNext]_batchVars => [PpuNext]_ppuVars
  BY DEF BatchNext, CpuBatch, BatchStep, TwinCycle, TwinStep, Access, PpuNext, batchVars
<1>. QED BY <1>1, <1>2, PTL DEF BatchSpec, PpuSpec

\* What joins the PPU to its twin, in every state of both.
THEOREM TwinInvariant == BatchSpec => []TwinInv
<1>1. TwinInv /\ PpuInv /\ [BatchNext]_batchVars => TwinInv'
  <2> SUFFICES ASSUME TwinInv, PpuInv, [BatchNext]_batchVars PROVE TwinInv'
    OBVIOUS
  <2>1. CASE BatchStep
    BY <2>1, PpuMoves
  <2>2. CASE TwinStep
    BY <2>2, TwinMoves
  <2>3. CASE Access
    BY <2>3, BothAccessed
  <2>4. CASE (\E n \in Batches : CpuBatch(n)) \/ TwinCycle \/ UNCHANGED batchVars
    BY <2>4, TwinIdle
  <2>. QED BY <2>1, <2>2, <2>3, <2>4 DEF BatchNext
<1>. QED BY <1>1, TwinInit, BatchImplementsPpu, PpuInvariant, PTL DEF BatchSpec

\* BatchingIsInvisible of every reachable state, for every geometry of the frame that
\* PpuConstants allows and for every set of batches (ppu.c 70-127).
THEOREM BatchingTheorem == BatchSpec => []BatchingIsInvisible
<1>1. TwinInv /\ PpuInv => BatchingIsInvisible
  <2> SUFFICES ASSUME TwinInv, PpuInv, InStep
               PROVE  /\ clockVars = <<tScanLine, tDot, tLastDot, tOddFrame>>
                      /\ <<vblank, readRC, frameDue>> = <<tVblank, tReadRC, tFrameDue>>
                      /\ calm => (Requested <=> TwinRequested)
    BY DEF BatchingIsInvisible
  <2>1. SpotOK(Spot)
    BY SpotIsOK DEF TwinInv
  <2>2. /\ tScanLine = scanLine /\ tDot = dot /\ tLastDot = lastDot /\ tOddFrame = oddFrame
        /\ tVblank = vblank /\ tReadRC = readRC /\ tFrameDue = frameDue
        /\ (calm /\ TwinRequested) = (calm /\ Requested)
    BY <2>1, SameInStep
  <2>3. calm => (Requested <=> TwinRequested)
    BY <2>2, Zenon
  <2>. QED BY <2>2, <2>3 DEF clockVars
<1>. QED BY <1>1, TwinInvariant, BatchImplementsPpu, PpuInvariant, PTL
=============================================================================
