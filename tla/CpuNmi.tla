------------------------------- MODULE CpuNmi --------------------------------
(***************************************************************************)
(* CpuMainLoop of cpu/cpu.c over the PPU of PpuTiming: how CPU time is     *)
(* batched (CpuTick, CpuSyncDevices, CpuUpdateSyncDeadline), where in an   *)
(* instruction a device register is touched, and when an NMI is polled and *)
(* entered.                                                                *)
(*                                                                         *)
(* An instruction is its cycles: either it touches no device and costs     *)
(* c \in InsnCycles, or it reaches a register after k \in AccessCycles     *)
(* cycles, when the devices are synchronised, and ends r \in RestCycles    *)
(* after that.  The APU is here only as the IRQ half of the deadline.      *)
(***************************************************************************)
EXTENDS PpuTiming

CONSTANTS
  InsnCycles,     \* cycles of instructions that touch no device register
  AccessCycles,   \* cycles up to and including the register access
  RestCycles,     \* cycles after it
  EntryCycles,    \* 7: interrupt entry
  DmaBytes,       \* 256: bytes of an OAM DMA
  OamZeroBegin,   \* PPU_RENDER_ASSIGN_X, 257: in the dots after it, up to
  OamZeroEnd,     \* PPU_OAMADDR_SET_ZERO_END, 320, rendering zeroes the OAM address
  IrqDeadlines    \* what ApuCyclesToIRQ may return

ASSUME CpuConstants ==
  /\ InsnCycles \subseteq Nat \ {0} /\ AccessCycles \subseteq Nat \ {0}
  /\ RestCycles \subseteq Nat
  /\ EntryCycles \in Nat \ {0} /\ DmaBytes \in Nat \ {0}
  /\ IrqDeadlines \subseteq Nat

\* What an instruction may take, one with an OAM DMA included that copies straight
\* through.  A DMA that rendering holds up may take the rest of a frame and is not here.
InsnLengths ==
  {0} \cup InsnCycles
  \cup {k + 2 * DmaBytes + 2 + r : k \in AccessCycles \cup {0}, r \in RestCycles \cup {0}}

\* These are short against a frame: two of them with their interrupt entries pass within
\* one, and what is left of one and another within the picture.  The longest take 521
\* cycles, a frame 29780 and its picture 27394.
ASSUME FrameIsLong ==
  /\ \A n, m \in InsnLengths :
       3 * (EntryCycles + n + EntryCycles + m) <= PreRenderLine * CyclesPerLine
  /\ \A r \in RestCycles \cup {0}, m \in InsnLengths :
       3 * (2 + r + EntryCycles + m) <= VblankLine * CyclesPerLine

\* All but the first byte take longer to copy than the way from where a line begins to
\* zero the address to dot 2 of the line after next: 1530 dots against 427.
ASSUME DmaIsLong ==
  /\ OamZeroBegin \in Nat /\ OamZeroEnd \in Nat
  /\ OamZeroBegin <= OamZeroEnd /\ OamZeroEnd < OddSkipDot
  /\ 6 * (DmaBytes - 1) + OamZeroBegin >= 2 * CyclesPerLine + 1

VARIABLES
  pc,         \* where CpuMainLoop is
  ret,        \* where it goes on after CpuSyncDevices
  lag,        \* cpu->sync.pending
  deadline,   \* cpu->sync.deadline
  dmaLeft,    \* bytes the running OAM DMA still has to copy: up to OAM address 255
  dmaHeld     \* history: since the last poll rendering has held up a DMA

cpuVars == <<pc, ret, lag, deadline, dmaLeft, dmaHeld>>
nmiVars == <<ppuVars, cpuVars>>

Places == {"poll", "nmi", "irq", "fetch", "sync", "access", "dma", "rest"}

CpuInit ==
  /\ PpuInit
  /\ pc = "poll" /\ ret = "poll"
  /\ lag = 0 /\ deadline = 0 /\ dmaLeft = 0 /\ dmaHeld = FALSE

\* CpuSyncDevices up to its end: hand n cycles to the devices, then go on at next.
SyncDevices(n, next) ==
  /\ Ticks(n)
  /\ lag' = 0
  /\ pc' = "sync" /\ ret' = next
  /\ UNCHANGED <<deadline, dmaLeft, dmaHeld>>

\* CpuUpdateSyncDeadline.
UpdateSyncDeadline ==
  \E irq \in IrqDeadlines :
    deadline' = IF irq < PpuCyclesToNMI THEN irq ELSE PpuCyclesToNMI

\* The end of CpuSyncDevices, once PpuTicksExecute has returned.
SyncDone ==
  /\ pc = "sync" /\ AtRest
  /\ pc' = ret
  /\ UpdateSyncDeadline
  /\ UNCHANGED <<ppuVars, ret, lag, dmaLeft, dmaHeld>>

\* Faulty: the deadline itself is let pass.
CpuTickPast(cycles, next) ==
  \/ lag + cycles > deadline /\ SyncDevices(lag + cycles, next)
  \/ /\ lag + cycles <= deadline
     /\ lag' = lag + cycles
     /\ pc' = next
     /\ UNCHANGED <<ppuVars, ret, deadline, dmaLeft, dmaHeld>>

\* CpuTick: cycles accumulate until the deadline.
CpuTick(cycles, next) ==
  \/ /\ cycles > 0 /\ lag + cycles >= deadline
     /\ SyncDevices(lag + cycles, next)
  \/ /\ cycles = 0 \/ lag + cycles < deadline
     /\ lag' = lag + cycles
     /\ pc' = next
     /\ UNCHANGED <<ppuVars, ret, deadline, dmaLeft, dmaHeld>>

\* Top of the loop of CpuMainLoop.
PollNMI ==
  /\ pc = "poll"
  /\ CheckNMI
  /\ pc' = IF NmiFires THEN "nmi" ELSE "irq"
  /\ dmaHeld' = FALSE
  /\ UNCHANGED <<ret, lag, deadline, dmaLeft>>

\* CpuExecuteNMI masks IRQs, so the IRQ check after it does nothing.
EnterNMI == pc = "nmi" /\ CpuTick(EntryCycles, "fetch")

\* The IRQ check: an IRQ is entered, or there is none or it is masked.
CheckIRQ ==
  /\ pc = "irq"
  /\ \/ CpuTick(EntryCycles, "fetch")
     \/ pc' = "fetch" /\ UNCHANGED <<ppuVars, ret, lag, deadline, dmaLeft, dmaHeld>>

PlainInsn == pc = "fetch" /\ \E c \in InsnCycles : CpuTick(c, "poll")

\* CpuMemRead8 or CpuMemWrite8 of a device register: CpuSlowResolveAddr
\* synchronises the devices first.
ReachRegister ==
  /\ pc = "fetch"
  /\ \E k \in AccessCycles : SyncDevices(lag + k, "access")

\* A read leaves the deadline alone, CpuMemWrite8 updates it.
ReadRegister ==
  /\ pc = "access"
  /\ StatusRead
  /\ pc' = "rest"
  /\ UNCHANGED <<ret, lag, deadline, dmaLeft, dmaHeld>>

WriteRegister ==
  /\ pc = "access"
  /\ \E e \in BOOLEAN : CtrlWrite(e) \/ MaskWrite(e)
  /\ pc' = "rest"
  /\ UpdateSyncDeadline
  /\ UNCHANGED <<ret, lag, dmaLeft, dmaHeld>>

\* PpuDMAWrite with the OAM address at 0, as the code demands.  The address counts the
\* bytes, two cycles each, and the loop ends when it wraps; then one more cycle, or two
\* when the DMA began on an odd one.
DmaWrite ==
  /\ pc = "access"
  /\ pc' = "dma"
  /\ dmaLeft' = DmaBytes
  /\ UNCHANGED <<ppuVars, ret, lag, deadline, dmaHeld>>

DmaByte ==
  /\ pc = "dma" /\ dmaLeft > 0
  /\ Ticks(2)
  /\ dmaLeft' = dmaLeft - 1
  /\ UNCHANGED <<pc, ret, lag, deadline, dmaHeld>>

DmaEnd ==
  /\ pc = "dma" /\ dmaLeft = 0
  /\ \E odd \in {0, 1} : SyncDevices(1 + odd, "rest")

\* What is left of the instruction goes through CpuTick.
EndInsn == pc = "rest" /\ \E r \in RestCycles : CpuTick(r, "poll")

\* With rendering on, the end of a picture or pre-render line zeroes the OAM address.
\* (The delay of a $2001 write is over before the next instruction can start a DMA.)
ZeroesOamAddr ==
  /\ rendering
  /\ scanLine < PostRenderLine \/ scanLine = PreRenderLine
  /\ lastDot <= OamZeroEnd /\ dot > OamZeroBegin

\* An iteration of PpuTicksExecute.  If it zeroes the address inside a DMA the copy starts
\* over, one byte on: nothing but the end of the picture lets it come to an end.
PpuStep ==
  /\ LineStep
  /\ \/ /\ pc = "dma" /\ ZeroesOamAddr
        /\ dmaLeft' = DmaBytes - 1 /\ dmaHeld' = TRUE
     \/ /\ ~(pc = "dma" /\ ZeroesOamAddr)
        /\ UNCHANGED <<dmaLeft, dmaHeld>>
  /\ UNCHANGED <<pc, ret, lag, deadline>>

CpuNext ==
  \/ PpuStep
  \/ SyncDone
  \/ PollNMI
  \/ EnterNMI
  \/ CheckIRQ
  \/ PlainInsn
  \/ ReachRegister
  \/ ReadRegister
  \/ WriteRegister
  \/ DmaWrite
  \/ DmaByte
  \/ DmaEnd
  \/ EndInsn

CpuSpec == CpuInit /\ [][CpuNext]_nmiVars

\* The emulator is one thread that never waits: as long as it runs, it steps.
CpuLive == CpuSpec /\ WF_nmiVars(CpuNext)

-----------------------------------------------------------------------------
\* However lazily the devices are run, the CPU never polls past a vblank the PPU has
\* not been run into: the cycles still owed to it end at dot 2 of line 241 at the
\* latest (cpu.c 114-147 against ppu.c 129-142).
NeverOverdue == pc = "poll" => 3 * lag <= DotsToVblank

\* The NMI line as the abstract specification has it.
Line == INSTANCE NmiLine WITH
  request <- IF nmiSignal THEN "now" ELSE IF nmiPending THEN "soon" ELSE "none",
  second <- nmiSignal /\ nmiPending,
  held <- dmaHeld,
  entering <- pc = "nmi"

\* CpuMainLoop and the PPU together implement it (cpu.c 387-424, ppu.c 24-43 and 91-104),
\* and no request is lost by meeting an older one: when a vblank begins none is waiting,
\* unless a DMA has been held up since the last poll (ppu.c 447-454, render.c 502-579).
NmiLineSpec ==
  /\ Line!LineSpec
  /\ [][~vblank /\ vblank' /\ (nmiSignal \/ nmiPending) => dmaHeld]_nmiVars

\* An armed NMI is entered (at the next poll): no batching, IRQ entry or DMA can hold it
\* off for ever, also a DMA that rendering makes start over in every line.
NmiIsEntered == nmiSignal ~> pc = "nmi"
=============================================================================
