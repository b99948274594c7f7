------------------------------- MODULE CpuIrq --------------------------------
(***************************************************************************)
(* CpuMainLoop of cpu/cpu.c over the frame counter of ApuFrame: when the   *)
(* IRQ line is polled, how long the interrupt flag takes to act, and how   *)
(* late the lazily run APU may be when the line is looked at.  The PPU is  *)
(* here only as the NMI half of the deadline and as NMIs that come at any  *)
(* poll.  Cycles of an instruction are split as in CpuNmi.                 *)
(***************************************************************************)
EXTENDS ApuFrame

CONSTANTS
  InsnCycles,     \* cycles of instructions that touch no device register
  AccessCycles,   \* cycles up to and including the register access
  EntryCycles,    \* 7: interrupt entry
  NmiDeadlines    \* what PpuCyclesToNMI may return: a frame of the PPU is
                  \* shorter than one of the APU

ASSUME IrqConstants ==
  /\ InsnCycles \subseteq Nat \ {0} /\ AccessCycles \subseteq Nat \ {0}
  /\ EntryCycles \in Nat \ {0}
  /\ NmiDeadlines \subseteq 0..(2 * FrameSteps[3])

VARIABLES
  pc,           \* where CpuMainLoop is
  ret,          \* where it goes on after CpuSyncDevices
  lag,          \* cpu->sync.pending
  deadline,     \* cpu->sync.deadline
  flagI,        \* reg->P.I
  irqDisabled,  \* cpu->irqDisabled
  cleared,      \* history: the last instruction was a CLI or PLP that cleared the flag
  kept          \* history: instructions begun with an IRQ asserted and unmasked

loopVars == <<pc, ret, lag, deadline>>
maskVars == <<flagI, irqDisabled, cleared, kept>>
mainVars == <<apuVars, loopVars, maskVars>>

Places == {"poll", "irq", "fetch", "exec", "sync", "access"}

MainInit ==
  /\ ApuInit
  /\ pc = "poll" /\ ret = "poll" /\ lag = 0 /\ deadline = 0
  /\ flagI = TRUE /\ irqDisabled = TRUE
  /\ cleared = FALSE /\ kept = 0

\* CpuSyncDevices up to its end.
SyncApu(n, next) ==
  /\ ApuTicks(n)
  /\ lag' = 0
  /\ pc' = "sync" /\ ret' = next
  /\ UNCHANGED deadline

\* CpuUpdateSyncDeadline with ApuCyclesToIRQ.
UpdateSyncDeadline ==
  \E nmi \in NmiDeadlines :
    deadline' = IF FrameIrqComes' /\ ApuCyclesToFrameIRQ' < nmi
                  THEN ApuCyclesToFrameIRQ' ELSE nmi

SyncDone ==
  /\ pc = "sync" /\ ApuAtRest
  /\ pc' = ret
  /\ UNCHANGED <<apuVars, ret, lag, maskVars>>
  /\ UpdateSyncDeadline

\* Faulty: runs the devices when the deadline has passed, not when it is reached.
CpuTickPast(cycles, next) ==
  \/ /\ lag + cycles > deadline
     /\ SyncApu(lag + cycles, next)
  \/ /\ lag + cycles <= deadline
     /\ lag' = lag + cycles
     /\ pc' = next
     /\ UNCHANGED <<apuVars, ret, deadline>>

\* CpuTick: cycles accumulate until the deadline.
CpuTick(cycles, next) ==
  \/ /\ lag + cycles >= deadline
     /\ SyncApu(lag + cycles, next)
  \/ /\ lag + cycles < deadline
     /\ lag' = lag + cycles
     /\ pc' = next
     /\ UNCHANGED <<apuVars, ret, deadline>>

\* The NMI check at the top of the loop; CpuExecuteNMI masks IRQs at once.
PollNMI ==
  /\ pc = "poll" /\ ApuAtRest
  /\ \/ /\ flagI' = TRUE /\ irqDisabled' = TRUE
        /\ CpuTick(EntryCycles, "irq")
     \/ pc' = "irq" /\ UNCHANGED <<apuVars, ret, lag, deadline, flagI, irqDisabled>>
  /\ UNCHANGED <<cleared, kept>>

\* The IRQ check; CpuExecuteIRQ sets the flag only.
EnterIRQ ==
  /\ pc = "irq" /\ ~irqDisabled /\ irq
  /\ flagI' = TRUE
  /\ CpuTick(EntryCycles, "fetch")
  /\ kept' = 0
  /\ UNCHANGED <<irqDisabled, cleared>>

NoIRQ ==
  /\ pc = "irq" /\ ~(~irqDisabled /\ irq)
  /\ pc' = "fetch"
  /\ kept' = IF irq /\ ~flagI THEN kept + 1 ELSE 0
  /\ UNCHANGED <<apuVars, ret, lag, deadline, flagI, irqDisabled, cleared>>

\* Faulty: the mask can be set and is never taken back.
FetchSticky ==
  /\ pc = "fetch"
  /\ irqDisabled' = (irqDisabled \/ flagI)
  /\ pc' = "exec"
  /\ UNCHANGED <<apuVars, ret, lag, deadline, flagI, cleared, kept>>

\* What the next poll goes by is the flag from before the instruction.
Fetch ==
  /\ pc = "fetch"
  /\ irqDisabled' = flagI
  /\ pc' = "exec"
  /\ UNCHANGED <<apuVars, ret, lag, deadline, flagI, cleared, kept>>

PlainInsn ==
  /\ pc = "exec"
  /\ \E c \in InsnCycles : CpuTick(c, "poll")
  /\ cleared' = FALSE
  /\ UNCHANGED <<flagI, irqDisabled, kept>>

\* CLI, SEI and PLP.
FlagInsn(i) ==
  /\ pc = "exec"
  /\ \E c \in InsnCycles : CpuTick(c, "poll")
  /\ flagI' = i
  /\ cleared' = (flagI /\ ~i)
  /\ UNCHANGED <<irqDisabled, kept>>

\* Faulty: the restored flag acts after one more instruction, as CLI's does.
RtiLate(i) ==
  /\ pc = "exec"
  /\ \E c \in InsnCycles : CpuTick(c, "poll")
  /\ flagI' = i /\ cleared' = FALSE
  /\ UNCHANGED <<irqDisabled, kept>>

\* RTI: the restored flag acts at once.
Rti(i) ==
  /\ pc = "exec"
  /\ \E c \in InsnCycles : CpuTick(c, "poll")
  /\ flagI' = i /\ irqDisabled' = i /\ cleared' = FALSE
  /\ UNCHANGED kept

ReachRegister ==
  /\ pc = "exec"
  /\ \E k \in AccessCycles : SyncApu(lag + k, "access")
  /\ cleared' = FALSE
  /\ UNCHANGED <<flagI, irqDisabled, kept>>

\* A read leaves the deadline alone, CpuMemWrite8 updates it.
ReadRegister ==
  /\ pc = "access"
  /\ ApuStatusRead
  /\ pc' = "poll"
  /\ UNCHANGED <<ret, lag, deadline, maskVars>>

WriteRegister ==
  /\ pc = "access"
  /\ ApuWrite
  /\ pc' = "poll"
  /\ UpdateSyncDeadline
  /\ UNCHANGED <<ret, lag, maskVars>>

ApuRuns == (\E n \in StepLengths : ApuStep(n)) /\ UNCHANGED <<loopVars, maskVars>>

MainNext ==
  \/ ApuRuns
  \/ SyncDone
  \/ PollNMI
  \/ EnterIRQ
  \/ NoIRQ
  \/ Fetch
  \/ PlainInsn
  \/ \E i \in BOOLEAN : FlagInsn(i) \/ Rti(i)
  \/ ReachRegister
  \/ ReadRegister
  \/ WriteRegister

MainSpec == MainInit /\ [][MainNext]_mainVars

-----------------------------------------------------------------------------
MainTypeOK ==
  /\ ApuTypeOK
  /\ pc \in Places /\ ret \in {"poll", "irq", "fetch", "access"}
  /\ lag \in Nat /\ deadline \in Nat
  /\ flagI \in BOOLEAN /\ irqDisabled \in BOOLEAN
  /\ cleared \in BOOLEAN /\ kept \in Nat

\* An asserted IRQ is kept waiting by an unmasked CPU only for the instruction after a
\* CLI or PLP that has cleared the flag, and for no second one: not after RTI, whose flag
\* acts at once, nor after an instruction that leaves the flag as it was (cpu.c 411-424,
\* emulate.c 658-666 and 1580-1602).
IrqWaitsOneInsn == kept <= 1 /\ (pc = "fetch" /\ kept = 1 => cleared)

\* The frame IRQ is not overdue when the line is polled: the cycles still owed to the
\* APU end, at the latest, with the one that sets the flag (cpu.c 114-147, apu.c
\* 912-925).
FrameIrqNotOverdue ==
  pc = "irq" /\ ~fiveStep /\ ~irqDisable /\ ~frame.irq => lag <= FrameIrqIn

\* apu.c:740-742: the flag is set in three consecutive CPU cycles, so acknowledging
\* it in the first does not take the IRQ back; the poll two cycles on finds it.
IrqSetThreeTimes ==
  pc = "irq" /\ frame.irq /\ ~irqDisable /\ lag > 1 => irq
=============================================================================
