----------------------------- MODULE PpuBatching -----------------------------
(***************************************************************************)
(* Two PPUs on the same program: one is brought up to date in the batches  *)
(* cpu/cpu.c makes (PpuTicksExecute(n) after n cycles), its twin after     *)
(* every single CPU cycle.  CpuSyncDevices is allowed to batch because the *)
(* CPU can see no difference, except in how an NMI request is written      *)
(* down: armed at once or pending for one more poll.                       *)
(***************************************************************************)
EXTENDS PpuTiming

VARIABLES
  tScanLine, tDot, tLastDot, tOddFrame, tVblank, tReadRC, tNmiPending,
  tNmiSignal, tNmiEnabled, tRendering, tFrameDue,
  owed,      \* CPU cycles the twin is behind
  calm       \* no NMI was outstanding in either when the batch began

Twin == INSTANCE PpuTiming WITH
  scanLine <- tScanLine, dot <- tDot, lastDot <- tLastDot,
  oddFrame <- tOddFrame, vblank <- tVblank, readRC <- tReadRC,
  nmiPending <- tNmiPending, nmiSignal <- tNmiSignal,
  nmiEnabled <- tNmiEnabled, rendering <- tRendering, frameDue <- tFrameDue

twinVars == <<tScanLine, tDot, tLastDot, tOddFrame, tVblank, tReadRC,
              tNmiPending, tNmiSignal, tNmiEnabled, tRendering, tFrameDue>>
batchVars == <<ppuVars, twinVars, owed, calm>>

BatchInit == PpuInit /\ Twin!PpuInit /\ owed = 0 /\ calm = FALSE

Requested == nmiPending \/ nmiSignal
TwinRequested == tNmiPending \/ tNmiSignal

\* Both have served every cycle the CPU has asked for.
InStep == AtRest /\ Twin!AtRest /\ owed = 0

CpuBatch(n) ==
  /\ InStep
  /\ Ticks(n)
  /\ owed' = n
  /\ calm' = ~(Requested \/ TwinRequested)
  /\ UNCHANGED twinVars

BatchStep == LineStep /\ UNCHANGED <<twinVars, owed, calm>>

TwinCycle ==
  /\ AtRest /\ owed > 0
  /\ Twin!Ticks(1)
  /\ owed' = owed - 1
  /\ UNCHANGED <<ppuVars, calm>>

TwinStep == AtRest /\ Twin!LineStep /\ UNCHANGED <<ppuVars, owed, calm>>

\* A register access reaches both, and so does the NMI poll.
Access ==
  /\ InStep
  /\ \/ StatusRead /\ Twin!StatusRead
     \/ \E e \in BOOLEAN : CtrlWrite(e) /\ Twin!CtrlWrite(e)
     \/ \E e \in BOOLEAN : MaskWrite(e) /\ Twin!MaskWrite(e)
     \/ CheckNMI /\ Twin!CheckNMI
  /\ calm' = FALSE
  /\ UNCHANGED owed

BatchNext ==
  \/ \E n \in Batches : CpuBatch(n)
  \/ BatchStep
  \/ TwinCycle
  \/ TwinStep
  \/ Access

BatchSpec == BatchInit /\ [][BatchNext]_batchVars

\* Whatever the batches, both PPUs are at the same dot of the same frame with the
\* same flags, and have handed over the same frames (ppu.c 70-127); and batching
\* neither loses nor invents an NMI: a batch that begins with none outstanding
\* raises one in both or in neither (ppu.c 91-104).  Whether it is armed or pending
\* does depend on the batch: that is how the code tells a vblank that began in the
\* last CPU cycle of the instruction from an older one.
BatchingIsInvisible ==
  InStep => /\ clockVars = <<tScanLine, tDot, tLastDot, tOddFrame>>
            /\ <<vblank, readRC, frameDue>> = <<tVblank, tReadRC, tFrameDue>>
            /\ calm => (Requested <=> TwinRequested)
=============================================================================
