------------------------------ MODULE CpuAccess ------------------------------
(***************************************************************************)
(* The cycles of cpu/cpu.c inside an instruction.  The handlers of         *)
(* cpu/emulate.c count each bus cycle they make in ioInsnCycles; when one  *)
(* reaches a device, CpuSyncDevices hands the devices everything counted   *)
(* so far, and CpuTick takes what is left, or, for the instructions that   *)
(* cannot reach a device, throws the count away and takes the cycles of    *)
(* CPU_OPCODE_LIST.  CpuNmi and CpuIrq take the result as given: an access *)
(* after so many cycles, so many after it.                                 *)
(*                                                                         *)
(* An instruction is the sequence of bus cycles its handler makes.  What   *)
(* the devices do with their cycles is left out: the deadline is anything. *)
(***************************************************************************)
EXTENDS Integers, Sequences

CONSTANTS
  Deadlines,   \* what MIN(PpuCyclesToNMI, ApuCyclesToIRQ) may be
  Fixed,       \* [cycles, io]: instructions of constant cycles, and how many
               \* cycles their handlers count
  EntryCycles, \* 7: interrupt entry
  DmaCycles    \* 512: the bytes of an OAM DMA

ASSUME AccessConstants ==
  /\ Deadlines \subseteq Nat /\ EntryCycles \in Nat \ {0} /\ DmaCycles \in Nat
  /\ Fixed \subseteq [cycles : Nat \ {0}, io : Nat]

VARIABLES
  stage,     \* "poll" between two instructions, "run" in one
  current,   \* the instruction
  todo,      \* the bus cycles its handler still has to make
  cycles,    \* cpu->cycles modulo 2
  pending,   \* cpu->sync.pending
  deadline,  \* cpu->sync.deadline
  io,        \* cpu->ioInsnCycles
  owed,      \* history: what the devices were owed when the instruction began
  given      \* history: what they have got since

sync == <<cycles, pending, deadline, io>>
accessVars == <<stage, current, todo, sync, owed, given>>

-----------------------------------------------------------------------------
(* The instructions of CPU_OPCODE_LIST marked IORW, by addressing mode, by    *)
(* what they do at the address, and by where it is.                           *)

\* The regions of CpuSlowResolveAddr that a program may read, and may write.
Readable == {"ram", "mirror", "ppu", "channels", "pad1", "pad2", "prgram", "rom"}
Writable == {"ram", "mirror", "ppu", "sound", "dma", "channels", "pad1", "pad2", "prgram", "rom"}
Regions(kind) == CASE kind = "read" -> Readable
                   [] kind = "store" -> Writable
                   [] OTHER -> Readable \cap Writable

\* crosses: the index carries into the next page; straddles: the operand lies
\* on both sides of the end of an 8 KB bank.
Indexed == {"ai", "iy"}
IorwInsns ==
  {i \in [mode : {"a", "ai", "ix", "iy"}, kind : {"read", "store", "rmw"},
          region : Writable, crosses : BOOLEAN, straddles : BOOLEAN] :
     /\ i.region \in Regions(i.kind)
     /\ i.crosses => i.mode \in Indexed
     /\ i.straddles => i.mode \in {"a", "ai"}}
\* Among them JMP ($xxxx), whose pointer is taken to lie in memory and not in a device.
FixedInsns == [mode : {"fixed"}, cost : Fixed]
Entry == [mode |-> "entry"]

\* PageCrossRead8 and AbsoluteIndexedAddr: a read skips the cycle of the carry when
\* there is none.
Indexing(i) == IF i.mode \in Indexed /\ (i.kind = "read" => i.crosses) THEN <<"dummy">> ELSE <<>>

\* AbsoluteAddr, IndirectXAddr, ZeroPageRead16.
Address(i) == CASE i.mode \in {"a", "ai"} -> <<"fetch16">>
                [] i.mode = "ix" -> <<"fetch8", "dummy", "pointer">>
                [] OTHER -> <<"fetch8", "pointer">>
Data(i) == CASE i.kind = "read" -> <<"read">>
             [] i.kind = "store" -> <<"write">>
             [] OTHER -> <<"read", "dummy", "write">>

\* After the opcode; an interrupt entry pushes the flags and reads the vector.
Handler(i) == CASE i.mode = "entry" -> <<"fetch8", "fetch16">>
                [] i.mode = "fixed" -> [n \in 1..i.cost.io |-> "fetch8"]
                [] OTHER -> <<"fetch8">> \o Address(i) \o Indexing(i) \o Data(i)

\* The cycles column of CPU_OPCODE_LIST, less the cycle that a read without carry saves.
Table(i) ==
  CASE i.mode = "entry" -> EntryCycles
    [] i.mode = "fixed" -> i.cost.cycles
    [] OTHER -> LET longest == IF i.mode \in {"ix", "iy"} THEN 6 ELSE IF i.mode = "ai" THEN 5 ELSE 4
                IN longest + (IF i.kind = "rmw" THEN 2 ELSE 0)
                     - (IF i.mode \in Indexed /\ i.kind = "read" /\ ~i.crosses THEN 1 ELSE 0)

-----------------------------------------------------------------------------
Init ==
  /\ stage = "poll" /\ current = Entry /\ todo = <<>>
  /\ cycles = 0 /\ pending = 0 /\ deadline = 0 /\ io = 0
  /\ owed = 0 /\ given = Table(Entry)

\* CpuUpdateSyncDeadline.
UpdateSyncDeadline == deadline' \in Deadlines

\* Faulty: the cycles of the running instruction are forgotten.
BatchPending == pending

\* What CpuSyncDevices runs the devices for.
Batch == pending + io

\* CpuSyncDevices, then more cycles that the devices are run for, if any.
SyncDevices(n, stolen) ==
  /\ cycles' = (cycles + n + stolen) % 2
  /\ given' = given + n + stolen
  /\ pending' = 0 /\ io' = 0
  /\ UpdateSyncDeadline

\* Faulty: what the instruction counted itself is kept.
CpuTickKeepsCount(n) ==
  \/ n = 0 /\ UNCHANGED <<sync, given>>
  \/ /\ n > 0 /\ pending + n < deadline
     /\ pending' = pending + n
     /\ UNCHANGED <<cycles, deadline, io, given>>
  \/ n > 0 /\ pending + n >= deadline /\ SyncDevices(pending + n, 0)

\* CpuTick.
CpuTick(n) ==
  \/ n = 0 /\ UNCHANGED <<sync, given>>
  \/ /\ n > 0 /\ pending + n < deadline
     /\ pending' = pending + n /\ io' = 0
     /\ UNCHANGED <<cycles, deadline, given>>
  \/ n > 0 /\ pending + n >= deadline /\ SyncDevices(pending + n, 0)

\* CpuMainLoop begins an instruction, or one of the two interrupts.
BeginInsn ==
  /\ stage = "poll"
  /\ stage' = "run"
  /\ current' \in IorwInsns \cup FixedInsns \cup {Entry}
  /\ todo' = Handler(current')
  /\ owed' = pending /\ given' = 0
  /\ UNCHANGED sync

Cycle(op) ==
  /\ stage = "run" /\ todo # <<>> /\ Head(todo) = op
  /\ todo' = Tail(todo)
  /\ UNCHANGED <<stage, current>>

\* The cycles of CpuMemRead16: at a bank boundary it reads two bytes, which count again.
ReadCost(op) ==
  CASE op = "fetch16" -> IF current.mode \in {"a", "ai"} /\ current.straddles THEN 4 ELSE 2
    [] op = "pointer" -> 2
    [] OTHER -> 1

\* Fetches, pointers in the zero page and CpuDummyCycle: no device is reached.
Count ==
  \E op \in {"fetch8", "fetch16", "pointer", "dummy"} :
    /\ Cycle(op)
    /\ io' = io + ReadCost(op)
    /\ UNCHANGED <<cycles, pending, deadline, owed, given>>

\* CpuSlowResolveAddr synchronises for these.
Synced(region, write) ==
  region \in {"ppu", "sound", "dma", "channels"} \/ (write /\ region \in {"pad2", "rom"})

CpuMemRead8 ==
  /\ Cycle("read")
  /\ IF Synced(current.region, FALSE)
       THEN SyncDevices(Batch + 1, 0)
       ELSE io' = io + 1 /\ UNCHANGED <<cycles, pending, deadline, given>>
  /\ UNCHANGED owed

\* CpuMemWrite8 but to the DMA register; RAM is written without a look at the deadline.
CpuMemWrite8 ==
  /\ Cycle("write") /\ current.region # "dma"
  /\ \/ Synced(current.region, TRUE) /\ SyncDevices(Batch + 1, 0)
     \/ /\ ~Synced(current.region, TRUE)
        /\ io' = io + 1
        /\ IF current.region = "ram" THEN UNCHANGED deadline ELSE UpdateSyncDeadline
        /\ UNCHANGED <<cycles, pending, given>>
  /\ UNCHANGED owed

\* CpuMemWrite8 with PpuDMAWrite, whose cycles come on top of the instruction's.
DmaWrite ==
  LET odd == (cycles + Batch + 1) % 2        \* CpuCyclesOdd
      stolen == DmaCycles + 1 + odd
  IN /\ Cycle("write") /\ current.region = "dma"
     /\ SyncDevices(Batch + 1, stolen)
     /\ owed' = owed + stolen

\* CpuOpcodeExecute returns: the count of an IORW instruction, the table's cycles
\* of any other; CpuTick forgets what those counted.
End ==
  /\ stage = "run" /\ todo = <<>>
  /\ stage' = "poll"
  /\ CpuTick(IF current.mode \in {"fixed", "entry"} THEN Table(current) ELSE io)
  /\ UNCHANGED <<current, todo, owed>>

Next == BeginInsn \/ Count \/ CpuMemRead8 \/ CpuMemWrite8 \/ DmaWrite \/ End

Spec == Init /\ [][Next]_accessVars

-----------------------------------------------------------------------------
\* The two cycles that the slow path of CpuMemRead16 counts twice.
Slip == IF current.mode \in {"a", "ai"} /\ current.straddles THEN 2 ELSE 0

\* However its cycles are split between the instruction's count, the cycles that
\* wait for the deadline and those a device access hands over in its middle, an
\* instruction costs the devices what CPU_OPCODE_LIST says (and Slip), and leaves
\* nothing in the count (the assertion of CpuMainLoop, cpu.c 417).
CyclesAreDocumented ==
  stage = "poll" => io = 0 /\ given + pending = owed + Table(current) + Slip

\* A device sees a read or a write in the cycle the processor makes it: the last
\* of the instruction, for the read of read-modify-write the third from the end
\* (CpuMemRead8, CpuMemWrite8, CpuSlowResolveAddr, CpuSyncDevices, cpu.c 249).
DeviceSeesItsCycle ==
  [][\A op \in {"read", "write"} :
       Cycle(op) /\ Synced(current.region, op = "write") =>
         given' = owed' + Table(current) + Slip
                    - (IF op = "read" /\ current.kind = "rmw" THEN 2 ELSE 0)]_accessVars
=============================================================================
