------------------------------- MODULE CpuCore -------------------------------
(***************************************************************************)
(* The instructions of cpu/emulate.c and the interrupts between them: the  *)
(* registers, the flags and the stack page.  An action is one turn of the  *)
(* handlers that CpuMainLoop calls.  The effective address and the cycles  *)
(* of an instruction are left out: an operand is immediate or the byte     *)
(* that stands for data memory, the last one of the zero page, which is    *)
(* the neighbour of the stack page.                                        *)
(*                                                                         *)
(* A ROM gives every address the instructions that may be there (banks are *)
(* switched, code is copied to RAM), and says which interrupts come.  A    *)
(* cell of the stack holds a byte or the flags; a program pulls as flags   *)
(* what was pushed as flags.                                               *)
(***************************************************************************)
EXTENDS CpuAlu, FiniteSets

CONSTANTS
  Roms,       \* records [code, reset, nmi, irq, nested]: code by address, the
              \* reset vector, the other vectors as sets that are empty when no
              \* such interrupt comes; bound: nested, the interrupts open at a time
  MaxBytes    \* bound: the bytes of the longest number a program works on

Addr == 0..(Size * Size - 1)
Insns == [op : STRING, on : {"imm", "mem", "acc", "none"}, arg : Int, len : 1..3]

\* What bytes of code can say: an operand is a byte, a target an address.
Assembled(insn) ==
  /\ insn \in Insns
  /\ insn.on = "imm" => insn.arg \in Byte
  /\ insn.op \in {"jmp", "jsr"} => insn.arg \in Addr

ASSUME CoreConstants ==
  /\ MaxBytes \in Nat \ {0} /\ Half \in {2, 4, 8, 16, 32, 64, 128}
  /\ \A r \in Roms : /\ r.reset \in Addr /\ r.nmi \subseteq Addr /\ r.irq \subseteq Addr
                     /\ DOMAIN r.code = Addr /\ r.nested \in Nat
                     /\ \A a \in Addr : \A insn \in r.code[a] : Assembled(insn)

VARIABLES
  rom,
  reg,          \* cpu->reg: pc, a, x, y, s and the flags p
  ram,          \* the stack page, and at -1 the byte before it
  irqDisabled,  \* cpu->irqDisabled
  at,           \* "poll" before the interrupts are looked at, "fetch" after one
  running,      \* FALSE once CpuMainLoop has returned
  calls,        \* history: the frames of calls and interrupts not returned from
  chain         \* history: the numbers of several bytes being worked on

machine == <<reg, ram, irqDisabled, at, running>>
history == <<calls, chain>>
vars == <<rom, machine, history>>

DataByte == -1
Cells == DataByte..(Size - 1)

CpuRegistersReset ==
  [pc |-> rom.reset, a |-> 0, x |-> 0, y |-> 0, s |-> Size - 3,
   p |-> [c |-> FALSE, z |-> FALSE, i |-> TRUE, d |-> FALSE,
          b |-> FALSE, u |-> TRUE, v |-> FALSE, n |-> FALSE]]

CpuInit ==
  /\ rom \in Roms
  /\ reg = CpuRegistersReset
  /\ ram = [c \in Cells |-> [byte |-> 0]]
  /\ irqDisabled = TRUE /\ at = "poll" /\ running = TRUE
  /\ calls = {} /\ chain = NoChain

-----------------------------------------------------------------------------
(* The stack: a pair of S and the cells. *)

IsByte(c) == "byte" \in DOMAIN ram[c]
IsFlags(c) == "flags" \in DOMAIN ram[c]

push8(st, cell) == [s |-> (st.s - 1) % Size, ram |-> [st.ram EXCEPT ![st.s] = cell]]

\* One 16-bit store, low byte first, below the cell S points at: no wrap within the page.
push16HighFirst(st, val) ==
  [s |-> (st.s - 2) % Size,
   ram |-> [st.ram EXCEPT ![st.s - 1] = [byte |-> val \div Size], ![st.s] = [byte |-> val % Size]]]
push16(st, val) ==
  [s |-> (st.s - 2) % Size,
   ram |-> [st.ram EXCEPT ![st.s - 1] = [byte |-> val % Size], ![st.s] = [byte |-> val \div Size]]]

Stack == [s |-> reg.s, ram |-> ram]
Up(n) == (reg.s + n) % Size
pop8 == ram[Up(1)]
Word(high) == Size * ram[high].byte + ram[high - 1].byte
IsWord(high) == IsByte(high) /\ IsByte(high - 1)

\* The frames whose cells S is still below: data pulled or skipped by TXS past
\* a return address, or a stack that wrapped, gives the frame up.
Held(f) == IF f.kind = "jsr" THEN 2 ELSE 3
Alive(frames, s) == {f \in frames : s <= f.s - Held(f)}
NewFrame(kind, resume) ==
  [kind |-> kind, resume |-> resume, s |-> reg.s, p |-> reg.p, chain |-> chain]

-----------------------------------------------------------------------------
(* CpuExecuteNMI and CpuExecuteIRQ of CpuMainLoop. *)

Open == Cardinality({f \in calls : f.kind = "interrupt"})

Interrupt(vector) ==
  LET word == push16(Stack, reg.pc)
      st == push8(word, [flags |-> reg.p])
  IN /\ Open < rom.nested
     /\ ram' = st.ram
     /\ reg' = [reg EXCEPT !.s = st.s, !.pc = vector, !.p.i = TRUE]
     /\ calls' = Alive(Alive(calls, word.s) \cup {NewFrame("interrupt", reg.pc)}, st.s)
     /\ at' = "fetch"
     /\ UNCHANGED <<rom, running, chain>>

CpuExecuteNMI ==
  /\ running /\ at = "poll"
  /\ \E vector \in rom.nmi : Interrupt(vector)
  /\ irqDisabled' = TRUE

CpuExecuteIRQ ==
  /\ running /\ at = "poll" /\ ~irqDisabled
  /\ \E vector \in rom.irq : Interrupt(vector)
  /\ UNCHANGED irqDisabled

-----------------------------------------------------------------------------
(* What an instruction leaves: the registers, the cells and the chain; all   *)
(* but RTI leave irqDisabled as CpuMainLoop set it before the fetch.         *)

Leaves(r, cells, ch) ==
  /\ reg' = r /\ ram' = cells /\ chain' = ch
  /\ calls' = Alive(calls, r.s)
  /\ irqDisabled' = reg.p.i
  /\ UNCHANGED running

After(insn) == (reg.pc + insn.len) % (Size * Size)
Next_(insn) == [reg EXCEPT !.pc = After(insn)]
Operand(insn) == CASE insn.on = "imm" -> insn.arg
                   [] insn.on = "acc" -> reg.a
                   [] OTHER -> ram[DataByte].byte
Stored(val) == [ram EXCEPT ![DataByte] = [byte |-> val]]

\* A chain goes on only in its own direction and up to MaxBytes bytes.
GoesOn(kind) == chain.kind = kind /\ chain.weight < Size^MaxBytes
Grown(kind, a, val, res, signed) ==
  IF GoesOn(kind) THEN Extend(chain, a, val, res, signed) ELSE NoChain
GrownDown(a, res) == IF GoesOn("shr") THEN ExtendDown(chain, a, res) ELSE NoChain

\* The operators of C on bytes of at most eight bits.
Bitwise(op(_, _), m, n) ==
  LET bit(weight) == weight * op((m \div weight) % 2, (n \div weight) % 2)
  IN  bit(1) + bit(2) + bit(4) + bit(8) + bit(16) + bit(32) + bit(64) + bit(128)
And(m, n) == Bitwise(LAMBDA i, j : i * j, m, n)
Or(m, n) == Bitwise(LAMBDA i, j : i + j - i * j, m, n)
Xor(m, n) == Bitwise(LAMBDA i, j : (i + j) % 2, m, n)

Logic(insn) ==
  LET v == Operand(insn)
      val == CASE insn.op = "ora" -> Or(reg.a, v)
               [] insn.op = "and" -> And(reg.a, v)
               [] OTHER -> Xor(reg.a, v)
  IN /\ insn.op \in {"ora", "and", "eor"}
     /\ Leaves([Next_(insn) EXCEPT !.a = val, !.p = UpdateNZ(reg.p, val)], ram, chain)

bit_base(insn) ==
  LET v == Operand(insn)
      p == [reg.p EXCEPT !.v = (v \div (Half \div 2)) % 2 = 1,
                         !.n = Neg(v), !.z = And(reg.a, v) = 0]
  IN /\ insn.op = "bit"
     /\ Leaves([Next_(insn) EXCEPT !.p = p], ram, NoChain)

AdcSbc(insn) ==
  LET v == Operand(insn)
      res == IF insn.op = "adc" THEN adc_base(reg.a, v, reg.p) ELSE sbc_base(reg.a, v, reg.p)
      kind == IF insn.op = "adc" THEN "add" ELSE "sub"
  IN /\ insn.op \in {"adc", "sbc"}
     /\ Leaves([Next_(insn) EXCEPT !.a = res.val, !.p = res.p], ram,
               Grown(kind, reg.a, v, res.val, TRUE))

Compare(insn) ==
  LET n == CASE insn.op = "cmp" -> reg.a [] insn.op = "cpx" -> reg.x [] OTHER -> reg.y
      res == cpn_base(Operand(insn), n, reg.p)
  IN /\ insn.op \in {"cmp", "cpx", "cpy"}
     /\ Leaves([Next_(insn) EXCEPT !.p = res.p], ram,
               Extend(Begin("sub"), n, Operand(insn), res.val, FALSE))

\* ASL, LSR, ROL, ROR on the accumulator or on memory, and the chain they leave.
ShiftResult(op, v) == CASE op = "asl" -> asl_base(v, reg.p) [] op = "lsr" -> lsr_base(v, reg.p)
                        [] op = "rol" -> rol_base(v, reg.p) [] OTHER -> ror_base(v, reg.p)
ShiftChain(op, v, res) ==
  CASE op = "asl" -> Extend(Begin("shl"), v, 0, res, FALSE)
    [] op = "rol" -> Grown("shl", v, 0, res, FALSE)
    [] op = "lsr" -> ExtendDown(Begin("shr"), v, res)
    [] OTHER -> GrownDown(v, res)

Shift(insn) ==
  LET v == Operand(insn)
      res == ShiftResult(insn.op, v)
      ch == ShiftChain(insn.op, v, res.val)
  IN /\ insn.op \in {"asl", "lsr", "rol", "ror"}
     /\ IF insn.on = "acc"
          THEN Leaves([Next_(insn) EXCEPT !.a = res.val, !.p = res.p], ram, ch)
          ELSE Leaves([Next_(insn) EXCEPT !.p = res.p], Stored(res.val), ch)

\* SLO, RLA, SRE: a shift of memory whose result goes into the accumulator.
ShiftAndLogic(insn) ==
  LET op == CASE insn.op = "slo" -> "asl" [] insn.op = "rla" -> "rol" [] OTHER -> "lsr"
      v == Operand(insn)
      res == ShiftResult(op, v)
      val == CASE insn.op = "slo" -> Or(reg.a, res.val)
               [] insn.op = "rla" -> And(reg.a, res.val)
               [] OTHER -> Xor(reg.a, res.val)
  IN /\ insn.op \in {"slo", "rla", "sre"}
     /\ Leaves([Next_(insn) EXCEPT !.a = val, !.p = UpdateNZ(res.p, val)], Stored(res.val),
               ShiftChain(op, v, res.val))

\* RRA: the bit ROR shifts out is the carry of the ADC.
rra_base(insn) ==
  LET shifted == ror_base(Operand(insn), reg.p)
      res == adc_base(reg.a, shifted.val, shifted.p)
  IN /\ insn.op = "rra"
     /\ Leaves([Next_(insn) EXCEPT !.a = res.val, !.p = res.p], Stored(shifted.val), NoChain)

IncDec(insn) ==
  LET res == IF insn.op = "inc" THEN inc_base(Operand(insn), reg.p) ELSE dec_base(Operand(insn), reg.p)
  IN /\ insn.op \in {"inc", "dec"}
     /\ Leaves([Next_(insn) EXCEPT !.p = res.p], Stored(res.val), chain)

\* DCP and ISB: DEC or INC of memory, then CMP or SBC with the new byte.
dcp_base(insn) ==
  LET val == (Operand(insn) - 1) % Size
      res == cpn_base(val, reg.a, reg.p)
  IN /\ insn.op = "dcp"
     /\ Leaves([Next_(insn) EXCEPT !.p = res.p], Stored(val),
               Extend(Begin("sub"), reg.a, val, res.val, FALSE))

isb(insn) ==
  LET val == (Operand(insn) + 1) % Size
      res == sbc_base(reg.a, val, reg.p)
  IN /\ insn.op = "isb"
     /\ Leaves([Next_(insn) EXCEPT !.a = res.val, !.p = res.p], Stored(val),
               Grown("sub", reg.a, val, res.val, TRUE))

-----------------------------------------------------------------------------
(* Moves between registers and memory. *)

Load(insn) ==
  LET res == ld_base(Operand(insn), reg.p)
      r == [Next_(insn) EXCEPT !.p = res.p]
  IN /\ insn.op \in {"lda", "ldx", "ldy", "lax"}
     /\ Leaves(CASE insn.op = "lda" -> [r EXCEPT !.a = res.val]
                 [] insn.op = "ldx" -> [r EXCEPT !.x = res.val]
                 [] insn.op = "ldy" -> [r EXCEPT !.y = res.val]
                 [] OTHER -> [r EXCEPT !.a = res.val, !.x = res.val], ram, chain)

Store(insn) ==
  /\ insn.op \in {"sta", "stx", "sty", "sax"}
  /\ Leaves(Next_(insn),
            Stored(CASE insn.op = "sta" -> reg.a [] insn.op = "stx" -> reg.x
                     [] insn.op = "sty" -> reg.y [] OTHER -> And(reg.a, reg.x)), chain)

\* TAX, TAY, TXA, TYA, TSX, INX, INY, DEX, DEY: the flags follow the byte.
Transfer(insn) ==
  LET val == CASE insn.op \in {"tax", "tay"} -> reg.a
               [] insn.op = "txa" -> reg.x
               [] insn.op = "tya" -> reg.y
               [] insn.op = "tsx" -> reg.s
               [] insn.op = "inx" -> (reg.x + 1) % Size
               [] insn.op = "iny" -> (reg.y + 1) % Size
               [] insn.op = "dex" -> (reg.x - 1) % Size
               [] OTHER -> (reg.y - 1) % Size
      r == [Next_(insn) EXCEPT !.p = ld_base(val, reg.p).p]
  IN /\ insn.op \in {"tax", "tay", "txa", "tya", "tsx", "inx", "iny", "dex", "dey"}
     /\ Leaves(CASE insn.op \in {"txa", "tya"} -> [r EXCEPT !.a = val]
                 [] insn.op \in {"tay", "iny", "dey"} -> [r EXCEPT !.y = val]
                 [] OTHER -> [r EXCEPT !.x = val], ram, chain)

txs(insn) ==
  /\ insn.op = "txs"
  /\ Leaves([Next_(insn) EXCEPT !.s = reg.x], ram, chain)

SetFlag(insn) ==
  LET p == CASE insn.op = "clc" -> [reg.p EXCEPT !.c = FALSE]
             [] insn.op = "sec" -> [reg.p EXCEPT !.c = TRUE]
             [] insn.op = "cli" -> [reg.p EXCEPT !.i = FALSE]
             [] insn.op = "sei" -> [reg.p EXCEPT !.i = TRUE]
             [] insn.op = "clv" -> [reg.p EXCEPT !.v = FALSE]
             [] insn.op = "cld" -> [reg.p EXCEPT !.d = FALSE]
             [] OTHER -> [reg.p EXCEPT !.d = TRUE]
      ch == CASE insn.op = "clc" -> Begin("add") [] insn.op = "sec" -> Begin("sub")
              [] insn.op = "clv" -> NoChain [] OTHER -> chain
  IN /\ insn.op \in {"clc", "sec", "cli", "sei", "clv", "cld", "sed"}
     /\ Leaves([Next_(insn) EXCEPT !.p = p], ram, ch)

nop(insn) == insn.op = "nop" /\ Leaves(Next_(insn), ram, chain)

-----------------------------------------------------------------------------
(* Control and the stack. *)

Taken(op) == CASE op = "bpl" -> ~reg.p.n [] op = "bmi" -> reg.p.n
               [] op = "bvc" -> ~reg.p.v [] op = "bvs" -> reg.p.v
               [] op = "bcc" -> ~reg.p.c [] op = "bcs" -> reg.p.c
               [] op = "bne" -> ~reg.p.z [] OTHER -> reg.p.z

branch_base(insn) ==
  /\ insn.op \in {"bpl", "bmi", "bvc", "bvs", "bcc", "bcs", "bne", "beq"}
  /\ Leaves([reg EXCEPT !.pc = (After(insn) + (IF Taken(insn.op) THEN insn.arg ELSE 0))
                                 % (Size * Size)], ram, chain)

jmp(insn) == insn.op = "jmp" /\ Leaves([reg EXCEPT !.pc = insn.arg], ram, chain)

\* The address of the last byte of the instruction is what JSR pushes.
jsr(insn) ==
  LET st == push16(Stack, (After(insn) - 1) % (Size * Size))
  IN /\ insn.op = "jsr"
     /\ ram' = st.ram
     /\ reg' = [reg EXCEPT !.s = st.s, !.pc = insn.arg]
     /\ calls' = Alive(calls \cup {NewFrame("jsr", After(insn))}, st.s)
     /\ irqDisabled' = reg.p.i
     /\ UNCHANGED <<running, chain>>

rts(insn) ==
  /\ insn.op = "rts" /\ IsWord(Up(2))
  /\ Leaves([reg EXCEPT !.s = Up(2), !.pc = (Word(Up(2)) + 1) % (Size * Size)], ram, chain)

\* B is only in the byte that is pushed; U is always set in the register.
Pulled(p) == [p EXCEPT !.b = FALSE, !.u = TRUE]

pha(insn) ==
  LET st == push8(Stack, [byte |-> reg.a])
  IN insn.op = "pha" /\ Leaves([Next_(insn) EXCEPT !.s = st.s], st.ram, chain)

php(insn) ==
  LET st == push8(Stack, [flags |-> [reg.p EXCEPT !.b = TRUE]])
  IN insn.op = "php" /\ Leaves([Next_(insn) EXCEPT !.s = st.s], st.ram, chain)

pla(insn) ==
  /\ insn.op = "pla" /\ IsByte(Up(1))
  /\ Leaves([Next_(insn) EXCEPT !.s = Up(1), !.a = pop8.byte, !.p = UpdateNZ(reg.p, pop8.byte)],
            ram, chain)

plp(insn) ==
  /\ insn.op = "plp" /\ IsFlags(Up(1))
  /\ Leaves([Next_(insn) EXCEPT !.s = Up(1), !.p = Pulled(pop8.flags)], ram, NoChain)

\* The frame that S points right below; no other can be there.
Ending(kind) == {f \in calls : f.kind = kind /\ reg.s = f.s - Held(f)}

rti(insn) ==
  /\ insn.op = "rti" /\ IsFlags(Up(1)) /\ IsWord(Up(3))
  /\ reg' = [reg EXCEPT !.s = Up(3), !.pc = Word(Up(3)), !.p = Pulled(pop8.flags)]
  /\ calls' = Alive(calls, Up(3))
  /\ \/ \E f \in Ending("interrupt") : chain' = f.chain   \* the one the interrupt cut
     \/ Ending("interrupt") = {} /\ chain' = NoChain
  /\ irqDisabled' = reg'.p.i
  /\ UNCHANGED <<ram, running>>

\* opCycles < 0: CpuMainLoop returns.
invalidOpcode(insn) ==
  /\ insn.op = "invalid"
  /\ running' = FALSE
  /\ irqDisabled' = reg.p.i
  /\ reg' = Next_(insn)
  /\ UNCHANGED <<ram, history>>

LogicInsns(insn) == Logic(insn) \/ bit_base(insn) \/ Shift(insn) \/ ShiftAndLogic(insn)
CountInsns(insn) == AdcSbc(insn) \/ rra_base(insn) \/ Compare(insn)
                      \/ IncDec(insn) \/ dcp_base(insn) \/ isb(insn)
MoveInsns(insn) == Load(insn) \/ Store(insn) \/ Transfer(insn) \/ txs(insn)
ControlInsns(insn) == branch_base(insn) \/ jmp(insn) \/ jsr(insn) \/ rts(insn) \/ rti(insn)
StackInsns(insn) == pha(insn) \/ php(insn) \/ pla(insn) \/ plp(insn)

CpuOpcodeExecute(insn) ==
  \/ LogicInsns(insn) \/ CountInsns(insn) \/ MoveInsns(insn)
  \/ ControlInsns(insn) \/ StackInsns(insn) \/ SetFlag(insn) \/ nop(insn)
  \/ invalidOpcode(insn)

Execute ==
  /\ running
  /\ \E insn \in rom.code[reg.pc] : CpuOpcodeExecute(insn)
  /\ at' = "poll"
  /\ UNCHANGED rom

CoreNext == CpuExecuteNMI \/ CpuExecuteIRQ \/ Execute

CoreSpec == CpuInit /\ [][CoreNext]_vars

-----------------------------------------------------------------------------

\* A program that adds, subtracts, compares or shifts numbers of several bytes
\* gets the exact result in the bytes and the carry, and after ADC and SBC the
\* overflow flag says whether the signed result fits, wherever it stops and
\* whatever interrupts came between two bytes (adc_base, sbc_base, cpn_base,
\* asl_base, rol_base, lsr_base, ror_base, push8, CpuExecuteNMI, rti).
WideIsExact == WideExact(chain, reg.p) /\ SignedExact(chain, reg.p)

\* RTS and RTI that find the stack where their call or interrupt left it go
\* on right behind the JSR, or at the instruction the interrupt came before
\* with the flags it had there, and give back all the stack (jsr, rts, rti,
\* push16, pop16, CpuExecuteNMI, CpuExecuteIRQ).
Resumes(f) ==
  /\ reg'.pc = f.resume /\ reg'.s = f.s
  /\ f.kind = "interrupt" => reg'.p = f.p
ReturnsExactly ==
  [][\A insn \in rom.code[reg.pc] :
       /\ rts(insn) => \A f \in Ending("jsr") : Resumes(f)
       /\ rti(insn) => \A f \in Ending("interrupt") : Resumes(f)]_vars
==============================================================================
