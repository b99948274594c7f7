------------------------------ MODULE MCCpuCore ------------------------------
(* Bytes of three bits, a page of eight addresses. *)
EXTENDS CpuCore, TLC

Plain(op) == [op |-> op, on |-> "none", arg |-> 0, len |-> 1]
Acc(op) == [op |-> op, on |-> "acc", arg |-> 0, len |-> 1]
Mem(op) == [op |-> op, on |-> "mem", arg |-> 0, len |-> 2]
Imm(op, val) == [op |-> op, on |-> "imm", arg |-> val, len |-> 2]
To(op, target) == [op |-> op, on |-> "none", arg |-> target, len |-> 3]
By(op, offset) == [op |-> op, on |-> "none", arg |-> offset, len |-> 2]

Rom(code, nmi, irq, nested) ==
  [code |-> [a \in Addr |-> IF a \in DOMAIN code THEN code[a] ELSE {Plain("invalid")}],
   reset |-> 0, nmi |-> nmi, irq |-> irq, nested |-> nested]

Loop(insns) == (0 :> insns) @@ (1 :> {To("jmp", 0)}) @@ (2 :> {To("jmp", 0)})

Edges == {0, 1, 3, 4, 7}   \* zero, one and both sides of both boundaries

\* Long arithmetic on the accumulator.
Arithmetic == Rom(Loop({Plain("clc"), Plain("sec"), Acc("asl"), Acc("rol"), Acc("lsr"), Acc("ror")}
  \cup {Imm(op, v) : op \in {"lda", "adc", "sbc", "cmp"}, v \in Edges}), {}, {}, 0)

\* The same cut by an NMI whose handler does some of its own.
Cut == Rom(Loop({Plain("clc"), Imm("lda", 5), Imm("adc", 3), Acc("ror")}) @@
  (8 :> {Plain("pha")}) @@ (9 :> {Imm("adc", 7)}) @@ (11 :> {Plain("pla")}) @@
  (12 :> {Plain("rti")}), {8}, {}, 1)

\* Instructions on memory, and on registers, that the others leave out.
OnMemory == Rom(Loop({Mem(op) : op \in {"slo", "rla", "sre", "rra", "dcp", "isb", "lda", "rol", "sta"}}
  \cup {Imm("lda", 4), Plain("sec")}), {}, {}, 0)
OnBits == Rom(Loop({Mem(op) : op \in {"bit", "ora", "and", "eor", "inc", "dec", "lax", "sax"}}
  \cup {Plain(op) : op \in {"tax", "inx", "clv", "nop"}}), {}, {}, 0)
OnX == Rom(Loop({Plain("dex"), Plain("tsx"), Imm("cpx", 3), Mem("stx"), Mem("ldx")}
  \cup {By(op, 1) : op \in {"bvc", "bvs", "bcc", "bcs"}}) @@ (3 :> {To("jmp", 0)}), {}, {}, 0)
OnY == Rom(Loop({Plain(op) : op \in {"tay", "tya", "iny", "dey", "cld", "sed"}}
  \cup {Imm("cpy", 5), Mem("sty"), Mem("ldy")}
  \cup {By(op, 1) : op \in {"bpl", "bmi", "bne", "beq"}}) @@ (3 :> {To("jmp", 0)}), {}, {}, 0)
OnS == Rom((0 :> {Imm("ldx", 7), Imm("ldx", 1)}) @@ (2 :> {Plain("txs")}) @@ (3 :> {Plain("pha")}) @@
  (4 :> {Plain("txa")}) @@ (5 :> {To("jmp", 0)}), {}, {}, 0)
OnFlags == Rom((0 :> {Imm("bit", 6), Imm("adc", 5)}) @@ (2 :> {Plain("php")}) @@
  (3 :> {Plain("sec"), Plain("cli"), Plain("sed"), Plain("clv")}) @@ (4 :> {Plain("plp")}) @@
  (5 :> {To("jmp", 0), Plain("sei")}) @@ (6 :> {To("jmp", 0)}) @@
  (40 :> {Plain("rti")}), {}, {40}, 1)

\* Calls in calls and in interrupt handlers, one of which lets the other in.
Calls == Rom(
  (0 :> {Plain("cli"), To("jsr", 16)}) @@ (1 :> {To("jmp", 0)}) @@ (3 :> {Plain("invalid"), To("jmp", 0)}) @@
  (16 :> {To("jsr", 24), Plain("rts")}) @@ (19 :> {Plain("rts")}) @@
  (24 :> {Plain("rts"), Plain("sec")}) @@ (25 :> {Plain("rts")}) @@
  (32 :> {To("jsr", 24)}) @@ (35 :> {Plain("rti")}) @@
  (40 :> {Plain("cli"), Plain("rti")}) @@ (41 :> {Plain("rti")}), {32}, {40}, 2)

\* A subroutine that drops its return address, and one that moves S, cut by
\* an NMI that saves A.
Dropped == Rom(
  (0 :> {To("jsr", 16), To("jsr", 24)}) @@ (3 :> {Plain("invalid")}) @@
  (16 :> {To("jsr", 20)}) @@ (19 :> {Plain("rts")}) @@
  (20 :> {Plain("pla"), Plain("rts")}) @@ (21 :> {Plain("pla")}) @@ (22 :> {Plain("rts")}) @@
  (24 :> {Plain("tsx")}) @@ (25 :> {Plain("inx"), Plain("dex")}) @@ (26 :> {Plain("txs")}) @@
  (27 :> {Plain("rts")}) @@
  (32 :> {Plain("pha")}) @@ (33 :> {Plain("pla")}) @@ (34 :> {Plain("rti")}), {32}, {}, 1)

MCRoms == {Arithmetic, Cut, OnMemory, OnBits, OnX, OnY, OnS, OnFlags, Calls, Dropped}
==============================================================================
