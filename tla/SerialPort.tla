----------------------------- MODULE SerialPort ------------------------------
(***************************************************************************)
(* What an MMC1 cartridge promises a program: bits written one at a time,  *)
(* lowest first, are collected; the fifth is written to the register that  *)
(* its address selects, and collecting starts anew.  A write with bit 7    *)
(* set drops what was collected and selects the PRG mode that fixes the    *)
(* last bank.                                                              *)
(***************************************************************************)
EXTENDS Integers, Sequences

VARIABLES
  bits,   \* the bits collected so far
  regs    \* the four registers: control, CHR bank 0, CHR bank 1, PRG bank

portVars == <<bits, regs>>

Value(s) == s[1] + 2 * s[2] + 4 * s[3] + 8 * s[4] + 16 * s[5]

\* A five-bit control value with PRG mode 3 in bits 2 and 3.
FixLast(control) == 16 * (control \div 16) + 12 + (control % 4)

PortInit ==
  /\ bits = <<>>
  /\ \E mirroring \in {2, 3} : regs = [r \in 0..3 |-> IF r = 0 THEN FixLast(mirroring) ELSE 0]

Shift(d) ==
  /\ Len(bits) < 4
  /\ bits' = Append(bits, d)
  /\ UNCHANGED regs

Load(d, r) ==
  /\ Len(bits) = 4
  /\ regs' = [regs EXCEPT ![r] = Value(Append(bits, d))]
  /\ bits' = <<>>

Reset ==
  /\ bits' = <<>>
  /\ regs' = [regs EXCEPT ![0] = FixLast(@)]

PortNext ==
  \/ \E d \in {0, 1} : Shift(d) \/ \E r \in 0..3 : Load(d, r)
  \/ Reset

PortSpec == PortInit /\ [][PortNext]_portVars
=============================================================================
