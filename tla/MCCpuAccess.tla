----------------------------- MODULE MCCpuAccess -----------------------------
(* The instructions and their cycles are the real ones.  An instruction takes  *)
(* 2 to 8 cycles, so the deadlines 0, 3, 7 and 12 fall before one, into one    *)
(* and behind one or several; 12 leaves up to 11 cycles waiting.               *)
EXTENDS CpuAccess

MCDeadlines == {0, 3, 7, 12}

Cost(table, counted) == [cycles |-> table, io |-> counted]
\* Every pair there is: NOP, an immediate, zero page and stack instructions,
\* JSR and RTS, JMP (), a branch not taken, taken, and taken to another page.
MCFixed == {Cost(2, 1), Cost(2, 2), Cost(3, 1), Cost(3, 2), Cost(3, 3), Cost(4, 1), Cost(4, 2),
            Cost(4, 3), Cost(5, 3), Cost(5, 4), Cost(5, 5), Cost(6, 3), Cost(6, 4), Cost(6, 5)}
=============================================================================
