----------------------------- MODULE Controller -----------------------------
(***************************************************************************)
(* controller/controller.c on top of the terminal input: the falling edge  *)
(* of the strobe reads both pads into their shift registers, a read of     *)
(* $4016 or $4017 shifts one bit out.  InputRead is two steps, a poll and  *)
(* a read, so that the timer signal may come between them.                 *)
(***************************************************************************)
EXTENDS VtInput

CONSTANTS Opposite,   \* the pairs of opposite directions
          Unknown     \* no claim about what was held

ASSUME ControllerConstants == Opposite \subseteq SUBSET Buttons

VARIABLES
  strobe,   \* ctl->signal.strobe
  shift,    \* ctl->shift1, ctl->shift2: [val, cnt]
  step,     \* where the CPU is: "cpu", "poll" or "read"
  ask,      \* the ports that InputRead is still to be called for
  latching, \* it is called by ControllerRegWrite
  nth,      \* history: buttons read from the port since it was latched
  truth     \* history: the buttons held when the port was latched, until the next strobe

padVars == <<strobe, shift, step, ask, latching, nth, truth>>
vars == <<inputVars, padVars>>

NumButtons == Len(Order)

ControllerInit ==
  /\ InputInit
  /\ strobe = FALSE
  /\ shift = [p \in Ports |-> [val |-> {}, cnt |-> 0]]
  /\ step = "cpu" /\ ask = <<>> /\ latching = FALSE
  /\ nth = [p \in Ports |-> 0]
  /\ truth = [p \in Ports |-> {}]

\* ClearDpadConflicts: opposites cancel each other out.
ClearDpadConflicts(pressed) ==
  {b \in pressed : \A pair \in Opposite : b \in pair => ~(pair \subseteq pressed)}

HeldOn(p) == {b \in Buttons : [port |-> p, button |-> b] \in held}

\* A write to $4016.
ControllerRegWrite(s) ==
  /\ alive /\ step = "cpu"
  /\ IF strobe /\ ~s
       THEN step' = "poll" /\ ask' = <<1, 2>> /\ latching' = TRUE /\ UNCHANGED strobe
       ELSE strobe' = s /\ UNCHANGED <<step, ask, latching>>
  /\ truth' = IF s THEN [p \in Ports |-> Unknown] ELSE truth
  /\ UNCHANGED <<inputVars, shift, nth>>

\* A read of the port under strobe asks for the buttons at once.
ReadLive(p) ==
  /\ alive /\ step = "cpu" /\ strobe
  /\ step' = "poll" /\ ask' = <<p>> /\ latching' = FALSE
  /\ UNCHANGED <<inputVars, strobe, shift, nth, truth>>

\* The bit that a read without strobe returns: the next one, and 1 after the last.
Bit(p) ==
  IF shift[p].cnt = NumButtons THEN TRUE ELSE Order[shift[p].cnt + 1] \in shift[p].val

\* Faulty: both ports are read through the first shift register.
ReadShiftFirst(p) ==
  /\ alive /\ step = "cpu" /\ ~strobe
  /\ shift' = [shift EXCEPT ![1].cnt = IF @ < NumButtons THEN @ + 1 ELSE @]
  /\ nth' = [nth EXCEPT ![p] = IF @ < NumButtons THEN @ + 1 ELSE @]
  /\ UNCHANGED <<inputVars, strobe, step, ask, latching, truth>>

ReadShift(p) ==
  /\ alive /\ step = "cpu" /\ ~strobe
  /\ shift' = [shift EXCEPT ![p].cnt = IF @ < NumButtons THEN @ + 1 ELSE @]
  /\ nth' = [nth EXCEPT ![p] = IF @ < NumButtons THEN @ + 1 ELSE @]
  /\ UNCHANGED <<inputVars, strobe, step, ask, latching, truth>>

\* InputRead returns: the pad is latched, or its first button read.  The strobe
\* goes down when both pads have been latched.
Answer ==
  LET p == Head(ask)
      known == kitty /\ ~lost' /\ queue' = <<>>
  IN  /\ ask' = Tail(ask)
      /\ step' = IF Tail(ask) = <<>> THEN "cpu" ELSE "poll"
      /\ latching' = (latching /\ Tail(ask) # <<>>)
      /\ IF latching
           THEN /\ shift' = [shift EXCEPT ![p] = [val |-> ClearDpadConflicts(state'[p]), cnt |-> 0]]
                /\ strobe' = (Tail(ask) # <<>>)
                /\ nth' = [nth EXCEPT ![p] = 0]
                /\ truth' = [truth EXCEPT ![p] = IF known THEN HeldOn(p) ELSE Unknown]
           ELSE UNCHANGED <<shift, strobe, nth, truth>>

\* The poll of InputRead finds nothing.
PollEmpty ==
  /\ alive /\ step = "poll" /\ kitty /\ queue = <<>>
  /\ UNCHANGED inputVars
  /\ Answer

PollReady ==
  /\ alive /\ step = "poll" /\ kitty /\ queue # <<>>
  /\ step' = "read"
  /\ UNCHANGED <<inputVars, strobe, shift, ask, latching, nth, truth>>

\* The read after the poll; it blocks if the timer handler has emptied the queue.
ReadKeys ==
  /\ alive /\ step = "read" /\ queue # <<>>
  /\ ScanKitty
  /\ Answer

\* No signal is handled in legacy mode, so that its InputRead is one step.
ReadKeysLegacy ==
  /\ alive /\ step = "poll" /\ ~kitty
  /\ ReadLegacy(Head(ask))
  /\ Answer

\* What the CPU and the terminal do; the timer signal comes with the rest of the program.
PadStep ==
  \/ \E s \in BOOLEAN : ControllerRegWrite(s)
  \/ \E p \in Ports : ReadLive(p) \/ ReadShift(p)
  \/ PollEmpty
  \/ PollReady
  \/ ReadKeys
  \/ ReadKeysLegacy
  \/ Terminal /\ UNCHANGED padVars

-----------------------------------------------------------------------------
\* What a program reads are the buttons that were held when it let the strobe go:
\* in the order of the bits, opposites cancelled, and ones after the last; the state
\* that it asks for under strobe follows the keys, in legacy mode those typed of late.
\* Of two keys of a button the one that moved last counts.
\* The exceptions are a key that the timer handler swallowed, that a read cut, or whose
\* sequence ScanKitty read together with that of an unbound key before it
\* (controller.c 58-107, input/vt_backend.c 46-208).
ReportIsHeld ==
  /\ ~kitty => \A p \in Ports : state[p] = {b \in Buttons : ttl[p][b] > 0}
  /\ kitty /\ ~lost /\ queue = <<>> => \A p \in Ports : state[p] = HeldOn(p)
  /\ step = "cpu" /\ ~strobe =>
       \A p \in Ports : truth[p] # Unknown =>
         Bit(p) = (nth[p] = NumButtons \/ Order[nth[p] + 1] \in ClearDpadConflicts(truth[p]))
=============================================================================
