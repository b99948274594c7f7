------------------------------- MODULE VtInput -------------------------------
(***************************************************************************)
(* input/vt_backend.c: keys of a terminal as buttons of two pads.  The     *)
(* terminal queues key events; InputRead drains the queue into the state   *)
(* of the pads.  With the Kitty protocol the terminal reports presses and  *)
(* releases, and an interval timer, which every InputRead rearms, looks    *)
(* for Ctrl-C while the emulator does not read; without it a press lasts   *)
(* for KEY_TTL reads.                                                      *)
(*                                                                         *)
(* An event stands for its escape sequence.  A read takes the sequences    *)
(* that fit its buffer and may cut the one after them, which is then lost. *)
(* ScanKitty knows the end of a sequence by its letter, one of uABCD: that *)
(* of an unbound key that ends otherwise (Delete, Home, F1...) is read     *)
(* together with the sequence behind it.                                   *)
(***************************************************************************)
EXTENDS Integers, FiniteSets, SequencesExt

CONSTANTS
  Ports,      \* the ports, 1 and 2
  Order,      \* the buttons in the order of their bits
  Binding,    \* cfgKeys and cfgArrows: key -> [port, button]
  Stray,      \* legacy: the key as which the rest of a cut sequence is taken, or Quit
  Quit,       \* Ctrl-C; with Caps or Num Lock its sequence is another, and not looked for
  Unbound,    \* a key without a binding whose sequence ends in none of uABCD
  Merged,     \* the key as which a sequence is taken that is read together with such a one:
              \* an arrow itself, a sequence in u that of the first number (F3 and Enter: 13)
  KeyTtl,     \* KEY_TTL
  BufKeys,    \* how many sequences may fit the buffer of ScanKitty and ScanLegacy,
  AlarmKeys,  \* and that of TimerHandler: it depends on their lengths
  UnboundMoves, \* bound: presses (TRUE) and releases (FALSE) of the unbound key
  MaxQueue    \* bound: events the terminal queues

Keys == DOMAIN Binding
Buttons == ToSet(Order)

ASSUME InputConstants ==
  /\ Binding \in [Keys -> [port : Ports, button : Buttons]]
  /\ Quit \notin Keys /\ Stray \in [Keys -> Keys \cup {Quit}]
  /\ Unbound \notin Keys \cup {Quit} /\ Merged \in [Keys \cup {Quit} -> Keys \cup {Unbound}]
  /\ BufKeys \in SUBSET (Nat \ {0}) \ {{}} /\ AlarmKeys \in SUBSET (Nat \ {0}) \ {{}}
  /\ UnboundMoves \subseteq BOOLEAN /\ KeyTtl \in Nat \ {0} /\ MaxQueue \in Nat \ {0}

VARIABLES
  kitty,    \* input->kitty
  alive,    \* no SIGINT has been raised
  held,     \* history: the buttons of which a key went down, or was repeated, last,
            \* until an event is lost
  queue,    \* key events the terminal has queued
  state,    \* input->state: the buttons pressed, by port
  ttl,      \* input->ttl
  lost      \* history: an event was taken from the queue and not applied as it is

inputVars == <<kitty, alive, held, queue, state, ttl, lost>>

Events == [key : Keys \cup {Quit, Unbound}, down : BOOLEAN]

InputInit ==
  /\ kitty \in BOOLEAN
  /\ alive = TRUE
  /\ held = {} /\ queue = <<>>
  /\ state = [p \in Ports |-> {}]
  /\ ttl = [p \in Ports |-> [b \in Buttons |-> 0]]
  /\ lost = FALSE

-----------------------------------------------------------------------------
(* The terminal.  The Kitty protocol reports presses, repeats (which the     *)
(* emulator takes for presses) and releases, also that of a key that was     *)
(* down before.  A button may have two keys, and the last of their events    *)
(* counts: the events of a button come in any order.  In legacy mode a key   *)
(* that is down is typed again and again, and nothing tells that it went up. *)

Queued(e) ==
  /\ Len(queue) < MaxQueue
  /\ queue' = Append(queue, e)
  /\ UNCHANGED <<kitty, alive, state, ttl, lost>>

KeyDown(k) ==
  /\ kitty
  /\ held' = IF lost THEN {} ELSE held \cup {Binding[k]}
  /\ Queued([key |-> k, down |-> TRUE])

KeyUp(k) ==
  /\ kitty
  /\ held' = IF lost THEN {} ELSE held \ {Binding[k]}
  /\ Queued([key |-> k, down |-> FALSE])

KeyTyped(k) == ~kitty /\ Queued([key |-> k, down |-> TRUE]) /\ UNCHANGED held

CtrlC == kitty /\ Queued([key |-> Quit, down |-> TRUE]) /\ UNCHANGED held

UnboundKey(d) == kitty /\ Queued([key |-> Unbound, down |-> d]) /\ UNCHANGED held

Terminal ==
  /\ alive
  /\ \/ CtrlC
     \/ \E d \in UnboundMoves : UnboundKey(d)
     \/ \E k \in Keys : KeyDown(k) \/ KeyUp(k) \/ KeyTyped(k)

-----------------------------------------------------------------------------
Fit(n) == IF Len(queue) < n THEN Len(queue) ELSE n

\* The events that a read of a buffer of n sequences takes whole.
Whole(n) == SubSeq(queue, 1, Fit(n))

\* What it leaves, and whether it cuts a sequence.
Leaves(n, cut) ==
  /\ cut => Len(queue) > n
  /\ queue' = SubSeq(queue, Fit(n) + (IF cut THEN 2 ELSE 1), Len(queue))

HasQuit(events) == \E i \in DOMAIN events : events[i].key = Quit

\* ProcessSeq: a press or a release.
ProcessSeq(s, e) ==
  IF e.key \notin Keys THEN s
  ELSE LET b == Binding[e.key]
       IN  [s EXCEPT ![b.port] = IF e.down THEN @ \cup {b.button} ELSE @ \ {b.button}]

\* The sequences of unbound keys right before event i, which are read together with its own.
Before(events, i) == {j \in 1..(i - 1) : \A m \in j..(i - 1) : events[m].key = Unbound}

Joined(events) == {i \in DOMAIN events : events[i].key # Unbound /\ Before(events, i) # {}}

\* What ScanKitty makes of event i.  Read together, sequences of 16 bytes or more are
\* dropped (i is not among the short); the others are a release if one of them is.
TakenAs(events, i, short) ==
  IF i \notin Joined(events) THEN events[i]
  ELSE [key  |-> IF i \in short THEN Merged[events[i].key] ELSE Unbound,
        down |-> events[i].down /\ \A j \in Before(events, i) : events[j].down]

\* ScanKitty once its poll has found events.  The events before a Ctrl-C are applied.
ScanKitty ==
  \E n \in BufKeys, cut \in BOOLEAN :
    LET events == Whole(n)
    IN  \E short \in SUBSET Joined(events) :
          LET taken == [i \in DOMAIN events |-> TakenAs(events, i, short)]
          IN  /\ Leaves(n, cut)
              /\ state' = FoldLeft(ProcessSeq, state, taken)
              /\ alive' = ~HasQuit(taken)
              /\ lost' = (lost \/ cut \/ taken # events)
              /\ held' = IF lost' THEN {} ELSE held
              /\ UNCHANGED <<kitty, ttl>>

\* LegacyPress.
Pressed(s, k) ==
  LET b == Binding[k]
  IN  [st |-> [s.st EXCEPT ![b.port] = @ \cup {b.button}],
       tt |-> [s.tt EXCEPT ![b.port][b.button] = KeyTtl]]

\* TickTTL.
Ticked(p) ==
  [st |-> [state EXCEPT ![p] = {b \in @ : ttl[p][b] # 1}],
   tt |-> [ttl EXCEPT ![p] = [b \in Buttons |-> IF @[b] > 0 THEN @[b] - 1 ELSE 0]]]

\* The legacy read: TickTTL, then ScanLegacy.  The last letter of a cut arrow is taken
\* for a key of its own by the next read; here it is pressed at once.
ReadLegacy(p) ==
  LET press(s, e) == Pressed(s, e.key)
  IN  \E n \in BufKeys, cut \in BOOLEAN :
        /\ Leaves(n, cut)
        /\ LET all == FoldLeft(press, Ticked(p), Whole(n))
               k == IF cut THEN Stray[queue[n + 1].key] ELSE Quit
               s == IF k = Quit THEN all ELSE Pressed(all, k)
           IN  state' = s.st /\ ttl' = s.tt
        /\ lost' = (lost \/ cut)
        /\ UNCHANGED <<kitty, alive, held>>

\* Faulty: the handler empties the queue without looking for Ctrl-C.
TimerHandlerBlind ==
  /\ kitty /\ alive /\ queue # <<>>
  /\ \E n \in AlarmKeys, cut \in BOOLEAN : Leaves(n, cut)
  /\ lost' = TRUE /\ held' = {}
  /\ UNCHANGED <<kitty, alive, state, ttl>>

\* TimerHandler, on SIGALRM, between any two steps of the emulator: what it reads is
\* searched for Ctrl-C and dropped.
TimerHandler ==
  /\ kitty /\ alive /\ queue # <<>>
  /\ \E n \in AlarmKeys, cut \in BOOLEAN : Leaves(n, cut) /\ alive' = ~HasQuit(Whole(n))
  /\ lost' = TRUE /\ held' = {}
  /\ UNCHANGED <<kitty, state, ttl>>
=============================================================================
