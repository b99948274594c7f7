------------------------------- MODULE NmiLine -------------------------------
(***************************************************************************)
(* What the rest of the console may rely on about the NMI line between the *)
(* PPU and the CPU: a request raised just before a poll is `soon' and is   *)
(* served by the poll after next unless the program takes it back, an      *)
(* older one is `now' and cannot be taken back.  There is one request at   *)
(* most, except that an OAM DMA held up by rendering stalls the CPU up to  *)
(* the next vblank, whose request then comes on top of one that waits.     *)
(***************************************************************************)
VARIABLES
  request,    \* "none", "soon" or "now"
  second,     \* one more is `soon' behind a request that is `now'
  held,       \* since the last poll rendering has held up a DMA
  entering    \* the last poll found a request; the handler is being entered

lineVars == <<request, second, held, entering>>

LineInit == request = "none" /\ second = FALSE /\ held = FALSE /\ entering = FALSE

Hold ==
  /\ held' = TRUE
  /\ UNCHANGED <<request, second, entering>>

Raise ==
  /\ ~entering /\ request = "none"
  /\ request' \in {"soon", "now"}
  /\ UNCHANGED <<second, held, entering>>

Collide ==
  /\ held /\ request # "none"
  /\ request' = "now" /\ second' = TRUE
  /\ UNCHANGED <<held, entering>>

Withdraw ==
  /\ ~entering /\ request = "soon"
  /\ request' = "none"
  /\ UNCHANGED <<second, held, entering>>

Poll ==
  /\ ~entering
  /\ entering' = (request = "now")
  /\ request' = IF request = "soon" \/ second THEN "now" ELSE "none"
  /\ second' = FALSE /\ held' = FALSE

Enter ==
  /\ entering
  /\ entering' = FALSE
  /\ UNCHANGED <<request, second, held>>

LineNext == Hold \/ Raise \/ Collide \/ Withdraw \/ Poll \/ Enter

LineSpec == LineInit /\ [][LineNext]_lineVars
=============================================================================
