------------------------------- MODULE MCSession -------------------------------
(* Two opposite directions on the first pad, none on the second, both keys     *)
(* arrows and the first of them Enter too.  A buffer holds one sequence, so    *)
(* that reads cut the second, or two, the first one that of an unbound key.    *)
(* The unbound key is released only: its press lends the sequence behind it    *)
(* no letter that would change its meaning.                                    *)
EXTENDS Session

MCPorts == {1, 2}
MCOrder == <<"up", "down">>
MCOpposite == {{"up", "down"}}
MCBinding == ("u1" :> [port |-> 1, button |-> "up"]) @@ ("d1" :> [port |-> 1, button |-> "down"])
MCBufKeys == {1, 2}
MCAlarmKeys == {1}
MCUnboundMoves == {FALSE}
MCMerged == ("u1" :> "u1") @@ ("d1" :> "d1") @@ ("quit" :> "u1")
MCStray == ("u1" :> "d1") @@ ("d1" :> "quit")
=============================================================================
