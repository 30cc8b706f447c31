---------------------------- MODULE MCGameClient ----------------------------
(***************************************************************************)
(* Constants for TLC: projectiles on one field as GameLogic leaves them,   *)
(* and keys typed at once: moving and using an item twice, a table,        *)
(* leaving, and an arrow.                                                  *)
(***************************************************************************)
EXTENDS GameClient

East == [position |-> 0, direction |-> "EAST", shooter |-> 1]
West == [position |-> 0, direction |-> "WEST", shooter |-> 2]
Lists == {<<East>>, <<West, East>>}
LiveLists == {<<East>>}
LiveKeys == {<<"w", "w">>, <<" ", " ">>}
KeyBytes == {<<"w", "w">>, <<" ", " ">>, <<"y">>, <<"ESC">>, <<"ESC", "[", "A">>}
=============================================================================
