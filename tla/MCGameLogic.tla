---------------------------- MODULE MCGameLogic ----------------------------
(* A world for TLC: a row that is a ring, with a row of walls next to it.   *)
EXTENDS GameLogic

SecondRow == {field \in Fields : field[2] = 1}
=============================================================================
