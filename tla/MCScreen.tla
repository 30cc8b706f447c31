------------------------------ MODULE MCScreen ------------------------------
(***************************************************************************)
(* Constants for TLC: a small ring shaped world with room for a building,  *)
(* with or without rock on it, and a viewport that is wider than the       *)
(* world and of even height, as the client's is.                           *)
(***************************************************************************)
EXTENDS Screen

AllFields == (0 .. 4) \X (0 .. 4)
Peak(tops) == [p \in AllFields |-> IF p \in tops THEN 4 ELSE 0]
MCRock == Peak({<<3, 2>>, <<4, 4>>, <<0, 1>>})
MCNoise == {MCRock}
MCNoises == {Peak({}), MCRock}
MCHeightTypes == (1 :> "EMPTY_BLOCK") @@ (2 :> "WALL_ROCK_LIGHT")
                   @@ (3 :> "WALL_ROCK_FULL")
MCWorldSize == <<5, 5>>
MCBuildingMin == <<3, 3>>
MCBuildingMax == <<3, 4>>

MCViewportSize == <<15, 4>>
MCBlockSize == <<1, 1>>
MCPlayerColumns == <<2, 2, 1, 1, 1>>
MCMessage == <<Char("DEAD")>>
MCSymmetry == Permutations(TerminalSizes)

MCPlayer(position, type) ==
  [position |-> position, type |-> type, color |-> "YELLOW", name |-> "name",
   health |-> IF type = "PLAYER_DEAD" THEN 0 ELSE 1, score |-> "0",
   item |-> IF type = "PLAYER_UP" THEN "gun" ELSE "none"]
MCPlayerLists ==
  {<<MCPlayer(<<4, 4>>, "PLAYER_UP")>>,
   <<MCPlayer(<<0, 4>>, "PLAYER_DEAD"), MCPlayer(<<4, 0>>, "PLAYER_LEFT")>>}
MCContents ==
  {[projectiles |-> {<<4, 4>>, <<1, 4>>}, items |-> {<<2, 4>>},
    colored_fields |-> {<<1, 4>>, <<0, 0>>}],
   [projectiles |-> {}, items |-> {}, colored_fields |-> {}]}
=============================================================================
