--------------------------- MODULE WorldGenerator ---------------------------
(***************************************************************************)
(* RandomWorldGenerator: rock and snow where the noise is high, then       *)
(* brick buildings with doors at random places.  The noise is any of       *)
(* Noises; a random number is any of its range.                            *)
(***************************************************************************)
EXTENDS Integers, FiniteSetsExt, Functions, TLC

CONSTANTS
  WorldSize,          \* size: <<x, y>>
  Noises,             \* what PerlinNoise gives: position -> height
  HeightTypes,        \* HeightMap: height -> block type
  smoothing_distance, \* 5
  building_size_min,  \* <<7, 5>>
  building_size_max,  \* <<12, 10>>
  BlocksPerBuilding   \* 1 / building_rate, times the area of the largest one

ASSUME GeneratorAssumption ==
  /\ WorldSize \in (Nat \ {0}) \X (Nat \ {0})
  /\ smoothing_distance \in Nat \ {0} /\ BlocksPerBuilding \in Nat \ {0}
  /\ building_size_min \in (Nat \ (0 .. 2)) \X (Nat \ (0 .. 2))
  /\ building_size_max \in Nat \X Nat
  /\ \A i \in 1 .. 2 : building_size_min[i] <= building_size_max[i]

VARIABLES
  generating,      \* what GenerateWorld is about to do
  walls,           \* position -> block type
  building_count,  \* buildings to come
  building         \* the one that waits for its doors: start and end

generatorVars == <<generating, walls, building_count, building>>

Positions == (0 .. WorldSize[1] - 1) \X (0 .. WorldSize[2] - 1)

\* Noise above its heights is rounded to them: whole numbers.
ASSUME HeightAssumption ==
  /\ Noises \subseteq [Positions -> Int]
  /\ DOMAIN HeightTypes \subseteq Nat \ {0}     \* the lowest is 10

NoBuilding == [start |-> <<0, 0>>, end |-> <<0, 0>>]

-----------------------------------------------------------------------------
(* GenerateHeight. *)

\* Walls next to the edges are smoothed out.
Height(noise, p) ==
  LET distance == Min({p[1], WorldSize[1] - p[1] - 1,
                       p[2], WorldSize[2] - p[2] - 1})
  IN IF distance < smoothing_distance
     THEN (noise[p] * distance) \div smoothing_distance ELSE noise[p]

\* HeightMap::GetType: the type set for the greatest height not above it.
GetType(height) ==
  LET reached == {h \in DOMAIN HeightTypes : h <= height}
  IN IF reached = {} THEN "EMPTY_BLOCK" ELSE HeightTypes[Max(reached)]

GenerateHeight ==
  /\ generating = "height"
  /\ \E noise \in Noises :
       LET rock == {p \in Positions :
                      GetType(Height(noise, p)) # "EMPTY_BLOCK"}
       IN /\ walls' = [p \in rock |-> GetType(Height(noise, p))]
          /\ building_count' = Cardinality(Positions \ rock)
                                 \div BlocksPerBuilding
  /\ generating' = IF \A i \in 1 .. 2 : WorldSize[i] > building_size_max[i]
                   THEN "buildings" ELSE "done"
  /\ UNCHANGED building

-----------------------------------------------------------------------------
(* GenerateBuildings and GenerateDoors. *)

IsBlocked(p) == p \in DOMAIN walls

\* Mutant: one too many.
StartRangeToEdge(i) == 0 .. WorldSize[i] - building_size_max[i]

StartRange(i) == 0 .. WorldSize[i] - building_size_max[i] - 1

Inside(b, border) ==
  (b.start[1] + border .. b.end[1] - 1 - border)
    \X (b.start[2] + border .. b.end[2] - 1 - border)

\* Where the building will stand, only these fields are looked at.
AreaEmpty(b) ==
  ~ \E p \in {b.start, b.end, <<b.start[1], b.end[2] - 1>>,
              <<b.end[1] - 1, b.start[2]>>} : IsBlocked(p)

\* Walls around, nothing within.  If a corner is blocked, the next numbers are
\* tried.
GenerateBuilding ==
  /\ generating = "buildings" /\ building = NoBuilding /\ building_count > 0
  /\ \E x \in StartRange(1), y \in StartRange(2),
        w \in building_size_min[1] .. building_size_max[1],
        h \in building_size_min[2] .. building_size_max[2] :
       LET b == [start |-> <<x, y>>, end |-> <<x + w, y + h>>]
       IN /\ AreaEmpty(b)
          /\ building' = b
          /\ walls' = [p \in (DOMAIN walls \cup Inside(b, 0)) \ Inside(b, 1) |->
                         IF p \in Inside(b, 0) THEN "WALL_BRICK" ELSE walls[p]]
  /\ UNCHANGED <<generating, building_count>>

\* Mutant: the corners may be doors, and the field in front may be blocked.
DoorsAnywhere(b, side) ==
  {p \in Inside(b, 0) \ Inside(b, 1) :
     CASE side = "up" -> p[2] = b.start[2]
       [] side = "down" -> p[2] = b.end[2] - 1
       [] side = "left" -> p[1] = b.start[1]
       [] OTHER -> p[1] = b.end[1] - 1}

\* The fields of a side, but its corners, that have a free field in front.
Doors(b, side) ==
  LET xs == b.start[1] + 1 .. b.end[1] - 2
      ys == b.start[2] + 1 .. b.end[2] - 2
  IN CASE side = "up" ->
            {<<x, b.start[2]>> : x \in {x \in xs : ~IsBlocked(<<x, b.start[2] - 1>>)}}
       [] side = "down" ->
            {<<x, b.end[2] - 1>> : x \in {x \in xs : ~IsBlocked(<<x, b.end[2]>>)}}
       [] side = "left" ->
            {<<b.start[1], y>> : y \in {y \in ys : ~IsBlocked(<<b.start[1] - 1, y>>)}}
       [] side = "right" ->
            {<<b.end[1] - 1, y>> : y \in {y \in ys : ~IsBlocked(<<b.end[1], y>>)}}

\* The last try of a round, on the right, ends the rounds when the field in
\* front of it is blocked, although there may be no door yet.
RoundsEndBlocked(b) ==
  \E y \in b.start[2] + 1 .. b.end[2] - 2 : IsBlocked(<<b.end[1], y>>)

\* One door in each of some sides; another round while there is none.
GenerateDoors ==
  /\ generating = "buildings" /\ building # NoBuilding
  /\ \E sides \in SUBSET {"up", "down", "left", "right"} :
       /\ sides # {} \/ RoundsEndBlocked(building)
       /\ \A side \in sides : Doors(building, side) # {}
       /\ \E door \in [sides -> UNION {Doors(building, side) : side \in sides}] :
            /\ \A side \in sides : door[side] \in Doors(building, side)
            /\ walls' = Restrict(walls, DOMAIN walls \ Range(door))
  /\ building' = NoBuilding
  /\ building_count' = building_count - 1
  /\ UNCHANGED generating

GenerateWorldReturns ==
  /\ generating = "buildings" /\ building_count = 0
  /\ generating' = "done"
  /\ UNCHANGED <<walls, building_count, building>>

GeneratorInit ==
  /\ generating = "height" /\ walls = <<>>
  /\ building_count = 0 /\ building = NoBuilding

GeneratorNext ==
  GenerateHeight \/ GenerateBuilding \/ GenerateDoors \/ GenerateWorldReturns

GeneratorSpec == GeneratorInit /\ [][GeneratorNext]_generatorVars

-----------------------------------------------------------------------------
(* Properties. *)

\* No wall stands in the last column or the last row, so that one can walk
\* around everything: rock is smoothed out there and buildings end before.
EdgesStayFree ==
  \A p \in DOMAIN walls :
    p[1] < WorldSize[1] - 1 /\ p[2] < WorldSize[2] - 1

Torus(p) == <<p[1] % WorldSize[1], p[2] % WorldSize[2]>>
Free == Positions \ DOMAIN walls
Steps(p) == {<<p[1] + 1, p[2]>>, <<p[1] - 1, p[2]>>,
             <<p[1], p[2] + 1>>, <<p[1], p[2] - 1>>}
\* A field of the wall through which one can walk from within to without.
LeadsOut(b, door) ==
  /\ door \in Inside(b, 0) \ Inside(b, 1) /\ ~IsBlocked(door)
  /\ \E p \in Steps(door) \cap Inside(b, 1) : ~IsBlocked(p)
  /\ \E p \in Steps(door) \ Inside(b, 0) : ~IsBlocked(Torus(p))

\* Every door that is placed leads somewhere: the field before it and the
\* field behind it are free, also across the border of the world.
DoorsLeadOut ==
  [][generating = "buildings" /\ building # NoBuilding
       => \E b \in {building} :
            \A door \in DOMAIN walls \ DOMAIN walls' :
              LeadsOut(b, door)']_generatorVars

\* The comment in GenerateDoors: "repeat if no door has been placed".  No
\* building is left closed.
BuildingsHaveDoors ==
  [][generating = "buildings" /\ building # NoBuilding
       => \E b \in {building} :
            (\E door \in Inside(b, 0) : LeadsOut(b, door))']_generatorVars
=============================================================================
